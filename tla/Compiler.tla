-------------------------------- MODULE Compiler --------------------------------
(***************************************************************************)
(* Module lamia.compiler: Lexer, Parser, Transpiler, and a Compiler object  *)
(* whose compile() is called again and again.  A source is a sequence of    *)
(* pieces; a piece is a character, or a word the lexer or the parser knows  *)
(* ("manifest", "create", "widget" for the RADIANT_... names, "shown" for   *)
(* the attribute such a widget displays).  Adjoining word pieces are one    *)
(* word, as adjoining letters are.  Lines and columns of tokens are left    *)
(* out: nothing reads them.                                                 *)
(***************************************************************************)
EXTENDS Integers, Sequences, SequencesExt

CONSTANT
  Scripts  \* sequences of calls, each [via, source, strict, size, written]: via and size
           \* see CompilerApi; written the program the source writes out, if any (Layouts)

VARIABLES
  script,  \* the calls still to be made; the head is the call in progress, if any
  strict,  \* options_.strict of the compiler in use
  phase,   \* where compile() is
  at,      \* pos_ of the lexer, then of the parser
  tokens,
  tree,    \* children of the root the parser has built
  node,    \* the statement whose block is being parsed
  ast,     \* ast_: <<>>, or <<the tree the last successful compile() kept>>
  result,  \* what compile() returns, and the page when it returns one
  log      \* history: the completed calls and what they left

parserVars == <<tree, node>>
resultVars == <<ast, result, log>>
compilerVars == <<script, strict, phase, at, tokens, parserVars, resultVars>>

Letters == {"manifest", "create", "widget", "shown", "n", "@"}
Digits == {"7"}
Symbols == {"{", "}", ":", ",", "[", "]", ";", "newline"}
Pieces == Letters \cup Digits \cup Symbols
          \cup {".", "-", ">", "/", "*", "quote", "backslash", "blank", "?"}

\* A script is a sequence of calls; every source is text, the options are flags.
ASSUME ScriptsAssumption ==
  \A calls \in Scripts :
    /\ calls \in Seq(ToSet(calls))
    /\ \A c \in ToSet(calls) : c.source \in Seq(Pieces) /\ c.strict \in BOOLEAN

TokenTypes == {"manifest", "create", "identifier", "at", "string", "number",
               "arrow", "eof"} \cup Symbols
Phases == {"idle", "lexing", "parsing", "block", "returning"}

Failure == [ok |-> FALSE, page |-> <<>>]
NoNode == [kind |-> "none", name |-> <<>>, attributes |-> <<>>]
source == Head(script).source

CompilerInit ==
  /\ script \in Scripts
  /\ strict = FALSE /\ phase = "idle" /\ at = 0 /\ tokens = <<>>
  /\ tree = <<>> /\ node = NoNode
  /\ ast = <<>> /\ result = Failure /\ log = <<>>

\* compile(): a new lexer, with the options set_options() left in the object.
Begin(options) ==
  /\ phase = "idle" /\ script # <<>>
  /\ strict' = options
  /\ phase' = "lexing" /\ at' = 0 /\ tokens' = <<>>
  /\ UNCHANGED <<script, parserVars, result, log>>

Compile ==
  /\ script # <<>> /\ Head(script).via = "object"
  /\ Begin(Head(script).strict)
  /\ UNCHANGED ast

-----------------------------------------------------------------------------
(* Lexer::tokenize: one action per branch of its loop. *)

Least(S) == CHOOSE i \in S : \A j \in S : i <= j

\* Where a run of characters in S that starts at p ends.
EndOfRun(p, S) ==
  Least({q \in p .. Len(source) : q = Len(source) \/ source[q + 1] \notin S})

\* The position after skip_whitespace(), the character there and peek().
start == EndOfRun(at, {"blank"})
Char(p) == IF p < Len(source) THEN source[p + 1] ELSE "none"

Emit(next, new) ==
  /\ phase = "lexing"
  /\ at' = next /\ tokens' = tokens \o new
  /\ UNCHANGED <<script, strict, phase, parserVars, resultVars>>

Token(type, value) == <<[type |-> type, value |-> value]>>

LineComment == EndOfRun(start, Pieces \ {"newline"})

\* An unterminated comment ends before the last character, which is then lexed.
BlockComment ==
  LET n == Len(source)
      end == Least({q \in start + 2 .. n :
                      q + 1 >= n \/ (Char(q) = "*" /\ Char(q + 1) = "/")})
  IN IF end + 1 < n THEN end + 2 ELSE end

LexComment ==
  /\ Char(start) = "/" /\ Char(start + 1) \in {"/", "*"}
  /\ Emit(IF Char(start + 1) = "/" THEN LineComment ELSE BlockComment, <<>>)

WordType(word) ==
  CASE word = <<"manifest">> -> "manifest"
    [] word = <<"create">> -> "create"
    [] Head(word) = "@" -> "at"
    [] OTHER -> "identifier"

LexWord ==
  /\ Char(start) \in Letters
  /\ LET end == EndOfRun(start, Letters \cup Digits)
         word == SubSeq(source, start + 1, end)
     IN Emit(end, Token(WordType(word), word))

\* Variant: the first quote ends the string, escaped or not.
QuotedPlain(p) ==
  LET end == EndOfRun(p, Pieces \ {"quote"})
  IN [end |-> end, text |-> SubSeq(source, p + 1, end)]

\* What stands between p and the closing quote, or the end of the source.
\* A backslash takes the next character with it.
Quoted(p) ==
  LET scan[q \in p .. Len(source)] ==
        IF Char(q) \in {"quote", "none"} THEN [end |-> q, text |-> <<>>]
        ELSE LET escaped == Char(q) = "backslash" /\ Char(q + 1) # "none"
                 char == IF escaped THEN Char(q + 1) ELSE Char(q)
                 rest == scan[q + IF escaped THEN 2 ELSE 1]
             IN [end |-> rest.end,
                 text |-> <<IF escaped /\ char = "n" THEN "newline" ELSE char>>
                         \o rest.text]
  IN scan[p]

LexString ==
  /\ Char(start) = "quote"
  /\ LET string == Quoted(start + 1)
     IN Emit(IF string.end < Len(source) THEN string.end + 1 ELSE string.end,
             Token("string", string.text))

LexNumber ==
  /\ Char(start) \in Digits
  /\ LET end == EndOfRun(start, Digits \cup {"."})
     IN Emit(end, Token("number", SubSeq(source, start + 1, end)))

LexSymbol ==
  /\ Char(start) \in Symbols
  /\ Emit(start + 1, Token(Char(start), <<Char(start)>>))

\* Variant: a minus sign that starts no arrow is left for the next iteration.
LexArrowOnly ==
  /\ Char(start) = "-"
  /\ IF Char(start + 1) = ">" THEN Emit(start + 2, Token("arrow", <<"-", ">">>))
     ELSE Emit(start, <<>>)

LexArrow ==
  /\ Char(start) = "-"
  /\ IF Char(start + 1) = ">" THEN Emit(start + 2, Token("arrow", <<"-", ">">>))
     ELSE Emit(start + 1, <<>>)

LexOther ==
  /\ \/ Char(start) \in {".", ">", "*", "backslash", "?"}
     \/ Char(start) = "/" /\ Char(start + 1) \notin {"/", "*"}
  /\ Emit(start + 1, <<>>)

\* The end token; the parser starts on the tokens.
LexEnd ==
  /\ phase = "lexing" /\ Char(start) = "none"
  /\ tokens' = tokens \o Token("eof", <<>>)
  /\ phase' = "parsing" /\ at' = 0 /\ tree' = <<>>
  /\ UNCHANGED <<script, strict, node, resultVars>>

Lex ==
  /\ phase = "lexing"
  /\ \/ LexComment \/ LexWord \/ LexString \/ LexNumber
     \/ LexSymbol \/ LexArrow \/ LexOther \/ LexEnd

-----------------------------------------------------------------------------
(* Parser::parse: one action per round of its loops.  The end token is never *)
(* stepped over, so tokens_[pos_] exists throughout.                         *)

Type(p) == tokens[p + 1].type
Value(p) == tokens[p + 1].value
SkipNewlines(p) == Least({q \in p .. Len(tokens) - 1 : Type(q) # "newline"})
here == SkipNewlines(at)

Kind(keyword, name) ==
  CASE keyword = "manifest" -> "manifest"
    [] keyword = "create" /\ name = <<"widget">> -> "widget"
    [] OTHER -> "create"

\* A statement up to its block; one without a block is complete.
ParseStatement ==
  /\ phase = "parsing" /\ Type(here) \in {"manifest", "create"}
  /\ LET named == Type(here + 1) = "identifier"
         name == IF named THEN Value(here + 1) ELSE <<>>
         next == IF named THEN here + 2 ELSE here + 1
         new == [kind |-> Kind(Type(here), name), name |-> name, attributes |-> <<>>]
     IN IF Type(next) = "{"
        THEN /\ phase' = "block" /\ node' = new /\ at' = next + 1
             /\ UNCHANGED tree
        ELSE /\ tree' = Append(tree, new) /\ at' = next
             /\ UNCHANGED <<phase, node>>
  /\ UNCHANGED <<script, strict, tokens, resultVars>>

\* Only strict parsing minds a token that starts no statement.
ParseUnknown ==
  /\ phase = "parsing" /\ Type(here) \notin {"manifest", "create", "eof"}
  /\ IF strict
     THEN /\ phase' = "returning" /\ result' = Failure
          /\ UNCHANGED at
     ELSE /\ at' = here + 1
          /\ UNCHANGED <<phase, result>>
  /\ UNCHANGED <<script, strict, tokens, parserVars, ast, log>>

\* The position after a comma that stands at p.
AfterComma(p) == IF Type(p) = "," THEN p + 1 ELSE p

\* A key takes whatever follows it, the closing brace included, as its value.
ParseAttribute ==
  /\ phase = "block" /\ Type(here) = "identifier"
  /\ LET value == IF Type(here + 1) = ":" THEN here + 2 ELSE here + 1
     IN IF Type(value) = "eof"
        THEN at' = value /\ UNCHANGED node
        ELSE /\ at' = AfterComma(value + 1)
             /\ node' = [node EXCEPT !.attributes = Append(@, <<Value(here), Value(value)>>)]
  /\ UNCHANGED <<script, strict, phase, tokens, tree, resultVars>>

ParseSkip ==
  /\ phase = "block" /\ Type(here) \notin {"identifier", "}", "eof"}
  /\ at' = AfterComma(here + 1)
  /\ UNCHANGED <<script, strict, phase, tokens, parserVars, resultVars>>

\* Variant: the end token is taken for the closing brace.
ParseBlockEndAny ==
  /\ phase = "block" /\ Type(here) \in {"}", "eof"}
  /\ at' = here + 1
  /\ tree' = Append(tree, node) /\ node' = NoNode
  /\ phase' = "parsing"
  /\ UNCHANGED <<script, strict, tokens, resultVars>>

ParseBlockEnd ==
  /\ phase = "block" /\ Type(here) \in {"}", "eof"}
  /\ at' = IF Type(here) = "}" THEN here + 1 ELSE here
  /\ tree' = Append(tree, node) /\ node' = NoNode
  /\ phase' = "parsing"
  /\ UNCHANGED <<script, strict, tokens, resultVars>>

-----------------------------------------------------------------------------
(* Transpiler::transpile *)

Escape(text) == [i \in 1 .. Len(text) |-> IF text[i] = ">" THEN "&gt;" ELSE text[i]]

\* attr(): the first attribute of that name.
Shown(n) ==
  LET found == {i \in DOMAIN n.attributes : n.attributes[i][1] = <<"shown">>}
  IN IF found = {} THEN <<>> ELSE Escape(n.attributes[Least(found)][2])

\* Manifests and unknown widgets print nothing.
Element(n) == IF n.kind = "widget" THEN <<"element">> \o Shown(n) ELSE <<>>

Page(t) ==
  LET html[i \in 0 .. Len(t)] ==
        IF i = 0 THEN <<"head">> ELSE html[i - 1] \o Element(t[i])
  IN html[Len(t)]

\* Variant: the tree of the former source is transpiled.
TranspileStale ==
  /\ phase = "parsing" /\ Type(here) = "eof"
  /\ ast' = <<tree>>
  /\ result' = [ok |-> TRUE, page |-> Page(IF ast = <<>> THEN tree ELSE ast[1])]
  /\ phase' = "returning"
  /\ UNCHANGED <<script, strict, at, tokens, parserVars, log>>

\* The end of parse(): compile() keeps the tree and transpiles it.
Transpile ==
  /\ phase = "parsing" /\ Type(here) = "eof"
  /\ ast' = <<tree>>
  /\ result' = [ok |-> TRUE, page |-> Page(tree)]
  /\ phase' = "returning"
  /\ UNCHANGED <<script, strict, at, tokens, parserVars, log>>

Parse ==
  \/ ParseStatement \/ ParseUnknown
  \/ ParseAttribute \/ ParseSkip \/ ParseBlockEnd
  \/ Transpile

\* The end of a call: the lexer and the parser are gone.
Finish ==
  /\ phase = "returning"
  /\ log' = Append(log, [call |-> Head(script), result |-> result, ast |-> ast])
  /\ script' = Tail(script)
  /\ phase' = "idle" /\ at' = 0 /\ tokens' = <<>> /\ tree' = <<>> /\ node' = NoNode
  /\ result' = Failure
  /\ UNCHANGED strict

Return ==
  /\ phase = "returning" /\ Head(script).via = "object"
  /\ Finish
  /\ UNCHANGED ast

CompilerNext == Compile \/ Lex \/ Parse \/ Return

-----------------------------------------------------------------------------
(* Properties *)

CompilerTypeOK ==
  /\ strict \in BOOLEAN /\ phase \in Phases
  /\ phase # "idle" => script # <<>>
  /\ phase = "lexing" => at \in 0 .. Len(source)
  /\ phase \in {"parsing", "block"} => at \in 0 .. Len(tokens) - 1
  /\ \A i \in DOMAIN tokens :
       /\ tokens[i].type \in TokenTypes
       /\ tokens[i].type = "eof" <=> (phase # "lexing" /\ i = Len(tokens))

\* A lenient compile never fails, and one that strict parsing lets pass builds the
\* tree and the page lenient parsing builds: strict only rejects.  In
\* particular the outcome depends on the source alone, not on what earlier
\* calls, failed ones too, left in the object.
StrictIsARestriction ==
  \A i, j \in DOMAIN log :
    log[i].call.source = log[j].call.source /\ ~log[j].call.strict =>
      /\ log[j].result.ok
      /\ log[i].result.ok => log[i].result = log[j].result /\ log[i].ast = log[j].ast

\* Every call ends, however malformed its source: each round of the lexer's
\* and the parser's loops, which have no bound of their own, gets further.
CompileReturns == phase = "lexing" ~> phase = "returning"

\* "Strict parsing: reject unknown constructs" (CompilerOptions, line 28): a widget
\* the transpiler has no element for is an unknown construct.
StrictRejectsUnknown ==
  phase = "returning" /\ strict /\ result.ok =>
    \A i \in DOMAIN ast[1] : ast[1][i].kind # "create"

=============================================================================
