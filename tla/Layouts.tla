--------------------------------- MODULE Layouts ---------------------------------
(***************************************************************************)
(* Programs of the language written out as sources, in every layout: the    *)
(* reference the compiler is compared with.  A lexeme is a stretch of text   *)
(* and the tokens it stands for; a layout chooses the blanks, newlines and   *)
(* comments between them and the marks that may be left out.                 *)
(***************************************************************************)
EXTENDS Compiler

Lexeme(text, toks) == [text |-> text, tokens |-> toks]

Word(w) == Lexeme(w, Token(WordType(w), w))
Number(n) == Lexeme(n, Token("number", n))
Symbol(c) == Lexeme(<<c>>, Token(c, <<c>>))

Spell(char) ==
  CASE char \in {"quote", "backslash"} -> <<"backslash", char>>
    [] char = "newline" -> <<"backslash", "n">>
    [] OTHER -> <<char>>

String(t) ==
  Lexeme(<<"quote">> \o FlattenSeq([i \in 1 .. Len(t) |-> Spell(t[i])]) \o <<"quote">>,
         Token("string", t))

IsWord(w) == w \in Seq(Letters \cup Digits) /\ w # <<>> /\ Head(w) \in Letters
IsName(w) == IsWord(w) /\ WordType(w) = "identifier"
IsNumber(n) == n \in Seq(Digits \cup {"."}) /\ n # <<>> /\ Head(n) \in Digits

IsBlockComment(x) ==
  /\ Len(x) >= 4 /\ x[1] = "/" /\ x[2] = "*" /\ x[Len(x) - 1] = "*" /\ x[Len(x)] = "/"
  /\ \A i \in 3 .. Len(x) - 2 : ~(x[i] = "*" /\ x[i + 1] = "/")

IsLineComment(x) ==
  /\ Len(x) >= 2 /\ x[1] = "/" /\ x[2] = "/"
  /\ \A i \in 1 .. Len(x) : x[i] # "newline"

\* What may stand between two tokens of a statement, and before one that begins
\* a statement or an attribute or ends a block.
IsBlank(e) ==
  /\ e.text \in Seq(Pieces) /\ e = Lexeme(e.text, <<>>)
  /\ e.text = <<"blank">> \/ IsBlockComment(e.text) \/ IsLineComment(e.text)
IsGap(e) == e = Symbol("newline") \/ IsBlank(e)

AllBlank(g) == g \in Seq(ToSet(g)) /\ \A e \in ToSet(g) : IsBlank(e)
AllGap(g) == g \in Seq(ToSet(g)) /\ \A e \in ToSet(g) : IsGap(e)

-----------------------------------------------------------------------------
(* A value is written as a string, or bare where it is a word or a number.    *)

ValueLexeme(v, form) ==
  CASE form = "string" -> String(v) [] form = "word" -> Word(v) [] OTHER -> Number(v)

AttributeLexemes(a, l) ==
  <<Word(a[1])>>
    \o (IF l.colon THEN l.beforeColon \o <<Symbol(":")>> ELSE <<>>)
    \o l.beforeValue \o <<ValueLexeme(a[2], l.form)>>
    \o (IF l.comma THEN l.beforeComma \o <<Symbol(",")>> ELSE <<>>)
    \o l.after

Keyword(s) == IF s.kind = "manifest" THEN "manifest" ELSE "create"

BlockLexemes(s, l) ==
  l.beforeBlock \o <<Symbol("{")>> \o l.inside
    \o FlattenSeq([i \in 1 .. Len(s.attributes) |->
                     AttributeLexemes(s.attributes[i], l.attributes[i])])
    \o <<Symbol("}")>>

StatementLexemes(s, l) ==
  <<Word(<<Keyword(s)>>)>>
    \o (IF s.name = <<>> THEN <<>> ELSE l.beforeName \o <<Word(s.name)>>)
    \o (IF l.block THEN BlockLexemes(s, l) ELSE <<>>)
    \o l.after

Lexemes(w) ==
  w.before \o FlattenSeq([i \in 1 .. Len(w.program) |->
                            StatementLexemes(w.program[i], w.layout[i])])

Text(w) ==
  LET ls == Lexemes(w) IN FlattenSeq([i \in 1 .. Len(ls) |-> ls[i].text])

-----------------------------------------------------------------------------
(* Which programs there are, and which layouts of them. *)

IsAttribute(a) == a = <<a[1], a[2]>> /\ IsName(a[1]) /\ a[2] \in Seq(Pieces)

IsStatement(s) ==
  /\ s = [kind |-> s.kind, name |-> s.name, attributes |-> s.attributes]
  /\ s.name = <<>> \/ IsName(s.name)
  /\ s.kind = Kind(Keyword(s), s.name)
  /\ s.attributes \in Seq(ToSet(s.attributes))
  /\ \A a \in ToSet(s.attributes) : IsAttribute(a)

FitsAttribute(a, l) ==
  /\ {l.colon, l.comma} \subseteq BOOLEAN
  /\ AllBlank(l.beforeColon) /\ AllBlank(l.beforeValue) /\ AllBlank(l.beforeComma)
  /\ AllGap(l.after)
  /\ \/ l.form = "string"
     \/ l.form = "word" /\ IsWord(a[2])
     \/ l.form = "number" /\ IsNumber(a[2])

\* A block may be left out when it would be empty.
FitsStatement(s, l) ==
  /\ l.block \in BOOLEAN /\ (~l.block => s.attributes = <<>>)
  /\ AllBlank(l.beforeName) /\ AllBlank(l.beforeBlock)
  /\ AllGap(l.inside) /\ AllGap(l.after)
  /\ \A i \in 1 .. Len(s.attributes) : FitsAttribute(s.attributes[i], l.attributes[i])

\* A word or a number ends where the next lexeme begins, a line comment with its line.
Apart(d, e) ==
  /\ Head(d.text) \in Letters => Head(e.text) \notin Letters \cup Digits
  /\ Head(d.text) \in Digits => Head(e.text) \notin Digits \cup {"."}
  /\ IsLineComment(d.text) => Head(e.text) = "newline"

IsWritten(w) ==
  /\ w.program \in Seq(ToSet(w.program)) /\ AllGap(w.before)
  /\ \A i \in 1 .. Len(w.program) :
       IsStatement(w.program[i]) /\ FitsStatement(w.program[i], w.layout[i])
  /\ LET ls == Lexemes(w) IN \A i \in 1 .. Len(ls) - 1 : Apart(ls[i], ls[i + 1])

\* A call's source is the text of the written program it is annotated with.
ASSUME WrittenAssumption ==
  \A calls \in Scripts : \A c \in ToSet(calls) : \A w \in c.written :
    IsWritten(w) /\ c.source = Text(w)

\* A program that is written out, in whatever layout, compiles to its own tree in
\* both modes: blanks, newlines and comments between tokens change nothing, and
\* no statement or attribute gets lost or merged.
WrittenProgramsRead ==
  \A i \in DOMAIN log : \A w \in log[i].call.written :
    log[i].result.ok /\ log[i].ast = <<w.program>>

=============================================================================
