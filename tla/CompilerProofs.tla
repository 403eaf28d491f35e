---------------------------- MODULE CompilerProofs ----------------------------
(***************************************************************************)
(* Proofs about the compiler and the C API over it, for every script of     *)
(* calls and every source.                                                  *)
(***************************************************************************)
EXTENDS CompilerApi, WellFoundedInduction, TLAPS

(* What lenient compiling does, as a function of the source and the place    *)
(* where it is: the operators of the lexer and the parser with their source, *)
(* tokens and position as arguments.                                         *)

CharOf(s, p) == IF p < Len(s) THEN s[p + 1] ELSE "none"

RunEnd(s, p, S) == Least({q \in p .. Len(s) : q = Len(s) \/ s[q + 1] \notin S})

StartOf(s, p) == RunEnd(s, p, {"blank"})

CommentEnd(s, p) ==
  LET n == Len(s)
      end == Least({q \in p + 2 .. n :
                      q + 1 >= n \/ (CharOf(s, q) = "*" /\ CharOf(s, q + 1) = "/")})
  IN IF end + 1 < n THEN end + 2 ELSE end

QuotedIn(s, p) ==
  LET scan[q \in p .. Len(s)] ==
        IF CharOf(s, q) \in {"quote", "none"} THEN [end |-> q, text |-> <<>>]
        ELSE LET escaped == CharOf(s, q) = "backslash" /\ CharOf(s, q + 1) # "none"
                 char == IF escaped THEN CharOf(s, q + 1) ELSE CharOf(s, q)
                 rest == scan[q + IF escaped THEN 2 ELSE 1]
             IN [end |-> rest.end,
                 text |-> <<IF escaped /\ char = "n" THEN "newline" ELSE char>>
                         \o rest.text]
  IN scan[p]

\* The position after the piece at p and the tokens it makes, by its first character.
SlashFrom(s, p) ==
  IF CharOf(s, p + 1) = "/" THEN RunEnd(s, p, Pieces \ {"newline"})
  ELSE IF CharOf(s, p + 1) = "*" THEN CommentEnd(s, p) ELSE p + 1

WordFrom(s, p) ==
  LET end == RunEnd(s, p, Letters \cup Digits)
      word == SubSeq(s, p + 1, end)
  IN <<end, Token(WordType(word), word)>>

StringFrom(s, p) ==
  LET string == QuotedIn(s, p + 1)
  IN <<IF string.end < Len(s) THEN string.end + 1 ELSE string.end,
       Token("string", string.text)>>

NumberFrom(s, p) ==
  LET end == RunEnd(s, p, Digits \cup {"."})
  IN <<end, Token("number", SubSeq(s, p + 1, end))>>

SignFrom(s, p) ==
  IF CharOf(s, p + 1) = ">" THEN <<p + 2, Token("arrow", <<"-", ">">>)>> ELSE <<p + 1, <<>>>>

Lexed(s, p) ==
  LET char == CharOf(s, p)
  IN IF char = "/" THEN <<SlashFrom(s, p), <<>>>>
     ELSE IF char \in Letters THEN WordFrom(s, p)
     ELSE IF char = "quote" THEN StringFrom(s, p)
     ELSE IF char \in Digits THEN NumberFrom(s, p)
     ELSE IF char \in Symbols THEN <<p + 1, Token(char, <<char>>)>>
     ELSE IF char = "-" THEN SignFrom(s, p)
     ELSE <<p + 1, <<>>>>

\* Where compile() is: its phase, position, tokens, tree and open statement.
Here == <<phase, at, tokens, tree, node>>
Start == <<"lexing", 0, <<>>, <<>>, NoNode>>

LexStep(s, c) ==
  LET p == StartOf(s, c[2])
  IN IF CharOf(s, p) = "none"
     THEN <<"parsing", 0, c[3] \o Token("eof", <<>>), <<>>, c[5]>>
     ELSE <<"lexing", Lexed(s, p)[1], c[3] \o Lexed(s, p)[2], c[4], c[5]>>

TypeIn(t, p) == t[p + 1].type
ValueIn(t, p) == t[p + 1].value
HereIn(t, p) == Least({q \in p .. Len(t) - 1 : TypeIn(t, q) # "newline"})
CommaIn(t, p) == IF TypeIn(t, p) = "," THEN p + 1 ELSE p

StatementStep(c, p) ==
  LET t == c[3]
      named == TypeIn(t, p + 1) = "identifier"
      name == IF named THEN ValueIn(t, p + 1) ELSE <<>>
      next == IF named THEN p + 2 ELSE p + 1
      new == [kind |-> Kind(TypeIn(t, p), name), name |-> name, attributes |-> <<>>]
  IN IF TypeIn(t, next) = "{" THEN <<"block", next + 1, t, c[4], new>>
     ELSE <<"parsing", next, t, Append(c[4], new), c[5]>>

AttributeStep(c, p) ==
  LET t == c[3]
      value == IF TypeIn(t, p + 1) = ":" THEN p + 2 ELSE p + 1
  IN IF TypeIn(t, value) = "eof" THEN <<"block", value, t, c[4], c[5]>>
     ELSE <<"block", CommaIn(t, value + 1), t, c[4],
            [c[5] EXCEPT !.attributes = Append(@, <<ValueIn(t, p), ValueIn(t, value)>>)]>>

BlockStep(c, p) ==
  LET t == c[3]
  IN IF TypeIn(t, p) = "identifier" THEN AttributeStep(c, p)
     ELSE IF TypeIn(t, p) \in {"}", "eof"}
     THEN <<"parsing", IF TypeIn(t, p) = "}" THEN p + 1 ELSE p, t, Append(c[4], c[5]), NoNode>>
     ELSE <<"block", CommaIn(t, p + 1), t, c[4], c[5]>>

ParseStep(c) ==
  LET p == HereIn(c[3], c[2])
  IN IF c[1] = "block" THEN BlockStep(c, p)
     ELSE IF TypeIn(c[3], p) \in {"manifest", "create"} THEN StatementStep(c, p)
     ELSE <<"parsing", p + 1, c[3], c[4], c[5]>>

Successor(s, c) == IF c[1] = "lexing" THEN LexStep(s, c) ELSE ParseStep(c)

\* The parser stands at the end token, outside a block.
Done(c) == c[1] = "parsing" /\ TypeIn(c[3], HereIn(c[3], c[2])) = "eof"

\* The operators of the model are these, at the source and the place it is in.
LEMMA LexerOperators ==
  /\ \A p : Char(p) = CharOf(source, p)
  /\ \A p, S : EndOfRun(p, S) = RunEnd(source, p, S)
  /\ start = StartOf(source, at)
  /\ LineComment = RunEnd(source, start, Pieces \ {"newline"})
  /\ BlockComment = CommentEnd(source, start)
  /\ \A p : Quoted(p) = QuotedIn(source, p)
  <1>1. \A p : Char(p) = CharOf(source, p)
    BY DEF Char, CharOf
  <1>2. \A p, S : EndOfRun(p, S) = RunEnd(source, p, S)
    BY DEF EndOfRun, RunEnd
  <1>3. start = StartOf(source, at) /\ LineComment = RunEnd(source, start, Pieces \ {"newline"})
    BY <1>2 DEF start, StartOf, LineComment
  <1>4. BlockComment = CommentEnd(source, start)
    BY DEF BlockComment, CommentEnd, Char, CharOf
  <1>5. ASSUME NEW p PROVE Quoted(p) = QuotedIn(source, p)
    BY DEF Quoted, QuotedIn, Char, CharOf
  <1> QED
    BY <1>1, <1>2, <1>3, <1>4, <1>5

LEMMA ParserOperators ==
  /\ \A p : Type(p) = TypeIn(tokens, p) /\ Value(p) = ValueIn(tokens, p)
  /\ \A p : AfterComma(p) = CommaIn(tokens, p)
  /\ here = HereIn(tokens, at)
  <1>1. \A p : Type(p) = TypeIn(tokens, p) /\ Value(p) = ValueIn(tokens, p)
    BY DEF Type, TypeIn, Value, ValueIn
  <1>2. here = HereIn(tokens, at)
    BY DEF here, SkipNewlines, HereIn, Type, TypeIn
  <1> QED
    BY <1>1, <1>2 DEF AfterComma, CommaIn

\* Strict parsing gives up here: the token starts no statement.
Rejects(c) ==
  c[1] = "parsing" /\ TypeIn(c[3], HereIn(c[3], c[2])) \notin {"manifest", "create", "eof"}

\* Every round of the lexer is the one the function computes.
LEMMA LexIsSuccessor ==
  ASSUME Lex
  PROVE  /\ Here' = Successor(source, Here) /\ phase' \in {"lexing", "parsing"}
         /\ UNCHANGED <<script, strict, resultVars>> /\ ~Done(Here)
  <1> DEFINE p == start
             c == CharOf(source, p)
  <1> USE DEF Letters, Digits, Symbols
  <1>1. /\ phase = "lexing" /\ p = StartOf(source, at) /\ c = Char(p)
        /\ Char(p + 1) = CharOf(source, p + 1)
    BY LexerOperators DEF Lex
  <1> HIDE DEF p, c
  <1>2. CASE LexEnd
    BY <1>1, <1>2 DEF LexEnd, Here, Successor, LexStep, Done, p, c
  <1>3. ASSUME c # "none", Emit(Lexed(source, p)[1], Lexed(source, p)[2])
        PROVE  /\ Here' = Successor(source, Here) /\ phase' = "lexing"
               /\ UNCHANGED <<script, strict, resultVars>> /\ ~Done(Here)
    BY <1>1, <1>3 DEF Emit, Here, Successor, LexStep, Done, parserVars, c
  <1>4. CASE LexComment
    <2>1. c = "/" /\ CharOf(source, p + 1) \in {"/", "*"}
      BY <1>1, <1>4 DEF LexComment, p
    <2>2. Emit(SlashFrom(source, p), <<>>)
      BY <1>1, <1>4, <2>1, LexerOperators DEF LexComment, SlashFrom, p
    <2> QED
      BY <1>3, <2>1, <2>2 DEF Lexed, c
  <1>5. CASE LexWord
    <2>1. c \in Letters /\ Emit(WordFrom(source, p)[1], WordFrom(source, p)[2])
      BY <1>1, <1>5, LexerOperators DEF LexWord, WordFrom, p
    <2> QED
      BY <1>3, <2>1 DEF Lexed, c
  <1>6. CASE LexString
    <2>1. c = "quote" /\ Emit(StringFrom(source, p)[1], StringFrom(source, p)[2])
      BY <1>1, <1>6, LexerOperators DEF LexString, StringFrom, p
    <2> QED
      BY <1>3, <2>1 DEF Lexed, c
  <1>7. CASE LexNumber
    <2>1. c \in Digits /\ Emit(NumberFrom(source, p)[1], NumberFrom(source, p)[2])
      BY <1>1, <1>7, LexerOperators DEF LexNumber, NumberFrom, p
    <2> QED
      BY <1>3, <2>1 DEF Lexed, c
  <1>8. CASE LexSymbol
    <2>1. c \in Symbols /\ Emit(p + 1, Token(c, <<c>>))
      BY <1>1, <1>8 DEF LexSymbol, p
    <2> QED
      BY <1>3, <2>1 DEF Lexed, c
  <1>9. CASE LexArrow
    <2>1. c = "-" /\ Emit(SignFrom(source, p)[1], SignFrom(source, p)[2])
      BY <1>1, <1>9 DEF LexArrow, SignFrom, p
    <2> QED
      BY <1>3, <2>1 DEF Lexed, c
  <1>10. CASE LexOther
    <2>1. Emit(p + 1, <<>>)
      BY <1>10 DEF LexOther, p
    <2>2. CASE c \in {".", ">", "*", "backslash", "?"}
      BY <1>3, <2>1, <2>2 DEF Lexed, c
    <2>3. CASE c = "/" /\ CharOf(source, p + 1) \notin {"/", "*"}
      BY <1>3, <2>1, <2>3 DEF Lexed, SlashFrom, c
    <2> QED
      BY <1>1, <1>10, <2>2, <2>3 DEF LexOther, p
  <1> QED
    BY <1>2, <1>3, <1>4, <1>5, <1>6, <1>7, <1>8, <1>9, <1>10 DEF Lex

\* Every round of the parser is the one the function computes, unless strict
\* parsing gives up or the parser is done.
LEMMA ParseIsSuccessor ==
  ASSUME Parse, strict \in BOOLEAN
  PROVE  \/ /\ Here' = Successor(source, Here) /\ phase' \in {"parsing", "block"}
            /\ ~Done(Here) /\ UNCHANGED <<script, strict, resultVars>>
         \/ /\ strict /\ Rejects(Here) /\ phase' = "returning" /\ result' = Failure
            /\ UNCHANGED <<script, strict, ast, log>>
         \/ Done(Here) /\ Transpile
  <1> DEFINE p == here
  <1>1. /\ p = HereIn(tokens, at)
        /\ \A q : Type(q) = TypeIn(tokens, q) /\ Value(q) = ValueIn(tokens, q)
        /\ \A q : AfterComma(q) = CommaIn(tokens, q)
    BY ParserOperators
  <1>2. /\ Done(Here) <=> (phase = "parsing" /\ Type(p) = "eof")
        /\ Rejects(Here) <=>
             (phase = "parsing" /\ Type(p) \notin {"manifest", "create", "eof"})
    BY <1>1 DEF Done, Rejects, Here
  <1>3. phase # "lexing" =>
          Successor(source, Here) =
            IF phase = "block" THEN BlockStep(Here, p)
            ELSE IF Type(p) \in {"manifest", "create"} THEN StatementStep(Here, p)
            ELSE <<"parsing", p + 1, tokens, tree, node>>
    BY <1>1 DEF Successor, ParseStep, Here
  <1> HIDE DEF p
  <1>4. CASE ParseStatement
    <2>1. phase = "parsing" /\ Type(p) \in {"manifest", "create"}
          /\ UNCHANGED <<script, strict, tokens, resultVars>>
      BY <1>4 DEF ParseStatement, p
    <2>2. StatementStep(Here, p) = Here' /\ phase' \in {"parsing", "block"}
      BY <1>1, <1>4, <2>1 DEF ParseStatement, StatementStep, Here, p
    <2> QED
      BY <1>2, <1>3, <2>1, <2>2
  <1>5. CASE ParseUnknown
    <2>1. phase = "parsing" /\ Type(p) \notin {"manifest", "create", "eof"}
          /\ UNCHANGED <<script, strict, tokens, parserVars, ast, log>>
      BY <1>5 DEF ParseUnknown, p
    <2>2. CASE strict
      BY <1>2, <1>5, <2>1, <2>2 DEF ParseUnknown
    <2>3. CASE ~strict
      BY <1>2, <1>3, <1>5, <2>1, <2>3 DEF ParseUnknown, parserVars, resultVars, Here, p
    <2> QED
      BY <2>2, <2>3
  <1>6. CASE ParseAttribute
    <2>1. phase = "block" /\ Type(p) = "identifier"
          /\ UNCHANGED <<script, strict, phase, tokens, tree, resultVars>>
      BY <1>6 DEF ParseAttribute, p
    <2>2. AttributeStep(Here, p) = Here'
      BY <1>1, <1>6, <2>1 DEF ParseAttribute, AttributeStep, Here, p
    <2> QED
      BY <1>1, <1>2, <1>3, <2>1, <2>2 DEF BlockStep, Here
  <1>7. CASE ParseSkip
    BY <1>1, <1>2, <1>3, <1>7 DEF ParseSkip, BlockStep, Here, parserVars, p
  <1>8. CASE ParseBlockEnd
    BY <1>1, <1>2, <1>3, <1>8 DEF ParseBlockEnd, BlockStep, Here, p
  <1>9. CASE Transpile
    BY <1>2, <1>9 DEF Transpile, p
  <1> QED
    BY <1>4, <1>5, <1>6, <1>7, <1>8, <1>9 DEF Parse

-----------------------------------------------------------------------------
(* Least elements, and induction over sets of numbers.                        *)

Below == {pair \in Nat \X Nat : pair[1] < pair[2]}

\* Least(S) is what its name says.
LEMMA LeastIsLeast ==
  ASSUME NEW S \in SUBSET Nat, S # {}
  PROVE  Least(S) \in S /\ \A i \in S : Least(S) <= i
  <1>1. IsWellFoundedOn(Below, Nat)
    BY NatLessThanWellFounded DEF Below, OpToRel
  <1>2. PICK m \in S : \A i \in S : ~(<<i, m>> \in Below)
    BY <1>1, WFMin
  <1>3. m \in Nat /\ \A i \in Nat : i < m => <<i, m>> \in Below
    BY DEF Below
  <1>4. ASSUME NEW i \in S PROVE m <= i
    <2>1. i \in Nat /\ ~(i < m)
      BY <1>2, <1>3
    <2> QED
      BY <1>3, <2>1
  <1> QED
    BY <1>4 DEF Least

\* Induction, the predicate being membership in a set.
LEMMA NumbersByInduction ==
  ASSUME NEW B, 0 \in B, \A k \in Nat : k \in B => k + 1 \in B
  PROVE  \A k \in Nat : k \in B
  <1> DEFINE C == {k \in Nat : k \notin B}
  <1> SUFFICES ASSUME C # {} PROVE FALSE
    OBVIOUS
  <1>1. Least(C) \in C /\ \A i \in C : Least(C) <= i
    BY LeastIsLeast
  <1>2. PICK m \in Nat : m = Least(C) /\ m \notin B
    BY <1>1
  <1>3. m # 0 /\ m - 1 \in Nat /\ m - 1 \in B
    BY <1>1, <1>2
  <1>4. (m - 1) + 1 \in B /\ (m - 1) + 1 = m
    BY <1>2, <1>3
  <1> QED
    BY <1>2, <1>4

-----------------------------------------------------------------------------
(* Where the lexer goes from a position, and the tokens it makes there.       *)

Tokens == [type : TokenTypes, value : Seq(Pieces)]

\* A run of characters ends where it starts or behind that, within the source.
LEMMA RunEndWithin ==
  ASSUME NEW s \in Seq(Pieces), NEW p \in 0 .. Len(s), NEW S
  PROVE  /\ RunEnd(s, p, S) \in p .. Len(s)
         /\ p < Len(s) /\ s[p + 1] \in S => RunEnd(s, p, S) > p
         /\ RunEnd(s, p, S) < Len(s) => s[RunEnd(s, p, S) + 1] \notin S
  <1> DEFINE Q == {q \in p .. Len(s) : q = Len(s) \/ s[q + 1] \notin S}
  <1>1. Q \in SUBSET Nat /\ Len(s) \in Q /\ RunEnd(s, p, S) = Least(Q)
    BY DEF RunEnd
  <1>2. Least(Q) \in Q
    BY <1>1, LeastIsLeast
  <1> QED
    BY <1>1, <1>2

LEMMA CommentEndWithin ==
  ASSUME NEW s \in Seq(Pieces), NEW p \in Nat, p + 2 <= Len(s)
  PROVE  CommentEnd(s, p) \in p + 2 .. Len(s)
  <1> DEFINE n == Len(s)
             Q == {q \in p + 2 .. n : \/ q + 1 >= n
                                      \/ CharOf(s, q) = "*" /\ CharOf(s, q + 1) = "/"}
  <1>1. n \in Nat /\ Q \in SUBSET Nat /\ n \in Q
    OBVIOUS
  <1>2. Least(Q) \in p + 2 .. n
    BY <1>1, LeastIsLeast
  <1> QED
    BY <1>1, <1>2 DEF CommentEnd

\* A string is scanned by characters, of which an escaped one takes two pieces.
StringEnds(s, q) == CharOf(s, q) \in {"quote", "none"}

Escaped(s, q) == CharOf(s, q) = "backslash" /\ CharOf(s, q + 1) # "none"

NextInString(s, q) == q + IF Escaped(s, q) THEN 2 ELSE 1

LetterAt(s, q) ==
  LET char == IF Escaped(s, q) THEN CharOf(s, q + 1) ELSE CharOf(s, q)
  IN IF Escaped(s, q) /\ char = "n" THEN "newline" ELSE char

\* The equation of the scan in QuotedIn.
Scan(s, f, q) ==
  IF StringEnds(s, q) THEN [end |-> q, text |-> <<>>]
  ELSE [end |-> f[NextInString(s, q)].end,
        text |-> <<LetterAt(s, q)>> \o f[NextInString(s, q)].text]

IsScan(s, p, f) == f = [q \in p .. Len(s) |-> Scan(s, f, q)]

LEMMA InString ==
  ASSUME NEW s \in Seq(Pieces), NEW q \in 0 .. Len(s)
  PROVE  /\ CharOf(s, q) = "none" <=> q = Len(s)
         /\ ~StringEnds(s, q) => /\ NextInString(s, q) \in q + 1 .. Len(s)
                                /\ LetterAt(s, q) \in Pieces
  <1> DEFINE n == Len(s)
  <1>1. n \in Nat /\ \A i \in 0 .. n : CharOf(s, i) \in Pieces \cup {"none"}
    BY DEF CharOf
  <1>2. ASSUME NEW i \in 0 .. n PROVE CharOf(s, i) = "none" <=> i = n
    <2>1. CASE i = n
      BY <2>1 DEF CharOf
    <2>2. CASE i # n
      <3>1. CharOf(s, i) = s[i + 1] /\ s[i + 1] \in Pieces
        BY <2>2 DEF CharOf
      <3>2. "none" \notin Pieces
        BY DEF Pieces, Letters, Digits, Symbols
      <3> QED
        BY <2>2, <3>1, <3>2
    <2> QED
      BY <2>1, <2>2
  <1>3. ASSUME ~StringEnds(s, q)
        PROVE  NextInString(s, q) \in q + 1 .. n /\ LetterAt(s, q) \in Pieces
    <2>1. q < n /\ CharOf(s, q) \in Pieces
      BY <1>1, <1>2, <1>3 DEF StringEnds
    <2>2. Escaped(s, q) => q + 1 < n /\ CharOf(s, q + 1) \in Pieces
      BY <1>1, <1>2, <2>1 DEF Escaped
    <2>3. "newline" \in Pieces
      BY DEF Pieces, Symbols
    <2> QED
      BY <1>1, <2>1, <2>2, <2>3 DEF NextInString, LetterAt
  <1> QED
    BY <1>2, <1>3

\* The scan exists, from any position.
LEMMA QuotedScans ==
  ASSUME NEW s \in Seq(Pieces), NEW p \in 0 .. Len(s)
  PROVE  \E f : IsScan(s, p, f) /\ QuotedIn(s, p) = f[p]
  <1> DEFINE n == Len(s)
  <1>1. n \in Nat
    OBVIOUS
  <1>2. \A q \in 0 .. n : StringEnds(s, n)
    BY InString DEF StringEnds
  \* The scan of the last k characters exists.
  <1>3. ASSUME NEW k \in 0 .. n
        PROVE  \E f : IsScan(s, n - k, f)
    <2> DEFINE B == {i \in 0 .. n : \E f : IsScan(s, n - i, f)} \cup {i \in Nat : i > n}
    <2>1. 0 \in B
      <3> DEFINE f == [q \in n - 0 .. n |-> [end |-> n, text |-> <<>>]]
      <3>1. \A q \in n - 0 .. n : q = n
        BY <1>1
      <3>2. IsScan(s, n - 0, f)
        BY <1>1, <1>2, <3>1 DEF IsScan, Scan
      <3> HIDE DEF f
      <3> QED
        BY <1>1, <3>2
    <2>2. ASSUME NEW i \in Nat, i \in B PROVE i + 1 \in B
      <3>1. CASE i + 1 > n
        BY <1>1, <3>1
      <3>2. CASE i + 1 <= n
        <4>1. PICK f : f = [q \in n - i .. n |-> Scan(s, f, q)]
          BY <1>1, <2>2, <3>2 DEF IsScan
        <4> DEFINE m == n - (i + 1)
                   g == [q \in m .. n |-> IF q = m THEN Scan(s, f, m) ELSE f[q]]
        <4>2. /\ m \in 0 .. n /\ n - i = m + 1
              /\ \A q \in m .. n : q = m \/ q \in n - i .. n
              /\ \A q \in n - i .. n : q \in m .. n /\ q # m /\ q \in 0 .. n
          BY <1>1, <3>2
        <4> HIDE DEF m
        <4>3. \A q \in n - i .. n : g[q] = f[q] /\ f[q] = Scan(s, f, q)
          BY <4>1, <4>2
        <4>4. \A q \in m .. n : ~StringEnds(s, q) => NextInString(s, q) \in n - i .. n
          BY <1>1, <4>2, InString
        <4>5. \A q \in m .. n : Scan(s, g, q) = Scan(s, f, q)
          BY <4>3, <4>4 DEF Scan
        <4>6. \A q \in m .. n : g[q] = Scan(s, f, q)
          BY <4>2, <4>3
        <4>7. IsScan(s, m, g)
          BY <4>5, <4>6 DEF IsScan
        <4> HIDE DEF g
        <4>8. i + 1 \in 0 .. n /\ \E h : IsScan(s, n - (i + 1), h)
          BY <1>1, <3>2, <4>7 DEF m
        <4> QED
          BY <4>8
      <3> QED
        BY <1>1, <3>1, <3>2
    <2> HIDE DEF B
    <2>3. k \in B
      BY <2>1, <2>2, NumbersByInduction
    <2> QED
      BY <1>1, <2>3 DEF B
  <1> DEFINE f == CHOOSE g : IsScan(s, p, g)
  <1>4. IsScan(s, p, f)
    <2>1. n - p \in 0 .. n /\ n - (n - p) = p
      BY <1>1
    <2> QED
      BY <1>3, <2>1
  <1>5. QuotedIn(s, p) = f[p]
    BY DEF QuotedIn, IsScan, Scan, StringEnds, NextInString, LetterAt, Escaped
  <1> QED
    BY <1>4, <1>5

\* A string ends at or behind its first character, within the source.
LEMMA QuotedWithin ==
  ASSUME NEW s \in Seq(Pieces), NEW p \in 0 .. Len(s)
  PROVE  /\ QuotedIn(s, p).end \in p .. Len(s)
         /\ QuotedIn(s, p).text \in Seq(Pieces)
  <1> DEFINE n == Len(s)
  <1>1. n \in Nat /\ p \in p .. n
    OBVIOUS
  <1>2. PICK f : IsScan(s, p, f) /\ QuotedIn(s, p) = f[p]
    BY QuotedScans
  <1>3. \A q \in p .. n : f[q] = Scan(s, f, q) /\ q \in 0 .. n
    BY <1>1, <1>2 DEF IsScan
  <1> DEFINE Bad == {i \in Nat : /\ i <= n - p
                                 /\ ~(/\ f[n - i].end \in n - i .. n
                                      /\ f[n - i].text \in Seq(Pieces))}
  <1>4. CASE Bad = {}
    <2>1. n - p \in Nat /\ n - p <= n - p /\ n - (n - p) = p
      BY <1>1
    <2> QED
      BY <1>2, <1>4, <2>1
  <1>5. CASE Bad # {}
    <2>1. PICK i \in Bad : \A j \in Bad : i <= j
      <3>1. Bad \in SUBSET Nat
        OBVIOUS
      <3> QED
        BY <1>5, <3>1, LeastIsLeast
    <2>2. PICK q \in p .. n : q = n - i
      BY <1>1, <2>1
    <2>3. ~(f[q].end \in q .. n /\ f[q].text \in Seq(Pieces))
      BY <2>1, <2>2
    <2>4. \A j \in Nat : /\ j <= n - p
                          /\ ~(/\ f[n - j].end \in n - j .. n
                               /\ f[n - j].text \in Seq(Pieces)) => j \in Bad
      OBVIOUS
    <2>5. i \in Nat /\ i <= n - p /\ n - i = q /\ f[q] = Scan(s, f, q) /\ q \in 0 .. n
      BY <1>1, <1>3, <2>1, <2>2
    <2> HIDE DEF Bad
    <2>6. ~StringEnds(s, q)
      <3>1. ASSUME StringEnds(s, q) PROVE f[q] = [end |-> q, text |-> <<>>]
        BY <2>5, <3>1 DEF Scan
      <3>2. StringEnds(s, q) => f[q].end = q /\ f[q].text = <<>>
        BY <3>1
      <3>3. q \in q .. n /\ <<>> \in Seq(Pieces)
        BY <1>1, <2>5
      <3> QED
        BY <2>3, <3>2, <3>3
    <2>7. NextInString(s, q) \in q + 1 .. n /\ LetterAt(s, q) \in Pieces
      BY <2>6, <2>5, InString
    <2>8. PICK r \in p .. n : r = NextInString(s, q) /\ r > q
      BY <1>1, <2>7
    <2>9. n - r \in Nat /\ n - r < i /\ n - r <= n - p /\ n - (n - r) = r
      BY <1>1, <2>8, <2>5
    <2>10. f[r].end \in r .. n /\ f[r].text \in Seq(Pieces)
      <3>1. PICK j \in Nat : j = n - r
        BY <2>9
      <3>2. j \notin Bad
        BY <2>1, <2>5, <2>9, <3>1
      <3> QED
        BY <2>4, <2>9, <3>1, <3>2
    <2>11. f[q].end = f[r].end /\ f[q].text = <<LetterAt(s, q)>> \o f[r].text
      BY <2>6, <2>8, <2>5 DEF Scan
    <2>12. f[q].text \in Seq(Pieces)
      BY <2>7, <2>10, <2>11
    <2> QED
      BY <1>1, <2>3, <2>8, <2>10, <2>11, <2>12
  <1> QED
    BY <1>4, <1>5

\* The lexer goes on by a character at least and stays in the source; what it
\* emits before the end are tokens, none of them the end token.
LEMMA LexedWithin ==
  ASSUME NEW s \in Seq(Pieces), NEW p \in 0 .. Len(s), CharOf(s, p) # "none"
  PROVE  /\ Lexed(s, p)[1] \in p + 1 .. Len(s)
         /\ Lexed(s, p)[2] \in Seq(Tokens)
         /\ \A i \in 1 .. Len(Lexed(s, p)[2]) : Lexed(s, p)[2][i].type # "eof"
  <1> DEFINE n == Len(s)
             Fine(x) == /\ x[1] \in p + 1 .. n /\ x[2] \in Seq(Tokens)
                        /\ \A i \in 1 .. Len(x[2]) : x[2][i].type # "eof"
             c == CharOf(s, p)
  <1>1. n \in Nat /\ p < n /\ c = s[p + 1] /\ c \in Pieces
    BY DEF CharOf
  <1>2. ASSUME NEW q \in p + 1 .. n PROVE Fine(<<q, <<>>>>)
    OBVIOUS
  <1>3. ASSUME NEW q \in p + 1 .. n, NEW type \in TokenTypes \ {"eof"}, NEW v \in Seq(Pieces)
        PROVE  Fine(<<q, Token(type, v)>>)
    <2>1. [type |-> type, value |-> v] \in Tokens
      BY DEF Tokens
    <2>2. /\ Token(type, v) = <<[type |-> type, value |-> v]>>
          /\ Token(type, v) \in Seq(Tokens) /\ Len(Token(type, v)) = 1
          /\ Token(type, v)[1].type = type
      BY <2>1 DEF Token
    <2> QED
      BY <1>3, <2>2
  <1>4. ASSUME NEW q \in p + 1 .. n PROVE SubSeq(s, p + 1, q) \in Seq(Pieces)
    BY <1>1
  <1>5. \A S : c \in S => RunEnd(s, p, S) \in p + 1 .. n
    BY <1>1, RunEndWithin
  <1>6. CharOf(s, p + 1) # "none" => p + 2 <= n
    BY <1>1 DEF CharOf
  <1> HIDE DEF Fine, c, n
  <1>7. p + 1 \in p + 1 .. n
    BY <1>1 DEF n
  <1>8. CASE c = "/"
    <2>1. "/" \in Pieces \ {"newline"}
      BY DEF Pieces
    <2>2. CharOf(s, p + 1) = "*" => CommentEnd(s, p) \in p + 1 .. n
      BY <1>6, CommentEndWithin DEF n
    <2>3. SlashFrom(s, p) \in p + 1 .. n
      BY <1>5, <1>7, <1>8, <2>1, <2>2 DEF SlashFrom
    <2> QED
      BY <1>2, <1>8, <2>3 DEF Lexed, Fine, c, n
  <1>9. CASE c \in Letters
    <2> DEFINE end == RunEnd(s, p, Letters \cup Digits)
               word == SubSeq(s, p + 1, end)
    <2>1. end \in p + 1 .. n /\ word \in Seq(Pieces)
      BY <1>4, <1>5, <1>9
    <2>2. WordType(word) \in TokenTypes \ {"eof"}
      BY DEF WordType, TokenTypes
    <2>3. Fine(<<end, Token(WordType(word), word)>>)
      BY <1>3, <2>1, <2>2
    <2>4. Lexed(s, p) = <<end, Token(WordType(word), word)>>
      BY <1>9 DEF Lexed, WordFrom, Letters, c
    <2> QED
      BY <2>3, <2>4 DEF Fine, n
  <1>10. CASE c = "quote"
    <2> DEFINE string == QuotedIn(s, p + 1)
               next == IF string.end < n THEN string.end + 1 ELSE string.end
    <2>1. p + 1 \in 0 .. n
      BY <1>1
    <2>2. string.end \in p + 1 .. n /\ string.text \in Seq(Pieces)
      BY <2>1, QuotedWithin DEF n
    <2>3. next \in p + 1 .. n
      BY <1>1, <2>2
    <2>4. Fine(<<next, Token("string", string.text)>>)
      BY <1>3, <2>2, <2>3 DEF TokenTypes
    <2>5. Lexed(s, p) = <<next, Token("string", string.text)>>
      BY <1>10 DEF Lexed, StringFrom, Letters, c, n
    <2> QED
      BY <2>4, <2>5 DEF Fine, n
  <1>11. CASE c \in Digits
    <2> DEFINE end == RunEnd(s, p, Digits \cup {"."})
    <2>1. end \in p + 1 .. n /\ SubSeq(s, p + 1, end) \in Seq(Pieces)
      BY <1>4, <1>5, <1>11
    <2>2. Fine(<<end, Token("number", SubSeq(s, p + 1, end))>>)
      BY <1>3, <2>1 DEF TokenTypes
    <2>3. Lexed(s, p) = <<end, Token("number", SubSeq(s, p + 1, end))>>
      BY <1>11 DEF Lexed, NumberFrom, Letters, Digits, c
    <2> QED
      BY <2>2, <2>3 DEF Fine, n
  <1>12. CASE c \in Symbols
    <2>1. c \in TokenTypes \ {"eof"}
      BY <1>12 DEF TokenTypes, Symbols
    <2>2. Fine(<<p + 1, Token(c, <<c>>)>>)
      <3>1. <<c>> \in Seq(Pieces)
        BY <1>1
      <3> QED
        BY <1>3, <1>7, <2>1, <3>1
    <2>3. Lexed(s, p) = <<p + 1, Token(c, <<c>>)>>
      BY <1>12 DEF Lexed, Letters, Digits, Symbols, c
    <2> QED
      BY <2>2, <2>3 DEF Fine, n
  <1>13. CASE c = "-"
    <2>1. <<"-", ">">> \in Seq(Pieces) /\ "arrow" \in TokenTypes \ {"eof"}
      BY DEF Pieces, TokenTypes
    <2>2. CharOf(s, p + 1) = ">" => p + 2 \in p + 1 .. n
      BY <1>1, <1>6 DEF n
    <2>3. Fine(SignFrom(s, p))
      BY <1>2, <1>3, <1>7, <2>1, <2>2 DEF SignFrom
    <2>4. Lexed(s, p) = SignFrom(s, p)
      BY <1>13 DEF Lexed, Letters, Digits, Symbols, c
    <2> QED
      BY <2>3, <2>4 DEF Fine, n
  <1>14. CASE c \notin Letters \cup Digits \cup Symbols \cup {"/", "quote", "-"}
    <2>1. Lexed(s, p) = <<p + 1, <<>>>>
      BY <1>14 DEF Lexed, c
    <2> QED
      BY <1>2, <1>7, <2>1 DEF Fine, n
  <1> QED
    BY <1>8, <1>9, <1>10, <1>11, <1>12, <1>13, <1>14

-----------------------------------------------------------------------------
(* Where the parser goes.                                                     *)

Attributes == Seq(Seq(Pieces) \X Seq(Pieces))
Nodes == [kind : {"none", "manifest", "create", "widget"},
          name : Seq(Pieces), attributes : Attributes]

\* The end token stands last, and only there.
EndsOnce(t) == \A i \in 1 .. Len(t) : t[i].type = "eof" <=> i = Len(t)

\* A token the parser can stand on.
LEMMA OnToken ==
  ASSUME NEW t \in Seq(Tokens), EndsOnce(t), NEW p \in 0 .. Len(t) - 1
  PROVE  /\ TypeIn(t, p) \in TokenTypes /\ ValueIn(t, p) \in Seq(Pieces)
         /\ TypeIn(t, p) # "eof" => p + 1 \in 0 .. Len(t) - 1
         /\ CommaIn(t, p) \in p .. Len(t) - 1
  <1>1. Len(t) \in Nat /\ p + 1 \in 1 .. Len(t) /\ t[p + 1] \in Tokens
    OBVIOUS
  <1>2. TypeIn(t, p) \in TokenTypes /\ ValueIn(t, p) \in Seq(Pieces)
    BY <1>1 DEF TypeIn, ValueIn, Tokens
  <1>3. TypeIn(t, p) # "eof" => p + 1 \in 0 .. Len(t) - 1
    BY <1>1 DEF TypeIn, EndsOnce
  <1>4. CASE TypeIn(t, p) = ","
    <2>1. CommaIn(t, p) = p + 1
      BY <1>4 DEF CommaIn
    <2>2. p + 1 \in p .. Len(t) - 1
      <3>1. p + 1 \in 0 .. Len(t) - 1
        BY <1>3, <1>4
      <3> QED
        BY <1>1, <3>1
    <2> QED
      BY <1>2, <1>3, <2>1, <2>2
  <1>5. CASE TypeIn(t, p) # ","
    <2>1. CommaIn(t, p) = p
      BY <1>5 DEF CommaIn
    <2> QED
      BY <1>1, <1>2, <1>3, <2>1
  <1> QED
    BY <1>4, <1>5

\* skip_nl stops on a token: at the end token at the latest.
LEMMA HereOnToken ==
  ASSUME NEW t \in Seq(Tokens), EndsOnce(t), NEW p \in 0 .. Len(t) - 1
  PROVE  HereIn(t, p) \in p .. Len(t) - 1
  <1> DEFINE Q == {q \in p .. Len(t) - 1 : TypeIn(t, q) # "newline"}
  <1>1. Len(t) \in Nat /\ Len(t) - 1 \in p .. Len(t) - 1 /\ Len(t) \in 1 .. Len(t)
        /\ (Len(t) - 1) + 1 = Len(t)
    OBVIOUS
  <1>2. TypeIn(t, Len(t) - 1) = "eof"
    BY <1>1 DEF TypeIn, EndsOnce
  <1>3. Q \in SUBSET Nat /\ Len(t) - 1 \in Q
    BY <1>1, <1>2
  <1> QED
    BY <1>3, LeastIsLeast DEF HereIn

\* A place compile() can be in while it works on s.
Placed(s, c) ==
  /\ c[3] \in Seq(Tokens) /\ c[4] \in Seq(Nodes) /\ c[5] \in Nodes
  /\ c[1] = "lexing" => /\ c[2] \in 0 .. Len(s)
                        /\ \A i \in 1 .. Len(c[3]) : c[3][i].type # "eof"
  /\ c[1] # "lexing" => c[2] \in 0 .. Len(c[3]) - 1 /\ EndsOnce(c[3])

\* Each round gets further: the lexer by a character at least, the parser by a
\* token, unless it leaves a block at the end token.
Further(c, d) ==
  /\ c[1] = "lexing" /\ d[1] = "lexing" => d[2] > c[2]
  /\ c[1] # "lexing" => d[2] > c[2] \/ (c[1] = "block" /\ d[1] = "parsing" /\ d[2] >= c[2])

LEMMA ParsingPlaced ==
  ASSUME NEW s, NEW c, c[1] # "lexing", NEW to \in {"parsing", "block"},
         NEW t \in Seq(Tokens), EndsOnce(t), NEW q \in 0 .. Len(t) - 1,
         NEW nodes \in Seq(Nodes), NEW open \in Nodes,
         q > c[2] \/ (c[1] = "block" /\ to = "parsing" /\ q >= c[2])
  PROVE  Placed(s, <<to, q, t, nodes, open>>) /\ Further(c, <<to, q, t, nodes, open>>)
  BY DEF Placed, Further

LEMMA LexStepPlaced ==
  ASSUME NEW s \in Seq(Pieces), NEW c, Placed(s, c), c[1] = "lexing"
  PROVE  Placed(s, LexStep(s, c)) /\ Further(c, LexStep(s, c))
  <1> DEFINE p == StartOf(s, c[2])
             new == Lexed(s, p)[2]
             t == c[3] \o new
  <1>1. /\ c[2] \in 0 .. Len(s) /\ Len(s) \in Nat /\ c[3] \in Seq(Tokens)
        /\ \A i \in 1 .. Len(c[3]) : c[3][i].type # "eof"
    BY DEF Placed
  <1>2. p \in c[2] .. Len(s) /\ p \in 0 .. Len(s)
    BY <1>1, RunEndWithin DEF StartOf
  <1>3. CASE CharOf(s, p) = "none"
    <2> DEFINE u == Append(c[3], [type |-> "eof", value |-> <<>>])
    <2>1. c[3] \o Token("eof", <<>>) = u
      BY <1>1 DEF Token
    <2>2. [type |-> "eof", value |-> <<>>] \in Tokens
      BY DEF Tokens, TokenTypes
    <2>3. u \in Seq(Tokens) /\ Len(u) = Len(c[3]) + 1 /\ u[Len(u)].type = "eof"
          /\ \A i \in 1 .. Len(c[3]) : u[i] = c[3][i]
      BY <1>1, <2>2
    <2> HIDE DEF u
    <2>4. EndsOnce(u) /\ 0 \in 0 .. Len(u) - 1
      BY <1>1, <2>3 DEF EndsOnce
    <2>5. LexStep(s, c) = <<"parsing", 0, u, <<>>, c[5]>>
      BY <1>3, <2>1 DEF LexStep
    <2> QED
      BY <2>3, <2>4, <2>5 DEF Placed, Further
  <1>4. CASE CharOf(s, p) # "none"
    <2>1. /\ Lexed(s, p)[1] \in p + 1 .. Len(s) /\ new \in Seq(Tokens)
          /\ \A i \in 1 .. Len(new) : new[i].type # "eof"
      BY <1>2, <1>4, LexedWithin
    <2>2. t \in Seq(Tokens) /\ \A i \in 1 .. Len(t) : t[i].type # "eof"
      <3> HIDE DEF new
      <3>1. /\ t \in Seq(Tokens) /\ Len(t) = Len(c[3]) + Len(new)
            /\ Len(c[3]) \in Nat /\ Len(new) \in Nat
            /\ \A i \in 1 .. Len(t) : t[i] = IF i <= Len(c[3]) THEN c[3][i]
                                            ELSE new[i - Len(c[3])]
        BY <1>1, <2>1
      <3>2. ASSUME NEW i \in 1 .. Len(t) PROVE t[i].type # "eof"
        <4>1. i <= Len(c[3]) => i \in 1 .. Len(c[3])
          BY <3>1
        <4>2. ~(i <= Len(c[3])) => i - Len(c[3]) \in 1 .. Len(new)
          BY <3>1
        <4> HIDE DEF t
        <4> QED
          BY <1>1, <2>1, <3>1, <4>1, <4>2
      <3> QED
        BY <3>1, <3>2
    <2>3. LexStep(s, c) = <<"lexing", Lexed(s, p)[1], t, c[4], c[5]>>
      BY <1>4 DEF LexStep
    <2>4. Lexed(s, p)[1] \in 0 .. Len(s) /\ Lexed(s, p)[1] > c[2]
      BY <1>1, <1>2, <2>1
    <2> HIDE DEF p, t
    <2> QED
      BY <2>2, <2>3, <2>4 DEF Placed, Further
  <1> QED
    BY <1>3, <1>4

LEMMA StatementStepPlaced ==
  ASSUME NEW s, NEW c, Placed(s, c), c[1] = "parsing", NEW p \in c[2] .. Len(c[3]) - 1,
         TypeIn(c[3], p) \in {"manifest", "create"}
  PROVE  Placed(s, StatementStep(c, p)) /\ Further(c, StatementStep(c, p))
  <1> DEFINE t == c[3]
             named == TypeIn(t, p + 1) = "identifier"
             name == IF named THEN ValueIn(t, p + 1) ELSE <<>>
             next == IF named THEN p + 2 ELSE p + 1
             new == [kind |-> Kind(TypeIn(t, p), name), name |-> name, attributes |-> <<>>]
  <1>1. /\ t \in Seq(Tokens) /\ EndsOnce(t) /\ c[2] \in 0 .. Len(t) - 1 /\ Len(t) \in Nat
        /\ c[4] \in Seq(Nodes) /\ c[5] \in Nodes /\ p \in 0 .. Len(t) - 1
    BY DEF Placed
  <1>2. p + 1 \in 0 .. Len(t) - 1
    BY <1>1, OnToken
  <1>3. name \in Seq(Pieces) /\ (named => (p + 1) + 1 \in 0 .. Len(t) - 1)
    BY <1>1, <1>2, OnToken
  <1>4. next \in 0 .. Len(t) - 1 /\ next > c[2]
    BY <1>1, <1>2, <1>3
  <1>5. TypeIn(t, next) = "{" => next + 1 \in 0 .. Len(t) - 1
    BY <1>1, <1>4, OnToken
  <1>6. Kind(TypeIn(t, p), name) \in {"manifest", "create", "widget"}
    BY DEF Kind
  <1>7. new \in Nodes
    BY <1>3, <1>6 DEF Nodes, Attributes
  <1>8. StatementStep(c, p) =
          IF TypeIn(t, next) = "{" THEN <<"block", next + 1, t, c[4], new>>
          ELSE <<"parsing", next, t, Append(c[4], new), c[5]>>
    BY DEF StatementStep
  <1> HIDE DEF next, new
  <1>9. CASE TypeIn(t, next) = "{"
    <2>1. next + 1 > c[2]
      BY <1>1, <1>4
    <2> HIDE DEF t
    <2> QED
      BY <1>1, <1>5, <1>7, <1>8, <1>9, <2>1, ParsingPlaced
  <1>10. CASE TypeIn(t, next) # "{"
    <2>1. Append(c[4], new) \in Seq(Nodes)
      BY <1>1, <1>7
    <2> QED
      BY <1>1, <1>4, <1>8, <1>10, <2>1, ParsingPlaced
  <1> QED
    BY <1>9, <1>10

LEMMA AttributeStepPlaced ==
  ASSUME NEW s, NEW c, Placed(s, c), c[1] = "block", NEW p \in c[2] .. Len(c[3]) - 1,
         TypeIn(c[3], p) = "identifier"
  PROVE  Placed(s, AttributeStep(c, p)) /\ Further(c, AttributeStep(c, p))
  <1> DEFINE t == c[3]
             value == IF TypeIn(t, p + 1) = ":" THEN p + 2 ELSE p + 1
             pair == <<ValueIn(t, p), ValueIn(t, value)>>
             new == [c[5] EXCEPT !.attributes = Append(@, pair)]
  <1>1. /\ t \in Seq(Tokens) /\ EndsOnce(t) /\ c[2] \in 0 .. Len(t) - 1 /\ Len(t) \in Nat
        /\ c[4] \in Seq(Nodes) /\ c[5] \in Nodes /\ p \in 0 .. Len(t) - 1
    BY DEF Placed
  <1>2. p + 1 \in 0 .. Len(t) - 1 /\ ValueIn(t, p) \in Seq(Pieces)
    BY <1>1, OnToken
  <1>3. TypeIn(t, p + 1) = ":" => (p + 1) + 1 \in 0 .. Len(t) - 1
    BY <1>1, <1>2, OnToken
  <1>4. value \in 0 .. Len(t) - 1 /\ value > c[2]
    BY <1>1, <1>2, <1>3
  <1>5. CASE TypeIn(t, value) = "eof"
    <2>1. AttributeStep(c, p) = <<"block", value, t, c[4], c[5]>>
      BY <1>5 DEF AttributeStep
    <2> HIDE DEF value
    <2> QED
      BY <1>1, <1>4, <2>1, ParsingPlaced
  <1>6. CASE TypeIn(t, value) # "eof"
    <2>1. AttributeStep(c, p) = <<"block", CommaIn(t, value + 1), t, c[4], new>>
      BY <1>6 DEF AttributeStep
    <2> HIDE DEF value
    <2>2. ValueIn(t, value) \in Seq(Pieces) /\ value + 1 \in 0 .. Len(t) - 1
      BY <1>1, <1>4, <1>6, OnToken
    <2>3. CommaIn(t, value + 1) \in value + 1 .. Len(t) - 1
      BY <1>1, <2>2, OnToken
    <2>4. CommaIn(t, value + 1) \in 0 .. Len(t) - 1 /\ CommaIn(t, value + 1) > c[2]
      BY <1>1, <1>4, <2>2, <2>3
    <2>5. new \in Nodes
      <3>1. pair \in Seq(Pieces) \X Seq(Pieces)
        BY <1>2, <2>2
      <3> HIDE DEF pair
      <3>2. c[5].attributes \in Seq(Seq(Pieces) \X Seq(Pieces))
        BY <1>1 DEF Nodes, Attributes
      <3>3. Append(c[5].attributes, pair) \in Attributes
        BY <3>1, <3>2 DEF Attributes
      <3> QED
        BY <1>1, <3>3 DEF Nodes
    <2> HIDE DEF new
    <2> QED
      BY <1>1, <2>1, <2>4, <2>5, ParsingPlaced
  <1> QED
    BY <1>5, <1>6

\* Lenient compiling goes from place to place, and gets further each time.
LEMMA SuccessorPlaced ==
  ASSUME NEW s \in Seq(Pieces), NEW c, Placed(s, c), ~Done(c),
         c[1] \in {"lexing", "parsing", "block"}
  PROVE  Placed(s, Successor(s, c)) /\ Further(c, Successor(s, c))
  <1> DEFINE t == c[3]
             p == HereIn(t, c[2])
  <1>1. CASE c[1] = "lexing"
    BY <1>1, LexStepPlaced DEF Successor
  <1>2. CASE c[1] # "lexing"
    <2>1. /\ t \in Seq(Tokens) /\ EndsOnce(t) /\ c[2] \in 0 .. Len(t) - 1
          /\ Len(t) \in Nat /\ c[4] \in Seq(Nodes) /\ c[5] \in Nodes
      BY <1>2 DEF Placed
    <2>2. p \in c[2] .. Len(t) - 1 /\ p \in 0 .. Len(t) - 1
      BY <2>1, HereOnToken
    <2>3. Successor(s, c) = ParseStep(c) /\ (c[1] = "parsing" => TypeIn(t, p) # "eof")
      BY <1>2 DEF Successor, Done
    <2>4. TypeIn(t, p) # "eof" => p + 1 \in 0 .. Len(t) - 1
      BY <2>1, <2>2, OnToken
    <2>5. CASE c[1] = "parsing" /\ TypeIn(t, p) \in {"manifest", "create"}
      BY <2>2, <2>3, <2>5, StatementStepPlaced DEF ParseStep
    <2>6. CASE c[1] = "parsing" /\ TypeIn(t, p) \notin {"manifest", "create"}
      <3>1. ParseStep(c) = <<"parsing", p + 1, t, c[4], c[5]>>
        BY <2>6 DEF ParseStep
      <3>2. p + 1 \in 0 .. Len(t) - 1 /\ p + 1 > c[2]
        BY <2>1, <2>2, <2>3, <2>4, <2>6
      <3> HIDE DEF p, t
      <3> QED
        BY <1>2, <2>1, <2>3, <3>1, <3>2, ParsingPlaced DEF t
    <2>7. CASE c[1] = "block" /\ TypeIn(t, p) = "identifier"
      BY <2>2, <2>3, <2>7, AttributeStepPlaced DEF ParseStep, BlockStep
    <2>8. CASE c[1] = "block" /\ TypeIn(t, p) \in {"}", "eof"}
      <3> DEFINE next == IF TypeIn(t, p) = "}" THEN p + 1 ELSE p
      <3>1. ParseStep(c) = <<"parsing", next, t, Append(c[4], c[5]), NoNode>>
        BY <2>8 DEF ParseStep, BlockStep
      <3>2. next \in 0 .. Len(t) - 1 /\ next >= c[2]
        <4> HIDE DEF p, t
        <4>1. p \in Int /\ c[2] \in Int /\ p >= c[2]
          BY <2>1, <2>2
        <4>2. CASE TypeIn(t, p) = "}"
          <5>1. next = p + 1 /\ p + 1 \in 0 .. Len(t) - 1
            BY <2>4, <4>2
          <5> HIDE DEF next
          <5> QED
            BY <4>1, <5>1
        <4>3. CASE TypeIn(t, p) # "}"
          <5>1. next = p
            BY <4>3
          <5> HIDE DEF next
          <5> QED
            BY <2>2, <4>1, <5>1
        <4> QED
          BY <4>2, <4>3
      <3>3. Append(c[4], c[5]) \in Seq(Nodes) /\ NoNode \in Nodes
        BY <2>1 DEF Nodes, NoNode, Attributes
      <3> HIDE DEF next
      <3> QED
        BY <1>2, <2>1, <2>3, <2>8, <3>1, <3>2, <3>3, ParsingPlaced
    <2>9. CASE c[1] = "block" /\ TypeIn(t, p) \notin {"identifier", "}", "eof"}
      <3>1. ParseStep(c) = <<"block", CommaIn(t, p + 1), t, c[4], c[5]>>
        BY <2>9 DEF ParseStep, BlockStep
      <3>2. CommaIn(t, p + 1) \in p + 1 .. Len(t) - 1
        BY <2>1, <2>4, <2>9, OnToken
      <3>3. CommaIn(t, p + 1) \in 0 .. Len(t) - 1 /\ CommaIn(t, p + 1) > c[2]
        BY <2>1, <2>2, <3>2
      <3> HIDE DEF p
      <3> QED
        BY <1>2, <2>1, <2>3, <2>9, <3>1, <3>3, ParsingPlaced
    <2> QED
      BY <1>2, <2>5, <2>6, <2>7, <2>8, <2>9
  <1> QED
    BY <1>1, <1>2

-----------------------------------------------------------------------------
(* The outcome of a source: where lenient compiling ends.                     *)

\* H leads to c: it holds the start and, with every other place, the next one.
Path(s, c, H) ==
  /\ Start \in H /\ c \in H
  /\ \A d \in H \ {c} : ~Done(d) /\ Successor(s, d) \in H

Closed(s, H) == Start \in H /\ \A d \in H : ~Done(d) => Successor(s, d) \in H

\* Lenient compiling of s comes through c.
Reached(s, c) == (\E H : Path(s, c, H)) /\ \A H : Closed(s, H) => c \in H

LEMMA ReachedStart == ASSUME NEW s PROVE Reached(s, Start)
  <1>1. Path(s, Start, {Start})
    BY DEF Path
  <1> QED
    BY <1>1 DEF Reached, Closed

LEMMA ReachedStep ==
  ASSUME NEW s, NEW c, Reached(s, c), ~Done(c)
  PROVE  Reached(s, Successor(s, c))
  <1>1. PICK H : Path(s, c, H)
    BY DEF Reached
  <1>2. Path(s, Successor(s, c), H \cup {Successor(s, c)})
    BY <1>1 DEF Path
  <1> QED
    BY <1>2 DEF Reached, Closed

\* A source ends in one place only.
LEMMA OneOutcome ==
  ASSUME NEW s, NEW c, NEW d, Reached(s, c), Reached(s, d), Done(c), Done(d)
  PROVE  c = d
  <1>1. PICK H : Path(s, c, H)
    BY DEF Reached
  <1>2. Closed(s, H)
    BY <1>1 DEF Path, Closed
  <1> QED
    BY <1>1, <1>2 DEF Reached, Path

\* A result that is a page is that of the place where the source ends; without one,
\* strict parsing gave up on the way there.
Outcome(s, r, kept) ==
  /\ r.ok => \E c : /\ Reached(s, c) /\ Done(c)
                    /\ r = [ok |-> TRUE, page |-> Page(c[4])] /\ kept = <<c[4]>>
  /\ ~r.ok => \E c : Reached(s, c) /\ Rejects(c)

AllCalls == UNION {ToSet(calls) : calls \in Scripts}

Sound(entry) ==
  /\ entry.call \in AllCalls
  /\ Outcome(entry.call.source, entry.result, entry.ast)
  /\ ~entry.call.strict => entry.result.ok

\* What a call in progress has come to, and what the completed ones left.
OutcomeInv ==
  /\ phase \in Phases /\ strict \in BOOLEAN
  /\ script \in Seq(AllCalls)
  /\ phase = "idle" => tree = <<>> /\ node = NoNode
  /\ phase # "idle" => /\ script # <<>>
                       /\ ~Head(script).strict => ~strict
  /\ phase \in {"lexing", "parsing", "block"} => Reached(source, Here)
  /\ phase = "returning" => /\ Outcome(source, result, ast)
                            /\ ~strict => result.ok
  /\ \E S : log \in Seq(S) /\ \A entry \in S : Sound(entry)

\* Scripts are finite sequences of calls on texts.
LEMMA CallsTyped ==
  /\ \A calls \in Scripts : calls \in Seq(AllCalls)
  /\ \A c \in AllCalls : c.source \in Seq(Pieces) /\ c.strict \in BOOLEAN
  <1>1. ASSUME NEW calls \in Scripts PROVE calls \in Seq(AllCalls)
    <2>1. calls \in Seq(ToSet(calls)) /\ ToSet(calls) \subseteq AllCalls
      BY ScriptsAssumption DEF AllCalls
    <2> QED
      BY <2>1
  <1>2. ASSUME NEW c \in AllCalls PROVE c.source \in Seq(Pieces) /\ c.strict \in BOOLEAN
    BY ScriptsAssumption DEF AllCalls
  <1> QED
    BY <1>1, <1>2

LEMMA OutcomeBegins ==
  ASSUME OutcomeInv, NEW options \in BOOLEAN, Begin(options),
         ~Head(script).strict => ~options
  PROVE  OutcomeInv'
  <1>1. Here' = Start /\ phase' = "lexing" /\ strict' = options /\ source' = source
        /\ UNCHANGED <<script, log>> /\ script # <<>>
    BY DEF Begin, OutcomeInv, Here, Start, parserVars, source
  <1>2. Reached(source, Here)'
    BY <1>1, ReachedStart
  <1> QED
    BY <1>1, <1>2 DEF OutcomeInv, Phases

LEMMA OutcomeLexes == ASSUME OutcomeInv, Lex PROVE OutcomeInv'
  <1>1. /\ Here' = Successor(source, Here) /\ phase' \in {"lexing", "parsing"}
        /\ UNCHANGED <<script, strict, resultVars>> /\ ~Done(Here) /\ phase = "lexing"
    BY LexIsSuccessor DEF Lex
  <1>2. source' = source /\ Reached(source, Here)'
    BY <1>1, ReachedStep DEF OutcomeInv, source
  <1> QED
    BY <1>1, <1>2 DEF OutcomeInv, Phases, resultVars

LEMMA OutcomeParses == ASSUME OutcomeInv, Parse PROVE OutcomeInv'
  <1>1. phase \in {"parsing", "block"} /\ strict \in BOOLEAN /\ Reached(source, Here)
    BY DEF OutcomeInv, Parse, ParseStatement, ParseUnknown, ParseAttribute, ParseSkip,
           ParseBlockEnd, Transpile
  <1>2. CASE /\ Here' = Successor(source, Here) /\ phase' \in {"parsing", "block"}
             /\ ~Done(Here) /\ UNCHANGED <<script, strict, resultVars>>
    <2>1. source' = source /\ Reached(source, Here)'
      BY <1>1, <1>2, ReachedStep DEF source
    <2> QED
      BY <1>1, <1>2, <2>1 DEF OutcomeInv, Phases, resultVars
  <1>3. CASE /\ strict /\ Rejects(Here) /\ phase' = "returning" /\ result' = Failure
             /\ UNCHANGED <<script, strict, ast, log>>
    BY <1>1, <1>3 DEF OutcomeInv, Phases, Outcome, Failure, source
  <1>4. CASE Done(Here) /\ Transpile
    <2>1. /\ ast' = <<tree>> /\ result' = [ok |-> TRUE, page |-> Page(tree)]
          /\ phase' = "returning" /\ UNCHANGED <<script, strict, log>> /\ source' = source
      BY <1>4 DEF Transpile, source
    <2>2. Outcome(source, result', ast') /\ result'.ok
      <3>1. Here[4] = tree
        BY DEF Here
      <3> QED
        BY <1>1, <1>4, <2>1, <3>1 DEF Outcome
    <2> QED
      BY <1>1, <2>1, <2>2 DEF OutcomeInv, Phases
  <1> QED
    BY <1>1, <1>2, <1>3, <1>4, ParseIsSuccessor

LEMMA OutcomeKept == ASSUME OutcomeInv, Finish PROVE OutcomeInv'
  <1> DEFINE entry == [call |-> Head(script), result |-> result, ast |-> ast]
  <1>1. PICK S : log \in Seq(S) /\ \A e \in S : Sound(e)
    BY DEF OutcomeInv
  <1>2. Sound(entry)
    <2>1. script \in Seq(AllCalls) /\ script # <<>>
      BY DEF OutcomeInv, Finish
    <2>2. Head(script) \in AllCalls
      BY <2>1
    <2> QED
      BY <2>2 DEF OutcomeInv, Finish, Sound, source
  <1>3. /\ phase' = "idle" /\ tree' = <<>> /\ node' = NoNode /\ strict' = strict
        /\ log' = Append(log, entry) /\ script' = Tail(script) /\ script # <<>>
    BY DEF Finish, OutcomeInv
  <1> HIDE DEF entry
  <1>4. log' \in Seq(S \cup {entry}) /\ \A e \in S \cup {entry} : Sound(e)
    <2>1. log \in Seq(S \cup {entry}) /\ entry \in S \cup {entry}
      BY <1>1
    <2> QED
      BY <1>1, <1>2, <1>3, <2>1
  <1>5. script' \in Seq(AllCalls)
    BY <1>3 DEF OutcomeInv
  <1> QED
    BY <1>3, <1>4, <1>5 DEF OutcomeInv, Phases

LEMMA OutcomesHold == ApiSpec => []OutcomeInv
  <1>1. ApiInit => OutcomeInv
    <2> SUFFICES ASSUME ApiInit PROVE OutcomeInv
      OBVIOUS
    <2>1. \E S : log \in Seq(S) /\ \A entry \in S : Sound(entry)
      <3> WITNESS {}
      <3> QED
        BY DEF ApiInit, CompilerInit
    <2> QED
      BY <2>1, CallsTyped DEF ApiInit, CompilerInit, OutcomeInv, Phases
  <1>2. OutcomeInv /\ [ApiNext]_apiVars => OutcomeInv'
    <2> SUFFICES ASSUME OutcomeInv, [ApiNext]_apiVars PROVE OutcomeInv'
      OBVIOUS
    <2>1. CASE Compile
      <3>1. script \in Seq(AllCalls) /\ script # <<>> /\ Begin(Head(script).strict)
        BY <2>1 DEF Compile, OutcomeInv
      <3>2. Head(script) \in AllCalls
        BY <3>1
      <3>3. Head(script).strict \in BOOLEAN
        BY <3>2, CallsTyped
      <3> QED
        BY <3>1, <3>3, OutcomeBegins
    <2>2. CASE Lex
      BY <2>2, OutcomeLexes
    <2>3. CASE Parse
      BY <2>3, OutcomeParses
    <2>4. CASE Finish
      BY <2>4, OutcomeKept
    <2>5. CASE ApiCompile
      BY <2>5, OutcomeBegins DEF ApiCompile
    <2>6. CASE ApiRefuse \/ Shutdown
      <3>1. /\ phase = "idle" /\ script # <<>> /\ script' = Tail(script)
            /\ UNCHANGED <<strict, phase, parserVars, resultVars>>
        BY <2>6 DEF ApiRefuse, Shutdown, Skip
      <3>2. script' \in Seq(AllCalls)
        BY <3>1 DEF OutcomeInv
      <3> QED
        BY <3>1, <3>2 DEF OutcomeInv, parserVars, resultVars
    <2>7. CASE UNCHANGED compilerVars
      <3>1. Here' = Here /\ source' = source
        BY <2>7 DEF compilerVars, parserVars, Here, source
      <3> QED
        BY <2>7, <3>1 DEF OutcomeInv, compilerVars, parserVars, resultVars
    <2> QED
      BY <2>1, <2>2, <2>3, <2>4, <2>5, <2>6, <2>7
      DEF ApiNext, CompilerNext, Return, ReturnString, ReturnBuffer, ApiFinish,
          FreeString, apiVars
  <1> QED
    BY <1>1, <1>2, PTL DEF ApiSpec

\* Any two lenient compiles of a source, on one object or through the C API, with
\* whatever calls between them, give the same page and tree; a strict one that
\* succeeds gives them too.
THEOREM StrictOnlyRejects == ApiSpec => []StrictIsARestriction
  <1>1. OutcomeInv => StrictIsARestriction
    <2> SUFFICES ASSUME OutcomeInv, NEW i \in DOMAIN log, NEW j \in DOMAIN log,
                        log[i].call.source = log[j].call.source, ~log[j].call.strict
                 PROVE  /\ log[j].result.ok
                        /\ log[i].result.ok => /\ log[i].result = log[j].result
                                               /\ log[i].ast = log[j].ast
      BY DEF StrictIsARestriction
    <2>1. PICK S : log \in Seq(S) /\ \A entry \in S : Sound(entry)
      BY DEF OutcomeInv
    <2>2. Sound(log[i]) /\ Sound(log[j])
      BY <2>1
    <2>3. log[j].result.ok
      BY <2>2 DEF Sound
    <2>4. ASSUME log[i].result.ok
          PROVE  log[i].result = log[j].result /\ log[i].ast = log[j].ast
      <3>1. PICK c : /\ Reached(log[i].call.source, c) /\ Done(c)
                     /\ log[i].result = [ok |-> TRUE, page |-> Page(c[4])]
                     /\ log[i].ast = <<c[4]>>
        BY <2>2, <2>4 DEF Sound, Outcome
      <3>2. PICK d : /\ Reached(log[j].call.source, d) /\ Done(d)
                     /\ log[j].result = [ok |-> TRUE, page |-> Page(d[4])]
                     /\ log[j].ast = <<d[4]>>
        BY <2>2, <2>3 DEF Sound, Outcome
      <3>3. c = d
        BY <3>1, <3>2, OneOutcome
      <3> QED
        BY <3>1, <3>2, <3>3
    <2> QED
      BY <2>3, <2>4
  <1> QED
    BY <1>1, OutcomesHold, PTL

-----------------------------------------------------------------------------
(* Types, and the bounds of the positions.                                    *)

\* What a call in progress stands on, and what it has left when it returns.
PlaceInv ==
  /\ phase \in {"lexing", "parsing", "block"} => Placed(source, Here)
  /\ phase = "returning" => tokens \in Seq(Tokens) /\ EndsOnce(tokens)
  /\ phase = "idle" => tokens = <<>>

LEMMA SourceTyped == ASSUME OutcomeInv, phase # "idle" PROVE source \in Seq(Pieces)
  <1>1. script \in Seq(AllCalls) /\ script # <<>>
    BY DEF OutcomeInv
  <1>2. Head(script) \in AllCalls
    BY <1>1
  <1> QED
    BY <1>2, CallsTyped DEF source

LEMMA PlaceBegins ==
  ASSUME OutcomeInv, NEW options, Begin(options) PROVE PlaceInv'
  <1>1. Here' = Start /\ phase' = "lexing" /\ source' = source /\ script # <<>>
    BY DEF Begin, OutcomeInv, Here, Start, parserVars, source
  <1>2. source \in Seq(Pieces)
    <2>1. Head(script) \in AllCalls
      BY <1>1 DEF OutcomeInv
    <2> QED
      BY <2>1, CallsTyped DEF source
  <1>3. Placed(source, Start)
    <2>1. NoNode \in Nodes
      BY DEF Nodes, NoNode, Attributes
    <2> QED
      BY <1>2, <2>1 DEF Placed, Start
  <1> QED
    BY <1>1, <1>3 DEF PlaceInv

\* A round that compiles on leads to a place, and further.
LEMMA PlaceGoesOn ==
  ASSUME OutcomeInv, PlaceInv, phase \in {"lexing", "parsing", "block"}, ~Done(Here),
         Here' = Successor(source, Here), phase' \in {"lexing", "parsing", "block"},
         UNCHANGED script
  PROVE  PlaceInv' /\ Further(Here, Here')
  <1>1. source \in Seq(Pieces) /\ source' = source
    BY SourceTyped DEF source
  <1>2. Placed(source, Here) /\ Here[1] = phase
    BY DEF PlaceInv, Here
  <1>3. Placed(source, Successor(source, Here)) /\ Further(Here, Successor(source, Here))
    BY <1>1, <1>2, SuccessorPlaced
  <1>4. Placed(source, Here)' /\ Further(Here, Here')
    BY <1>1, <1>3
  <1> QED
    BY <1>4 DEF PlaceInv

LEMMA PlaceLexes ==
  ASSUME OutcomeInv, PlaceInv, Lex PROVE PlaceInv' /\ Further(Here, Here')
  <1>1. /\ Here' = Successor(source, Here) /\ phase' \in {"lexing", "parsing"}
        /\ UNCHANGED <<script, strict, resultVars>> /\ ~Done(Here) /\ phase = "lexing"
    BY LexIsSuccessor DEF Lex
  <1> QED
    BY <1>1, PlaceGoesOn

LEMMA PlaceParses ==
  ASSUME OutcomeInv, PlaceInv, Parse
  PROVE  PlaceInv' /\ (phase' # "returning" => Further(Here, Here'))
  <1>1. phase \in {"parsing", "block"} /\ strict \in BOOLEAN /\ Placed(source, Here)
        /\ UNCHANGED tokens
    BY DEF OutcomeInv, PlaceInv, Parse, ParseStatement, ParseUnknown, ParseAttribute,
           ParseSkip, ParseBlockEnd, Transpile
  <1>2. CASE /\ Here' = Successor(source, Here) /\ phase' \in {"parsing", "block"}
             /\ ~Done(Here) /\ UNCHANGED <<script, strict, resultVars>>
    BY <1>1, <1>2, PlaceGoesOn
  <1>3. CASE phase' = "returning"
    <2>1. tokens \in Seq(Tokens) /\ EndsOnce(tokens)
      BY <1>1 DEF Placed, Here
    <2> QED
      BY <1>1, <1>3, <2>1 DEF PlaceInv
  <1> QED
    BY <1>1, <1>2, <1>3, ParseIsSuccessor DEF Transpile

LEMMA PlacesHold == ApiSpec => []PlaceInv
  <1>1. ApiInit => PlaceInv
    BY DEF ApiInit, CompilerInit, PlaceInv
  <1>2. OutcomeInv /\ PlaceInv /\ [ApiNext]_apiVars => PlaceInv'
    <2> SUFFICES ASSUME OutcomeInv, PlaceInv, [ApiNext]_apiVars PROVE PlaceInv'
      OBVIOUS
    <2>1. CASE Compile \/ ApiCompile
      BY <2>1, PlaceBegins DEF Compile, ApiCompile
    <2>2. CASE Lex
      BY <2>2, PlaceLexes
    <2>3. CASE Parse
      BY <2>3, PlaceParses
    <2>4. CASE Finish
      BY <2>4 DEF Finish, PlaceInv
    <2>5. CASE ApiRefuse \/ Shutdown
      BY <2>5 DEF ApiRefuse, Shutdown, Skip, PlaceInv
    <2>6. CASE UNCHANGED compilerVars
      <3>1. Here' = Here /\ source' = source /\ phase' = phase /\ tokens' = tokens
        BY <2>6 DEF compilerVars, parserVars, Here, source
      <3> QED
        BY <3>1 DEF PlaceInv
    <2> QED
      BY <2>1, <2>2, <2>3, <2>4, <2>5, <2>6
      DEF ApiNext, CompilerNext, Return, ReturnString, ReturnBuffer, ApiFinish,
          FreeString, apiVars
  <1> QED
    BY <1>1, <1>2, OutcomesHold, PTL DEF ApiSpec

\* The lexer stays in the source and the parser on its tokens, whatever the source:
\* the end token is there, last and once, and neither look-ahead passes it.
THEOREM CompilerTypeCorrect == ApiSpec => []CompilerTypeOK
  <1>1. OutcomeInv /\ PlaceInv => CompilerTypeOK
    <2> SUFFICES ASSUME OutcomeInv, PlaceInv PROVE CompilerTypeOK
      OBVIOUS
    <2>1. strict \in BOOLEAN /\ phase \in Phases /\ (phase # "idle" => script # <<>>)
      BY DEF OutcomeInv
    <2>2. /\ phase = "lexing" => at \in 0 .. Len(source)
          /\ phase \in {"parsing", "block"} => at \in 0 .. Len(tokens) - 1
      BY DEF PlaceInv, Placed, Here
    <2>3. tokens \in Seq(Tokens)
      <3>1. CASE phase = "idle"
        BY <3>1 DEF PlaceInv
      <3>2. CASE phase # "idle"
        BY <2>1, <3>2 DEF PlaceInv, Placed, Here, Phases
      <3> QED
        BY <3>1, <3>2
    <2>4. ASSUME NEW i \in DOMAIN tokens
          PROVE  /\ tokens[i].type \in TokenTypes
                 /\ tokens[i].type = "eof" <=> (phase # "lexing" /\ i = Len(tokens))
      <3>1. tokens[i] \in Tokens /\ i \in 1 .. Len(tokens)
        BY <2>3
      <3>2. tokens[i].type = "eof" <=> (phase # "lexing" /\ i = Len(tokens))
        BY <2>1, <3>1 DEF PlaceInv, Placed, Here, Phases, EndsOnce
      <3> QED
        BY <3>1, <3>2 DEF Tokens
    <2> QED
      BY <2>1, <2>2, <2>4 DEF CompilerTypeOK
  <1> QED
    BY <1>1, OutcomesHold, PlacesHold, PTL

\* No round of the loops of the lexer and the parser stands still: each moves on in
\* the source or the tokens, except that the parser may leave a block where it is,
\* at the end token, and returns from where it stands.
Advancing ==
  /\ Lex => at' > at \/ phase' = "parsing"
  /\ Parse => \/ at' > at \/ phase' = "returning"
              \/ phase = "block" /\ phase' = "parsing" /\ at' >= at

THEOREM RoundsAdvance == ApiSpec => [][Advancing]_apiVars
  <1>1. OutcomeInv /\ PlaceInv => Advancing
    <2> SUFFICES ASSUME OutcomeInv, PlaceInv PROVE Advancing
      OBVIOUS
    <2>1. ASSUME Lex PROVE at' > at \/ phase' = "parsing"
      <3>1. Further(Here, Here') /\ phase = "lexing" /\ phase' \in {"lexing", "parsing"}
        BY <2>1, PlaceLexes, LexIsSuccessor DEF Lex
      <3> QED
        BY <3>1 DEF Further, Here
    <2>2. ASSUME Parse, phase' # "returning"
          PROVE  at' > at \/ (phase = "block" /\ phase' = "parsing" /\ at' >= at)
      <3>1. Further(Here, Here') /\ phase \in {"parsing", "block"}
        BY <2>2, PlaceParses
        DEF Parse, ParseStatement, ParseUnknown, ParseAttribute, ParseSkip, ParseBlockEnd,
            Transpile
      <3> QED
        BY <3>1 DEF Further, Here
    <2> QED
      BY <2>1, <2>2 DEF Advancing
  <1> QED
    BY <1>1, OutcomesHold, PlacesHold, PTL

-----------------------------------------------------------------------------
(* The page, and the host's buffer.                                           *)

Cells == Pieces \cup {"&gt;", "head", "element"}

LEMMA ElementTyped == ASSUME NEW n \in Nodes PROVE Element(n) \in Seq(Cells)
  <1>1. n.attributes \in Seq(Seq(Pieces) \X Seq(Pieces))
    BY DEF Nodes, Attributes
  <1>2. ASSUME NEW text \in Seq(Pieces) PROVE Escape(text) \in Seq(Cells)
    <2>1. Len(text) \in Nat /\ \A i \in 1 .. Len(text) : text[i] \in Pieces
      OBVIOUS
    <2>2. \A i \in 1 .. Len(text) :
            (IF text[i] = ">" THEN "&gt;" ELSE text[i]) \in Cells
      BY <2>1 DEF Cells
    <2>3. Escape(text) \in [1 .. Len(text) -> Cells]
      BY <2>2 DEF Escape
    <2> QED
      BY <2>1, <2>3
  <1>3. Shown(n) \in Seq(Cells)
    <2> DEFINE found == {i \in DOMAIN n.attributes : n.attributes[i][1] = <<"shown">>}
    <2>1. CASE found = {}
      BY <2>1 DEF Shown
    <2>2. CASE found # {}
      <3>1. found \in SUBSET Nat
        BY <1>1
      <3>2. Least(found) \in DOMAIN n.attributes
        BY <2>2, <3>1, LeastIsLeast
      <3>3. n.attributes[Least(found)][2] \in Seq(Pieces)
        <4> HIDE DEF found
        <4>1. n.attributes[Least(found)] \in Seq(Pieces) \X Seq(Pieces)
          BY <1>1, <3>2
        <4> QED
          BY <4>1
      <3>4. Shown(n) = Escape(n.attributes[Least(found)][2])
        BY <2>2 DEF Shown
      <3> QED
        BY <1>2, <3>3, <3>4
    <2> QED
      BY <2>1, <2>2
  <1>4. <<"element">> \o Shown(n) \in Seq(Cells)
    <2>1. <<"element">> \in Seq(Cells)
      BY DEF Cells
    <2> QED
      BY <1>3, <2>1
  <1> QED
    BY <1>4 DEF Element

\* The page of a tree is text.
LEMMA PageTyped == ASSUME NEW t \in Seq(Nodes) PROVE Page(t) \in Seq(Cells)
  <1> DEFINE n == Len(t)
             Html(f, i) == IF i = 0 THEN <<"head">> ELSE f[i - 1] \o Element(t[i])
  <1>1. n \in Nat /\ \A i \in 1 .. n : Element(t[i]) \in Seq(Cells)
    BY ElementTyped
  \* The page of the first i statements exists.
  <1>2. \E f : f = [i \in 0 .. n |-> Html(f, i)]
    <2> DEFINE B == {k \in 0 .. n : \E f : f = [i \in 0 .. k |-> Html(f, i)]}
                    \cup {k \in Nat : k > n}
    <2> HIDE DEF Html
    <2>1. 0 \in B
      <3> DEFINE f == [i \in 0 .. 0 |-> <<"head">>]
      <3>1. \A i \in 0 .. 0 : i = 0
        OBVIOUS
      <3>2. f = [i \in 0 .. 0 |-> Html(f, i)]
        BY <3>1 DEF Html
      <3> HIDE DEF f
      <3> QED
        BY <1>1, <3>2
    <2>2. ASSUME NEW k \in Nat, k \in B PROVE k + 1 \in B
      <3>1. CASE k + 1 > n
        BY <3>1
      <3>2. CASE k + 1 <= n
        <4>1. PICK f : f = [i \in 0 .. k |-> Html(f, i)]
          BY <1>1, <2>2, <3>2
        <4> DEFINE m == k + 1
                   g == [i \in 0 .. m |-> IF i = m THEN Html(f, m) ELSE f[i]]
        <4>2. /\ \A i \in 0 .. m : i = m \/ i \in 0 .. k
              /\ \A i \in 0 .. k : i \in 0 .. m /\ i # m
              /\ \A i \in 0 .. m : i # 0 => i - 1 \in 0 .. k
              /\ m \in 0 .. m
          OBVIOUS
        <4> HIDE DEF m
        <4>3. \A i \in 0 .. k : g[i] = f[i] /\ f[i] = Html(f, i)
          BY <4>1, <4>2
        <4>4. \A i \in 0 .. m : Html(g, i) = Html(f, i)
          BY <4>2, <4>3 DEF Html
        <4>5. \A i \in 0 .. m : g[i] = Html(f, i)
          BY <4>2, <4>3
        <4>6. g = [i \in 0 .. m |-> Html(g, i)]
          BY <4>4, <4>5
        <4> HIDE DEF g
        <4>7. \E h : h = [i \in 0 .. k + 1 |-> Html(h, i)]
          BY <4>6 DEF m
        <4> QED
          BY <1>1, <3>2, <4>7
      <3> QED
        BY <1>1, <3>1, <3>2
    <2> HIDE DEF B
    <2>3. n \in B
      BY <1>1, <2>1, <2>2, NumbersByInduction
    <2> QED
      BY <1>1, <2>3 DEF B
  <1>3. ASSUME NEW f, f = [i \in 0 .. n |-> Html(f, i)] PROVE f[n] \in Seq(Cells)
    <2> DEFINE B == {k \in Nat : k > n \/ f[k] \in Seq(Cells)}
    <2>1. \A i \in 0 .. n : f[i] = Html(f, i)
      <3> HIDE DEF Html
      <3> QED
        BY <1>3
    <2>2. 0 \in B
      <3>1. "head" \in Cells
        BY DEF Cells
      <3>2. f[0] = <<"head">>
        BY <1>1, <2>1
      <3>3. f[0] \in Seq(Cells)
        BY <3>1, <3>2
      <3> QED
        BY <3>3
    <2>3. ASSUME NEW k \in Nat, k \in B PROVE k + 1 \in B
      <3>1. CASE k + 1 > n
        BY <3>1
      <3>2. CASE k + 1 <= n
        <4>1. k + 1 \in 1 .. n /\ k + 1 \in 0 .. n /\ (k + 1) - 1 = k /\ k + 1 # 0
          BY <1>1, <3>2
        <4>2. f[k] \in Seq(Cells) /\ Element(t[k + 1]) \in Seq(Cells)
          BY <1>1, <2>3, <3>2, <4>1
        <4>3. f[k + 1] = f[k] \o Element(t[k + 1])
          BY <2>1, <4>1
        <4>4. f[k + 1] \in Seq(Cells)
          BY <4>2, <4>3
        <4> QED
          BY <4>4
      <3> QED
        BY <1>1, <3>1, <3>2
    <2> HIDE DEF B
    <2>4. n \in B
      BY <1>1, <2>2, <2>3, NumbersByInduction
    <2> QED
      BY <1>1, <2>4 DEF B
  <1>4. PICK f : f = [i \in 0 .. n |-> Html(f, i)] /\ Page(t) = f[n]
    <2> DEFINE f == CHOOSE g : g = [i \in 0 .. n |-> Html(g, i)]
    <2>1. f = [i \in 0 .. n |-> Html(f, i)]
      BY <1>2
    <2>2. Page(t) = f[n]
      BY DEF Page
    <2> QED
      BY <2>1, <2>2
  <1> QED
    BY <1>3, <1>4

\* A call of the API compiles leniently, and finds the buffer as the host left it.
HostInv ==
  /\ phase # "idle" /\ Head(script).via = "buffer" => ~strict /\ buffer = Untouched
  /\ phase = "returning" /\ result.ok => result.page \in Seq(Cells)

LEMMA HostHolds == ApiSpec => []HostInv
  <1>1. ApiInit => HostInv
    BY DEF ApiInit, CompilerInit, HostInv
  <1>2. OutcomeInv /\ PlaceInv /\ HostInv /\ [ApiNext]_apiVars => HostInv'
    <2> SUFFICES ASSUME OutcomeInv, PlaceInv, HostInv, [ApiNext]_apiVars PROVE HostInv'
      OBVIOUS
    <2>1. CASE Compile /\ UNCHANGED hostVars
      BY <2>1 DEF Compile, Begin, HostInv
    <2>2. CASE ApiCompile
      BY <2>2 DEF ApiCompile, Begin, HostInv
    <2>3. CASE Lex /\ UNCHANGED hostVars
      <3>1. phase = "lexing" /\ phase' \in {"lexing", "parsing"}
            /\ UNCHANGED <<script, strict>>
        BY <2>3, LexIsSuccessor DEF Lex
      <3> QED
        BY <2>3, <3>1 DEF HostInv, hostVars
    <2>4. CASE Parse /\ UNCHANGED hostVars
      <3>1. /\ phase \in {"parsing", "block"} /\ UNCHANGED <<script, strict>>
            /\ \/ phase' \in {"parsing", "block"}
               \/ phase' = "returning" /\ result' = Failure
               \/ Transpile
        BY <2>4, ParseIsSuccessor
        DEF OutcomeInv, Parse, ParseStatement, ParseUnknown, ParseAttribute, ParseSkip,
            ParseBlockEnd, Transpile
      <3>2. Transpile => result'.page \in Seq(Cells)
        <4>1. tree \in Seq(Nodes)
          BY <3>1 DEF PlaceInv, Placed, Here
        <4> QED
          BY <4>1, PageTyped DEF Transpile
      <3> QED
        BY <2>4, <3>1, <3>2 DEF HostInv, hostVars, Failure
    <2>5. CASE Finish
      BY <2>5 DEF Finish, HostInv
    <2>6. CASE ApiRefuse \/ Shutdown
      BY <2>6 DEF ApiRefuse, Shutdown, Skip, HostInv
    <2>7. CASE FreeString \/ UNCHANGED apiVars
      BY <2>7 DEF FreeString, apiVars, hostVars, compilerVars, resultVars, HostInv
    <2> QED
      BY <2>1, <2>2, <2>3, <2>4, <2>5, <2>6, <2>7
      DEF ApiNext, CompilerNext, Return, ReturnString, ReturnBuffer, ApiFinish
  <1> QED
    BY <1>1, <1>2, OutcomesHold, PlacesHold, PTL DEF ApiSpec

\* Whatever the source and the size of the buffer: the API answers 1 exactly when
\* the page and its terminator lie in the buffer, and writes nowhere else.
THEOREM BufferNeverOverrun == ApiSpec => BufferHoldsPage
  <1> DEFINE Kept ==
        phase' = "idle" /\ phase = "returning" /\ Head(script).via = "buffer" =>
          LET done == log'[Len(log')]
              page == done.result.page
              fits == Len(page) + 1 <= done.call.size
          IN /\ answer' = "one" <=> fits
             /\ fits => /\ SubSeq(buffer', 1, Len(page)) = page
                        /\ buffer'[Len(page) + 1] = "\\0"
             /\ \A i \in 1 .. MaxSize + 1 :
                  i > (IF fits THEN done.call.size ELSE 0) => buffer'[i] = "old"
  <1>1. OutcomeInv /\ HostInv /\ [ApiNext]_apiVars => [Kept]_apiVars
    <2> SUFFICES ASSUME OutcomeInv, HostInv, [ApiNext]_apiVars,
                        phase' = "idle", phase = "returning", Head(script).via = "buffer"
                 PROVE  Kept
      OBVIOUS
    <2>1. ReturnBuffer
      BY DEF ApiNext, CompilerNext, Compile, ApiCompile, Begin, Lex, Parse, Return,
             ParseStatement, ParseUnknown, ParseAttribute, ParseSkip, ParseBlockEnd,
             Transpile, ApiRefuse, Shutdown, Skip, ReturnString, FreeString, apiVars,
             compilerVars
    <2> DEFINE page == result.page
               size == Head(script).size
               fits == Len(page) + 1 <= size
               entry == [call |-> Head(script), result |-> result, ast |-> ast]
    <2>2. result.ok /\ page \in Seq(Cells) /\ buffer = Untouched
      BY DEF OutcomeInv, HostInv
    <2>3. size \in 0 .. MaxSize /\ MaxSize \in Nat
      <3>1. Head(script) \in AllCalls
        BY DEF OutcomeInv
      <3> QED
        BY <3>1, SizeAssumption DEF AllCalls
    <2>4. log'[Len(log')] = entry
      <3>1. PICK S : log \in Seq(S)
        BY DEF OutcomeInv
      <3>2. log' = Append(log, entry)
        BY <2>1 DEF ReturnBuffer, ApiFinish, Finish
      <3> QED
        BY <3>1, <3>2
    <2>5. /\ Len(page) \in Nat /\ fits <=> Len(page) < size
      BY <2>2, <2>3
    <2>6. CASE fits
      <3>1. answer' = "one" /\ buffer' = Write(page)
        BY <2>1, <2>2, <2>5, <2>6 DEF ReturnBuffer
      <3>2. buffer' = [i \in 1 .. MaxSize + 1 |->
                         IF i <= Len(page) THEN page[i]
                         ELSE IF i = Len(page) + 1 THEN "\\0" ELSE "old"]
        BY <2>2, <3>1 DEF Write, Untouched
      <3>3. SubSeq(buffer', 1, Len(page)) = page
        BY <2>2, <2>3, <2>5, <2>6, <3>2
      <3>4. buffer'[Len(page) + 1] = "\\0"
        BY <2>2, <2>3, <2>5, <2>6, <3>2
      <3>5. \A i \in 1 .. MaxSize + 1 : i > size => buffer'[i] = "old"
        BY <2>2, <2>3, <2>5, <2>6, <3>2
      <3> QED
        BY <2>4, <2>6, <3>1, <3>3, <3>4, <3>5
    <2>7. CASE ~fits
      <3>1. answer' = "zero" /\ buffer' = Untouched
        BY <2>1, <2>2, <2>5, <2>7 DEF ReturnBuffer
      <3>2. \A i \in 1 .. MaxSize + 1 : buffer'[i] = "old"
        BY <3>1 DEF Untouched
      <3> QED
        BY <2>4, <2>7, <3>1, <3>2
    <2> QED
      BY <2>6, <2>7
  <1> QED
    BY <1>1, OutcomesHold, HostHolds, PTL DEF ApiSpec, BufferHoldsPage
================================================================================
