----------------------------- MODULE WrittenProofs -----------------------------
(***************************************************************************)
(* Proof that the compiler reads every written program, in every layout,   *)
(* as itself.  The lexer makes of a text of lexemes the tokens of these;   *)
(* the parser makes of the tokens of a written statement that statement;   *)
(* and both do it without a place where strict parsing would give up.      *)
(***************************************************************************)
EXTENDS CompilerProofs, SequenceTheorems

-----------------------------------------------------------------------------
(* Sequences that are laid out in others.                                     *)

\* x stands in t behind the first p elements.
Occurs(t, p, x) == p + Len(x) <= Len(t) /\ \A i \in 1 .. Len(x) : t[p + i] = x[i]

\* The sequences xs stand in t one after the other, xs[i] behind the first pos[i].
LaidOut(t, p, xs, pos) ==
  /\ pos \in [1 .. Len(xs) + 1 -> Nat] /\ pos[1] = p
  /\ \A i \in 1 .. Len(xs) : pos[i + 1] = pos[i] + Len(xs[i]) /\ Occurs(t, pos[i], xs[i])

\* The parts of a concatenation occur in it.
LEMMA OccursLeft ==
  ASSUME NEW T, NEW t \in Seq(T), NEW u \in Seq(T), NEW x \in Seq(T), NEW p \in Nat,
         Occurs(t, p, x)
  PROVE  Occurs(t \o u, p, x)
  <1>1. Len(x) \in Nat /\ Len(t) \in Nat /\ Len(u) \in Nat /\ Len(t \o u) = Len(t) + Len(u)
    OBVIOUS
  <1>2. p + Len(x) <= Len(t \o u)
    BY <1>1 DEF Occurs
  <1>3. ASSUME NEW i \in 1 .. Len(x) PROVE (t \o u)[p + i] = x[i]
    <2>1. p + i \in 1 .. Len(t) /\ t[p + i] = x[i]
      BY <1>1 DEF Occurs
    <2> QED
      BY <2>1
  <1> QED
    BY <1>2, <1>3 DEF Occurs

LEMMA OccursRight ==
  ASSUME NEW T, NEW t \in Seq(T), NEW u \in Seq(T)
  PROVE  Occurs(t \o u, Len(t), u)
  BY DEF Occurs

\* Where a concatenation occurs, its parts do.
LEMMA OccursConcat ==
  ASSUME NEW T, NEW t \in Seq(T), NEW x \in Seq(T), NEW y \in Seq(T), NEW p \in Nat,
         Occurs(t, p, x \o y)
  PROVE  Occurs(t, p, x) /\ Occurs(t, p + Len(x), y) /\ p + Len(x) \in Nat
  <1>1. /\ Len(x) \in Nat /\ Len(y) \in Nat /\ Len(t) \in Nat
        /\ Len(x \o y) = Len(x) + Len(y)
    OBVIOUS
  <1>2. ASSUME NEW i \in 1 .. Len(x) PROVE t[p + i] = x[i]
    <2>1. i \in 1 .. Len(x \o y) /\ (x \o y)[i] = x[i]
      BY <1>1
    <2> QED
      BY <2>1 DEF Occurs
  <1>3. ASSUME NEW i \in 1 .. Len(y) PROVE t[(p + Len(x)) + i] = y[i]
    <2>1. /\ Len(x) + i \in 1 .. Len(x \o y) /\ (x \o y)[Len(x) + i] = y[i]
          /\ p + (Len(x) + i) = (p + Len(x)) + i
      BY <1>1
    <2> QED
      BY <2>1 DEF Occurs
  <1> QED
    BY <1>1, <1>2, <1>3 DEF Occurs

\* What occurs in a part occurs in the whole.
LEMMA OccursWithin ==
  ASSUME NEW T, NEW t \in Seq(T), NEW y \in Seq(T), NEW x \in Seq(T),
         NEW p \in Nat, NEW q \in Nat, Occurs(t, p, y), Occurs(y, q, x)
  PROVE  Occurs(t, p + q, x)
  <1>1. Len(x) \in Nat /\ Len(y) \in Nat /\ Len(t) \in Nat
    OBVIOUS
  <1>2. (p + q) + Len(x) <= Len(t)
    BY <1>1 DEF Occurs
  <1>3. ASSUME NEW i \in 1 .. Len(x) PROVE t[(p + q) + i] = x[i]
    <2>1. q + i \in 1 .. Len(y) /\ y[q + i] = x[i] /\ p + (q + i) = (p + q) + i
      BY <1>1 DEF Occurs
    <2> QED
      BY <2>1 DEF Occurs
  <1> QED
    BY <1>2, <1>3 DEF Occurs

\* Flattened sequences stand one after the other.
LEMMA FlattenLays ==
  ASSUME NEW T, NEW xs \in Seq(Seq(T))
  PROVE  /\ FlattenSeq(xs) \in Seq(T)
         /\ \E pos : /\ LaidOut(FlattenSeq(xs), 0, xs, pos)
                     /\ pos[Len(xs) + 1] = Len(FlattenSeq(xs))
  <1> DEFINE n == Len(xs)
             Flat(f, i) == IF i = 1 THEN xs[i] ELSE f[i - 1] \o xs[i]
  <1>1. n \in Nat /\ \A i \in 1 .. n : xs[i] \in Seq(T) /\ Len(xs[i]) \in Nat
    OBVIOUS
  <1>2. CASE n = 0
    <2>1. xs = <<>> /\ FlattenSeq(xs) = xs /\ FlattenSeq(xs) \in Seq(T)
      BY <1>2 DEF FlattenSeq
    <2>2. LaidOut(FlattenSeq(xs), 0, xs, [i \in 1 .. 1 |-> 0])
      BY <1>2, <2>1 DEF LaidOut
    <2> QED
      BY <1>2, <2>1, <2>2
  <1>3. CASE n # 0
    <2>1. \E f : f = [i \in 1 .. n |-> Flat(f, i)]
      <3> DEFINE B == {k \in Nat : k > n \/ \E f : f = [i \in 1 .. k |-> Flat(f, i)]}
      <3> HIDE DEF Flat
      <3>1. 0 \in B
        <4>1. [i \in 1 .. 0 |-> 0] = [i \in 1 .. 0 |-> Flat([j \in 1 .. 0 |-> 0], i)]
          OBVIOUS
        <4> DEFINE f == [i \in 1 .. 0 |-> 0]
        <4>2. f = [i \in 1 .. 0 |-> Flat(f, i)]
          BY <4>1
        <4> HIDE DEF f
        <4> QED
          BY <4>2
      <3>2. ASSUME NEW k \in Nat, k \in B PROVE k + 1 \in B
        <4>1. CASE k + 1 > n
          BY <4>1
        <4>2. CASE k + 1 <= n
          <5>1. PICK f : f = [i \in 1 .. k |-> Flat(f, i)]
            BY <1>1, <3>2, <4>2
          <5> DEFINE m == k + 1
                     g == [i \in 1 .. m |-> IF i = m THEN Flat(f, m) ELSE f[i]]
          <5>2. /\ \A i \in 1 .. m : i = m \/ i \in 1 .. k
                /\ \A i \in 1 .. k : i \in 1 .. m /\ i # m
                /\ \A i \in 1 .. m : i # 1 => i - 1 \in 1 .. k
                /\ m \in 1 .. m
            OBVIOUS
          <5> HIDE DEF m
          <5>3. \A i \in 1 .. k : g[i] = f[i] /\ f[i] = Flat(f, i)
            BY <5>1, <5>2
          <5>4. \A i \in 1 .. m : Flat(g, i) = Flat(f, i)
            BY <5>2, <5>3 DEF Flat
          <5>5. \A i \in 1 .. m : g[i] = Flat(f, i)
            BY <5>2, <5>3
          <5>6. g = [i \in 1 .. m |-> Flat(g, i)]
            BY <5>4, <5>5
          <5> HIDE DEF g
          <5>7. \E h : h = [i \in 1 .. k + 1 |-> Flat(h, i)]
            BY <5>6 DEF m
          <5> QED
            BY <5>7
        <4> QED
          BY <1>1, <4>1, <4>2
      <3> HIDE DEF B
      <3>3. n \in B
        BY <1>1, <3>1, <3>2, NumbersByInduction
      <3> QED
        BY <1>1, <3>3 DEF B
    <2> DEFINE f == CHOOSE g : g = [i \in 1 .. n |-> Flat(g, i)]
    <2>2. f = [i \in 1 .. n |-> Flat(f, i)]
      BY <2>1
    <2>3. FlattenSeq(xs) = f[n]
      BY <1>3 DEF FlattenSeq
    <2> HIDE DEF f
    <2>4. \A i \in 1 .. n : f[i] = Flat(f, i)
      <3> HIDE DEF Flat
      <3> QED
        BY <2>2
    <2> DEFINE P(i) == IF i = 1 THEN 0 ELSE Len(f[i - 1])
               Prefix(k) == /\ f[k] \in Seq(T)
                            /\ \A i \in 1 .. k : P(i) \in Nat /\ Occurs(f[k], P(i), xs[i])
                            /\ Len(f[k]) = P(k) + Len(xs[k])
               B == {k \in Nat : k + 1 > n \/ Prefix(k + 1)}
    <2>5. Prefix(1)
      <3>1. f[1] = xs[1] /\ xs[1] \in Seq(T) /\ P(1) = 0
        BY <1>1, <1>3, <2>4
      <3>2. Occurs(xs[1], 0, xs[1])
        BY <3>1 DEF Occurs
      <3>3. \A i \in 1 .. 1 : i = 1
        OBVIOUS
      <3>4. Len(f[1]) = P(1) + Len(xs[1])
        BY <1>1, <1>3, <3>1
      <3> HIDE DEF P
      <3>5. \A i \in 1 .. 1 : P(i) \in Nat /\ Occurs(f[1], P(i), xs[i])
        BY <3>1, <3>2, <3>3
      <3>6. f[1] \in Seq(T)
        BY <3>1
      <3> QED
        BY <3>4, <3>5, <3>6
    <2>6. ASSUME NEW k \in 1 .. n, k + 1 <= n, Prefix(k) PROVE Prefix(k + 1)
      <3>1. k + 1 \in 1 .. n /\ k + 1 # 1 /\ (k + 1) - 1 = k
        BY <1>1, <2>6
      <3>2. f[k + 1] = f[k] \o xs[k + 1] /\ P(k + 1) = Len(f[k]) /\ xs[k + 1] \in Seq(T)
        BY <1>1, <2>4, <3>1
      <3> HIDE DEF P
      <3>3. f[k + 1] \in Seq(T) /\ Len(f[k + 1]) = P(k + 1) + Len(xs[k + 1])
            /\ P(k + 1) \in Nat
        <4>1. f[k] \in Seq(T)
          BY <2>6
        <4> HIDE DEF Prefix
        <4>2. /\ f[k] \o xs[k + 1] \in Seq(T) /\ Len(f[k]) \in Nat
              /\ Len(f[k] \o xs[k + 1]) = Len(f[k]) + Len(xs[k + 1])
          BY <3>2, <4>1
        <4> QED
          BY <3>2, <4>2
      <3>4. Occurs(f[k + 1], P(k + 1), xs[k + 1])
        BY <2>6, <3>2, OccursRight
      <3>5. ASSUME NEW i \in 1 .. k PROVE P(i) \in Nat /\ Occurs(f[k + 1], P(i), xs[i])
        <4>1. f[k] \in Seq(T) /\ P(i) \in Nat /\ Occurs(f[k], P(i), xs[i]) /\ xs[i] \in Seq(T)
          BY <1>1, <2>6
        <4> QED
          BY <3>2, <4>1, OccursLeft
      <3>6. \A i \in 1 .. k + 1 : i \in 1 .. k \/ i = k + 1
        OBVIOUS
      <3> QED
        BY <3>3, <3>4, <3>5, <3>6
    <2> HIDE DEF Prefix
    <2>7. \A k \in 1 .. n : Prefix(k)
      <3>1. \A k \in Nat : k \in B
        <4>1. 0 \in B
          BY <2>5
        <4>2. ASSUME NEW k \in Nat, k \in B PROVE k + 1 \in B
          <5>1. CASE (k + 1) + 1 > n
            BY <5>1
          <5>2. CASE (k + 1) + 1 <= n
            <6>1. k + 1 \in 1 .. n /\ Prefix(k + 1)
              BY <1>1, <4>2, <5>2
            <6> QED
              BY <2>6, <5>2, <6>1
          <5> QED
            BY <1>1, <5>1, <5>2
        <4> HIDE DEF B
        <4> QED
          BY <4>1, <4>2, NumbersByInduction
      <3>2. ASSUME NEW k \in 1 .. n PROVE Prefix(k)
        <4>1. k - 1 \in Nat /\ (k - 1) + 1 = k
          BY <1>1
        <4>2. k - 1 \in B
          BY <3>1, <4>1
        <4> QED
          BY <1>1, <4>1, <4>2
      <3> QED
        BY <3>2
    <2>8. Prefix(n)
      BY <1>1, <1>3, <2>7
    <2> DEFINE pos == [i \in 1 .. n + 1 |-> P(i)]
    <2>9. \A i \in 1 .. n : P(i) \in Nat /\ P(i + 1) = P(i) + Len(xs[i])
                            /\ Occurs(f[n], P(i), xs[i])
      <3>1. ASSUME NEW i \in 1 .. n
            PROVE  P(i + 1) = P(i) + Len(xs[i]) /\ P(i) \in Nat
        <4>1. i + 1 # 1 /\ (i + 1) - 1 = i
          BY <1>1
        <4>2. Prefix(i) /\ P(i + 1) = Len(f[i]) /\ i \in 1 .. i
          BY <1>1, <2>7, <4>1
        <4> HIDE DEF P
        <4> QED
          BY <4>2 DEF Prefix
      <3> HIDE DEF P
      <3> QED
        BY <2>8, <3>1 DEF Prefix
    <2>10. P(1) = 0 /\ P(n + 1) = Len(f[n])
      BY <1>1, <1>3
    <2>11. f[n] \in Seq(T)
      BY <2>8 DEF Prefix
    <2> HIDE DEF P
    <2>12. \A i \in 1 .. n + 1 : P(i) \in Nat
      <3>1. \A i \in 1 .. n + 1 : i \in 1 .. n \/ i = n + 1
        BY <1>1
      <3> QED
        BY <2>9, <2>10, <2>11, <3>1
    <2>13. LaidOut(f[n], 0, xs, pos) /\ pos[n + 1] = Len(f[n])
      <3>1. 1 \in 1 .. n + 1 /\ n + 1 \in 1 .. n + 1
            /\ \A i \in 1 .. n : i \in 1 .. n + 1 /\ i + 1 \in 1 .. n + 1
        BY <1>1
      <3>2. pos \in [1 .. n + 1 -> Nat] /\ pos[1] = 0 /\ pos[n + 1] = Len(f[n])
        BY <2>10, <2>12, <3>1
      <3>3. \A i \in 1 .. n : pos[i] = P(i) /\ pos[i + 1] = P(i + 1)
        BY <3>1
      <3> HIDE DEF pos
      <3> QED
        BY <2>9, <3>2, <3>3 DEF LaidOut
    <2> QED
      BY <2>3, <2>11, <2>13
  <1> QED
    BY <1>2, <1>3

\* Where flattened sequences occur, they are laid out one behind the other.
LEMMA FlattenIn ==
  ASSUME NEW T, NEW xs \in Seq(Seq(T)), NEW t \in Seq(T), NEW p \in Nat,
         Occurs(t, p, FlattenSeq(xs))
  PROVE  \E pos : LaidOut(t, p, xs, pos) /\ pos[Len(xs) + 1] = p + Len(FlattenSeq(xs))
  <1> DEFINE n == Len(xs)
             y == FlattenSeq(xs)
  <1>1. PICK at0 : LaidOut(y, 0, xs, at0) /\ at0[n + 1] = Len(y)
    BY FlattenLays
  <1>2. y \in Seq(T) /\ Len(y) \in Nat /\ n \in Nat /\ \A i \in 1 .. n : xs[i] \in Seq(T)
    BY FlattenLays
  <1> DEFINE pos == [i \in 1 .. n + 1 |-> p + at0[i]]
  <1> HIDE DEF y
  <1>3. /\ at0 \in [1 .. n + 1 -> Nat] /\ at0[1] = 0
        /\ \A i \in 1 .. n : at0[i + 1] = at0[i] + Len(xs[i]) /\ Occurs(y, at0[i], xs[i])
    BY <1>1 DEF LaidOut
  <1>4. /\ 1 \in 1 .. n + 1 /\ n + 1 \in 1 .. n + 1
        /\ \A i \in 1 .. n : i \in 1 .. n + 1 /\ i + 1 \in 1 .. n + 1
    BY <1>2
  <1>5. pos \in [1 .. n + 1 -> Nat] /\ pos[1] = p /\ pos[n + 1] = p + Len(y)
    <2>1. \A i \in 1 .. n + 1 : at0[i] \in Nat /\ p + at0[i] \in Nat
      BY <1>3
    <2>2. pos[1] = p + at0[1] /\ pos[n + 1] = p + at0[n + 1]
      BY <1>4
    <2> QED
      BY <1>1, <1>2, <1>3, <2>1, <2>2
  <1>6. ASSUME NEW i \in 1 .. n
        PROVE  pos[i + 1] = pos[i] + Len(xs[i]) /\ Occurs(t, pos[i], xs[i])
    <2>1. at0[i] \in Nat /\ Occurs(y, at0[i], xs[i]) /\ xs[i] \in Seq(T)
          /\ at0[i + 1] = at0[i] + Len(xs[i])
      BY <1>2, <1>3, <1>4
    <2>2. pos[i] = p + at0[i] /\ pos[i + 1] = p + at0[i + 1] /\ Len(xs[i]) \in Nat
      BY <1>4, <2>1
    <2> HIDE DEF pos
    <2>3. Occurs(t, p + at0[i], xs[i])
      BY <1>2, <2>1, OccursWithin DEF y
    <2> QED
      BY <2>1, <2>2, <2>3
  <1> HIDE DEF pos
  <1> QED
    BY <1>5, <1>6 DEF LaidOut, y

-----------------------------------------------------------------------------
(* What the lexer makes of a lexeme.                                          *)

IsLexeme(e) ==
  \/ IsBlank(e)
  \/ \E w : IsWord(w) /\ e = Word(w)
  \/ \E n : IsNumber(n) /\ e = Number(n)
  \/ \E c \in Symbols : e = Symbol(c)
  \/ \E t \in Seq(Pieces) : e = String(t)

\* The character c does not go on with the lexeme e.
EndsAt(e, c) ==
  /\ Head(e.text) \in Letters => c \notin Letters \cup Digits
  /\ Head(e.text) \in Digits => c \notin Digits \cup {"."}
  /\ IsLineComment(e.text) => c \in {"newline", "none"}

\* A run ends where its characters do.
LEMMA RunEndIs ==
  ASSUME NEW s \in Seq(Pieces), NEW p \in Nat, NEW e \in p .. Len(s), NEW S,
         \A q \in p + 1 .. e : s[q] \in S, CharOf(s, e) \notin S
  PROVE  RunEnd(s, p, S) = e
  <1> DEFINE Q == {q \in p .. Len(s) : q = Len(s) \/ s[q + 1] \notin S}
  <1>1. e \in Q
    BY DEF CharOf
  <1>2. Q \in SUBSET Nat /\ Q # {}
    BY <1>1
  <1>3. Least(Q) \in Q /\ \A q \in Q : Least(Q) <= q
    BY <1>2, LeastIsLeast
  <1>4. \A q \in p .. Len(s) : q < e => q \notin Q
    <2> SUFFICES ASSUME NEW q \in p .. Len(s), q < e PROVE q # Len(s) /\ s[q + 1] \in S
      OBVIOUS
    <2>1. q + 1 \in p + 1 .. e
      OBVIOUS
    <2> QED
      BY <2>1
  <1> HIDE DEF Q
  <1>5. Least(Q) = e
    <2>1. Least(Q) \in p .. Len(s)
      BY <1>3 DEF Q
    <2> QED
      BY <1>1, <1>3, <1>4, <2>1
  <1> QED
    BY <1>5 DEF RunEnd, Q

\* The characters of what occurs are those of the source.
LEMMA OccursChar ==
  ASSUME NEW s \in Seq(Pieces), NEW p \in Nat, NEW x \in Seq(Pieces), Occurs(s, p, x)
  PROVE  /\ p + Len(x) \in 0 .. Len(s)
         /\ \A i \in 1 .. Len(x) : s[p + i] = x[i] /\ CharOf(s, p + i - 1) = x[i]
         /\ SubSeq(s, p + 1, p + Len(x)) = x
  <1>1. Len(x) \in Nat /\ Len(s) \in Nat /\ p + Len(x) <= Len(s)
    BY DEF Occurs
  <1>2. ASSUME NEW i \in 1 .. Len(x)
        PROVE  s[p + i] = x[i] /\ CharOf(s, p + i - 1) = x[i]
    <2>1. s[p + i] = x[i] /\ p + i - 1 < Len(s) /\ (p + i - 1) + 1 = p + i
      BY <1>1 DEF Occurs
    <2> QED
      BY <2>1 DEF CharOf
  <1>3. SubSeq(s, p + 1, p + Len(x)) = x
    <2> DEFINE y == SubSeq(s, p + 1, p + Len(x))
    <2>1. y \in Seq(Pieces) /\ Len(y) = Len(x) /\ \A i \in 1 .. Len(x) : y[i] = s[p + i]
      BY <1>1
    <2> HIDE DEF y
    <2>2. \A i \in 1 .. Len(x) : y[i] = x[i]
      BY <1>2, <2>1
    <2> QED
      BY <2>1, <2>2 DEF y
  <1> QED
    BY <1>1, <1>2, <1>3

\* A spelled character is read as that character.
LEMMA SpellScans ==
  ASSUME NEW s \in Seq(Pieces), NEW q \in Nat, NEW c \in Pieces, Occurs(s, q, Spell(c))
  PROVE  /\ ~StringEnds(s, q) /\ LetterAt(s, q) = c
         /\ NextInString(s, q) = q + Len(Spell(c))
  <1>1. "none" \notin Pieces /\ {"quote", "backslash", "newline", "n"} \subseteq Pieces
    BY DEF Pieces, Letters, Digits, Symbols
  <1>2. CASE c \in {"quote", "backslash", "newline"}
    <2>1. PICK d \in Pieces : /\ Spell(c) = <<"backslash", d>>
                             /\ d = IF c = "newline" THEN "n" ELSE c
      BY <1>1, <1>2 DEF Spell
    <2>2. q + 2 <= Len(s) /\ s[q + 1] = "backslash" /\ s[q + 2] = d
      <3>1. Occurs(s, q, <<"backslash", d>>)
        BY <2>1
      <3> QED
        BY <3>1 DEF Occurs
    <2>3. CharOf(s, q) = "backslash" /\ CharOf(s, q + 1) = d
      <3>1. q < Len(s) /\ q + 1 < Len(s) /\ (q + 1) + 1 = q + 2
        BY <2>2
      <3> QED
        BY <2>2, <3>1 DEF CharOf
    <2>4. Escaped(s, q)
      BY <1>1, <2>1, <2>3 DEF Escaped
    <2>5. Len(Spell(c)) = 2
      BY <2>1
    <2> QED
      BY <1>2, <2>1, <2>3, <2>4, <2>5 DEF StringEnds, LetterAt, NextInString
  <1>3. CASE c \notin {"quote", "backslash", "newline"}
    <2>1. Spell(c) = <<c>> /\ Len(Spell(c)) = 1
      BY <1>3 DEF Spell
    <2>2. CharOf(s, q) = c
      <3>1. Occurs(s, q, <<c>>)
        BY <2>1
      <3>2. q + 1 <= Len(s) /\ s[q + 1] = c
        BY <3>1 DEF Occurs
      <3> QED
        BY <3>2 DEF CharOf
    <2> QED
      BY <1>1, <1>3, <2>1, <2>2 DEF StringEnds, LetterAt, NextInString, Escaped
  <1> QED
    BY <1>2, <1>3

\* A text between quotes is read as that text.
LEMMA StringScanned ==
  ASSUME NEW s \in Seq(Pieces), NEW p \in Nat, NEW t \in Seq(Pieces),
         Occurs(s, p, String(t).text)
  PROVE  /\ CharOf(s, p) = "quote"
         /\ QuotedIn(s, p + 1) = [end |-> p + Len(String(t).text) - 1, text |-> t]
  <1> DEFINE n == Len(t)
             xs == [i \in 1 .. n |-> Spell(t[i])]
             body == FlattenSeq(xs)
             open == <<"quote">>
  <1>1. String(t).text = (open \o body) \o open
    BY DEF String, Lexeme
  <1>2. n \in Nat /\ \A i \in 1 .. n : t[i] \in Pieces /\ Spell(t[i]) \in Seq(Pieces)
    <2>1. \A c \in Pieces : Spell(c) \in Seq(Pieces)
      <3>1. "backslash" \in Pieces /\ "n" \in Pieces
        BY DEF Pieces, Letters
      <3> QED
        BY <3>1 DEF Spell
    <2> QED
      BY <2>1
  <1>3. xs \in Seq(Seq(Pieces)) /\ Len(xs) = n
    BY <1>2
  <1>4. body \in Seq(Pieces) /\ open \in Seq(Pieces) /\ Len(open) = 1 /\ open[1] = "quote"
    <2>1. "quote" \in Pieces
      BY DEF Pieces
    <2>2. open \in Seq(Pieces) /\ Len(open) = 1 /\ open[1] = "quote"
      BY <2>1
    <2> HIDE DEF xs, open
    <2>3. body \in Seq(Pieces)
      BY <1>3, FlattenLays
    <2> QED
      BY <2>2, <2>3
  <1> HIDE DEF body, xs, open
  <1>5. /\ Occurs(s, p, open) /\ Occurs(s, p + 1, body) /\ p + 1 \in Nat
        /\ Occurs(s, p + 1 + Len(body), open)
        /\ Len(String(t).text) = Len(body) + 2
    <2>1. open \o body \in Seq(Pieces) /\ Len(open \o body) = Len(body) + 1
          /\ Len((open \o body) \o open) = Len(body) + 2 /\ Len(body) \in Nat
      <3>1. Len(body) \in Nat /\ open \o body \in Seq(Pieces)
            /\ Len(open \o body) = 1 + Len(body)
        BY <1>4, LenProperties, ConcatProperties
      <3>2. Len((open \o body) \o open) = Len(open \o body) + 1
        BY <1>4, <3>1
      <3> QED
        BY <3>1, <3>2
    <2>2. Occurs(s, p, open \o body) /\ Occurs(s, p + Len(open \o body), open)
      BY <1>1, <1>4, <2>1, OccursConcat
    <2>3. Occurs(s, p, open) /\ Occurs(s, p + Len(open), body)
      BY <1>4, <2>2, OccursConcat
    <2>4. p + Len(open \o body) = p + 1 + Len(body)
      BY <2>1
    <2> QED
      BY <1>1, <1>4, <2>1, <2>2, <2>3, <2>4
  <1> DEFINE end == p + 1 + Len(body)
  <1>6. CharOf(s, p) = "quote" /\ CharOf(s, end) = "quote" /\ end \in p + 1 .. Len(s)
        /\ Len(body) \in Nat
    <2>1. Len(body) \in Nat /\ end \in Nat /\ Len(s) \in Nat
      BY <1>4
    <2>2. s[p + 1] = "quote" /\ p + 1 <= Len(s)
      BY <1>4, <1>5 DEF Occurs
    <2>3. s[end + 1] = "quote" /\ end + 1 <= Len(s)
      BY <1>4, <1>5, <2>1 DEF Occurs
    <2> HIDE DEF end
    <2>4. p < Len(s) /\ end < Len(s)
      BY <2>1, <2>2, <2>3
    <2>5. end >= p + 1
      BY <2>1 DEF end
    <2> QED
      BY <2>1, <2>2, <2>3, <2>4, <2>5 DEF CharOf
  <1>7. PICK pos : LaidOut(s, p + 1, xs, pos) /\ pos[n + 1] = end
    BY <1>3, <1>4, <1>5, FlattenIn DEF body
  <1>8. PICK f : IsScan(s, p + 1, f) /\ QuotedIn(s, p + 1) = f[p + 1]
    BY <1>6, QuotedScans
  <1> HIDE DEF end
  <1>9. /\ \A i \in 1 .. n + 1 : pos[i] \in Nat
        /\ \A i \in 1 .. n : /\ pos[i + 1] = pos[i] + Len(Spell(t[i]))
                             /\ Occurs(s, pos[i], Spell(t[i]))
    BY <1>2, <1>3, <1>7 DEF LaidOut, xs
  <1> DEFINE Read(i) == pos[i] >= p + 1 /\ f[pos[i]] = [end |-> end, text |-> SubSeq(t, i, n)]
             B == {k \in Nat : k > n \/ Read(n + 1 - k)}
             L == {k \in Nat : k > n \/ pos[k + 1] >= p + 1}
  <1>10. \A i \in 1 .. n + 1 : pos[i] >= p + 1
    <2>1. 0 \in L
      BY <1>7 DEF LaidOut
    <2>2. ASSUME NEW k \in Nat, k \in L PROVE k + 1 \in L
      <3>1. CASE k + 1 > n
        BY <3>1
      <3>2. CASE k + 1 <= n
        <4>1. k + 1 \in 1 .. n /\ pos[k + 1] >= p + 1 /\ pos[k + 1] \in Nat
          BY <1>2, <1>9, <2>2, <3>2
        <4>2. pos[(k + 1) + 1] = pos[k + 1] + Len(Spell(t[k + 1])) /\ Len(Spell(t[k + 1])) \in Nat
          BY <1>2, <1>9, <4>1
        <4> QED
          BY <4>1, <4>2
      <3> QED
        BY <1>2, <3>1, <3>2
    <2> HIDE DEF L
    <2>3. \A k \in Nat : k \in L
      BY <2>1, <2>2, NumbersByInduction
    <2>4. ASSUME NEW i \in 1 .. n + 1 PROVE pos[i] >= p + 1
      <3>1. i - 1 \in Nat /\ ~(i - 1 > n) /\ (i - 1) + 1 = i
        BY <1>2
      <3>2. i - 1 \in L
        BY <2>3, <3>1
      <3> QED
        BY <3>1, <3>2 DEF L
    <2> QED
      BY <2>4
  <1>11. \A q \in p + 1 .. Len(s) : f[q] = Scan(s, f, q) /\ q \in 0 .. Len(s)
    <2>1. \A q \in p + 1 .. Len(s) : f[q] = Scan(s, f, q)
      BY <1>8 DEF IsScan
    <2> QED
      BY <2>1
  <1>12. Read(n + 1)
    <2>1. f[end] = Scan(s, f, end)
      BY <1>6, <1>11
    <2>2. StringEnds(s, end)
      BY <1>6 DEF StringEnds
    <2>3. f[end] = [end |-> end, text |-> <<>>]
      BY <2>1, <2>2 DEF Scan
    <2>4. SubSeq(t, n + 1, n) = <<>>
      BY <1>2
    <2> QED
      BY <1>2, <1>7, <1>10, <2>3, <2>4
  <1>13. ASSUME NEW i \in 1 .. n, Read(i + 1) PROVE Read(i)
    <2> DEFINE q == pos[i]
    <2>1. /\ i + 1 \in 1 .. n + 1 /\ i \in 1 .. n + 1 /\ q \in Nat /\ q >= p + 1
          /\ t[i] \in Pieces /\ Occurs(s, q, Spell(t[i]))
          /\ pos[i + 1] = q + Len(Spell(t[i])) /\ Spell(t[i]) \in Seq(Pieces)
      BY <1>2, <1>9, <1>10
    <2>2. q \in p + 1 .. Len(s)
      <3>1. Len(Spell(t[i])) \in Nat /\ q + Len(Spell(t[i])) <= Len(s)
        BY <2>1 DEF Occurs
      <3> QED
        BY <2>1, <3>1
    <2>3. ~StringEnds(s, q) /\ LetterAt(s, q) = t[i] /\ NextInString(s, q) = pos[i + 1]
      BY <2>1, SpellScans
    <2>4. f[q] = Scan(s, f, q)
      BY <1>11, <2>2
    <2>5. f[q] = [end |-> f[pos[i + 1]].end, text |-> <<t[i]>> \o f[pos[i + 1]].text]
      BY <2>3, <2>4 DEF Scan
    <2>6. f[q] = [end |-> end, text |-> <<t[i]>> \o SubSeq(t, i + 1, n)]
      BY <1>13, <2>5
    <2>7. <<t[i]>> \o SubSeq(t, i + 1, n) = SubSeq(t, i, n)
      <3>1. i \in 1 .. Len(t) /\ n \in i .. Len(t)
        BY <1>2
      <3> QED
        BY <3>1, SubSeqRecursiveFirst
    <2> QED
      BY <2>1, <2>6, <2>7
  <1> HIDE DEF Read
  <1>14. Read(1)
    <2>1. 0 \in B
      BY <1>2, <1>12
    <2>2. ASSUME NEW k \in Nat, k \in B PROVE k + 1 \in B
      <3>1. CASE k + 1 > n
        BY <3>1
      <3>2. CASE k + 1 <= n
        <4>1. PICK i \in 1 .. n : i = n + 1 - (k + 1) /\ i + 1 = n + 1 - k
          BY <1>2, <3>2
        <4>2. Read(i + 1)
          BY <1>2, <2>2, <3>2, <4>1
        <4> QED
          BY <1>13, <4>1, <4>2
      <3> QED
        BY <1>2, <3>1, <3>2
    <2> HIDE DEF B
    <2>3. n \in B
      BY <1>2, <2>1, <2>2, NumbersByInduction
    <2>4. n + 1 - n = 1 /\ ~(n > n)
      BY <1>2
    <2> QED
      BY <2>3, <2>4 DEF B
  <1>15. pos[1] = p + 1 /\ SubSeq(t, 1, n) = t
    BY <1>7 DEF LaidOut
  <1>16. p + Len(String(t).text) - 1 = end
    BY <1>5, <1>6 DEF end
  <1> QED
    BY <1>6, <1>8, <1>14, <1>15, <1>16 DEF Read

-----------------------------------------------------------------------------
(* The lexemes, typed.                                                        *)

LexemeSet == {e \in [text : Seq(Pieces), tokens : Seq(Tokens)] : IsLexeme(e)}

\* A token that makes a lexeme up.
LEMMA TokenTyped ==
  ASSUME NEW type \in TokenTypes, NEW v \in Seq(Pieces)
  PROVE  /\ Token(type, v) \in Seq(Tokens) /\ Len(Token(type, v)) = 1
         /\ Token(type, v)[1] = [type |-> type, value |-> v]
  <1>1. [type |-> type, value |-> v] \in Tokens
    BY DEF Tokens
  <1> QED
    BY <1>1 DEF Token

\* Words and numbers are text.
LEMMA LettersAndDigits ==
  /\ Letters \cup Digits \cup {"."} \cup Symbols \subseteq Pieces
  /\ Symbols \subseteq TokenTypes /\ "/" \in Pieces \ {"newline"} /\ "newline" \in Pieces
  /\ "none" \notin Pieces /\ "quote" \in Pieces /\ "blank" \in Pieces
  BY DEF Pieces, Letters, Digits, Symbols, TokenTypes

\* A lexeme has its parts.
LEMMA LexemeParts ==
  ASSUME NEW text, NEW toks
  PROVE  /\ Lexeme(text, toks).text = text /\ Lexeme(text, toks).tokens = toks
         /\ text \in Seq(Pieces) /\ toks \in Seq(Tokens) =>
              Lexeme(text, toks) \in [text : Seq(Pieces), tokens : Seq(Tokens)]
  BY DEF Lexeme

\* A string is a lexeme of text and one token.
LEMMA StringTyped ==
  ASSUME NEW t \in Seq(Pieces)
  PROVE  String(t).text \in Seq(Pieces) /\ Len(String(t).text) >= 2
         /\ String(t).text[1] = "quote" /\ String(t).tokens = Token("string", t)
  <1> DEFINE xs == [i \in 1 .. Len(t) |-> Spell(t[i])]
             body == FlattenSeq(xs)
             open == <<"quote">>
  <1>1. Len(t) \in Nat /\ \A i \in 1 .. Len(t) : t[i] \in Pieces /\ Spell(t[i]) \in Seq(Pieces)
    <2>1. "backslash" \in Pieces /\ "n" \in Pieces
      BY DEF Pieces, Letters
    <2>2. \A c \in Pieces : Spell(c) \in Seq(Pieces)
      BY <2>1 DEF Spell
    <2> QED
      BY <2>2
  <1>2. xs \in Seq(Seq(Pieces)) /\ String(t).text = (open \o body) \o open
        /\ String(t).tokens = Token("string", t)
    BY <1>1 DEF String, Lexeme
  <1>3. open \in Seq(Pieces) /\ Len(open) = 1 /\ open[1] = "quote"
    BY LettersAndDigits
  <1> HIDE DEF xs, open
  <1>4. body \in Seq(Pieces)
    BY <1>2, FlattenLays
  <1> HIDE DEF body
  <1>5. open \o body \in Seq(Pieces) /\ Len(open \o body) = 1 + Len(body)
        /\ Len(body) \in Nat /\ (open \o body)[1] = "quote"
    <2>1. /\ open \o body \in Seq(Pieces) /\ Len(open \o body) = Len(open) + Len(body)
          /\ \A i \in 1 .. Len(open) + Len(body) :
               (open \o body)[i] = IF i <= Len(open) THEN open[i] ELSE body[i - Len(open)]
          /\ Len(body) \in Nat
      BY <1>3, <1>4, ConcatProperties, LenProperties
    <2> QED
      BY <1>3, <2>1
  <1>6. (open \o body) \o open \in Seq(Pieces) /\ Len((open \o body) \o open) >= 2
        /\ ((open \o body) \o open)[1] = "quote"
    BY <1>3, <1>5
  <1> QED
    BY <1>2, <1>6

\* A lexeme has a first character and at most one token, which is not the end token.
LEMMA LexemeTyped ==
  ASSUME NEW e, IsLexeme(e)
  PROVE  /\ e \in LexemeSet /\ Len(e.text) >= 1 /\ Head(e.text) = e.text[1]
         /\ \A i \in 1 .. Len(e.tokens) : e.tokens[i].type # "eof"
  <1> DEFINE Fine(d) ==
               /\ d.text \in Seq(Pieces) /\ d.tokens \in Seq(Tokens) /\ Len(d.text) >= 1
               /\ Head(d.text) = d.text[1]
               /\ \A i \in 1 .. Len(d.tokens) : d.tokens[i].type # "eof"
               /\ d \in [text : Seq(Pieces), tokens : Seq(Tokens)]
  <1>1. ASSUME NEW text \in Seq(Pieces), text # <<>>, NEW type \in TokenTypes \ {"eof"},
               NEW v \in Seq(Pieces)
        PROVE  Fine(Lexeme(text, Token(type, v)))
    <2>1. Len(text) >= 1 /\ Head(text) = text[1]
      BY <1>1
    <2>2. Token(type, v) \in Seq(Tokens) /\ \A i \in 1 .. Len(Token(type, v)) :
            Token(type, v)[i].type # "eof"
      <3>0. type \in TokenTypes
        OBVIOUS
      <3>1. Token(type, v)[1] = [type |-> type, value |-> v] /\ Len(Token(type, v)) = 1
            /\ Token(type, v) \in Seq(Tokens)
        BY <3>0, TokenTyped
      <3>2. \A i \in 1 .. 1 : i = 1
        OBVIOUS
      <3> QED
        BY <1>1, <3>1, <3>2
    <2> QED
      BY <2>1, <2>2, LexemeParts
  <1>2. ASSUME IsBlank(e) PROVE Fine(e)
    <2> DEFINE x == e.text
    <2>1. x \in Seq(Pieces) /\ e = Lexeme(x, <<>>)
      BY <1>2 DEF IsBlank
    <2>2. Len(x) >= 1
      <3>1. CASE x = <<"blank">>
        BY <3>1
      <3>2. CASE IsBlockComment(x)
        BY <2>1, <3>2 DEF IsBlockComment
      <3>3. CASE IsLineComment(x)
        BY <2>1, <3>3 DEF IsLineComment
      <3> QED
        BY <1>2, <3>1, <3>2, <3>3 DEF IsBlank
    <2> HIDE DEF x
    <2>3. <<>> \in Seq(Tokens) /\ Head(x) = x[1] /\ 1 .. Len(<<>>) = {}
      BY <2>1, <2>2
    <2>4. e.text = x /\ e.tokens = <<>> /\ e \in [text : Seq(Pieces), tokens : Seq(Tokens)]
      BY <2>1, <2>3, LexemeParts
    <2> QED
      BY <2>1, <2>2, <2>3, <2>4
  <1>3. ASSUME NEW w, IsWord(w), e = Word(w) PROVE Fine(e)
    <2>1. w \in Seq(Pieces) /\ w # <<>>
      BY <1>3, LettersAndDigits DEF IsWord
    <2>2. WordType(w) \in TokenTypes \ {"eof"}
      BY DEF WordType, TokenTypes
    <2> QED
      BY <1>1, <1>3, <2>1, <2>2 DEF Word
  <1>4. ASSUME NEW n, IsNumber(n), e = Number(n) PROVE Fine(e)
    <2>1. n \in Seq(Pieces) /\ n # <<>>
      BY <1>4, LettersAndDigits DEF IsNumber
    <2>2. "number" \in TokenTypes \ {"eof"}
      BY DEF TokenTypes
    <2> QED
      BY <1>1, <1>4, <2>1, <2>2 DEF Number
  <1>5. ASSUME NEW c \in Symbols, e = Symbol(c) PROVE Fine(e)
    <2>1. <<c>> \in Seq(Pieces) /\ <<c>> # <<>>
      BY LettersAndDigits
    <2>2. c \in TokenTypes \ {"eof"}
      BY DEF TokenTypes, Symbols
    <2> QED
      BY <1>1, <1>5, <2>1, <2>2 DEF Symbol
  <1>6. ASSUME NEW t \in Seq(Pieces), e = String(t) PROVE Fine(e)
    <2> DEFINE x == String(t).text
    <2>1. e = Lexeme(x, Token("string", t))
      BY <1>6, LexemeParts DEF String
    <2>2. x \in Seq(Pieces) /\ x # <<>>
      <3>1. x \in Seq(Pieces) /\ Len(x) >= 2
        BY StringTyped
      <3> HIDE DEF x
      <3> QED
        BY <3>1
    <2>3. "string" \in TokenTypes \ {"eof"}
      BY DEF TokenTypes
    <2> QED
      BY <1>1, <2>1, <2>2, <2>3
  <1> HIDE DEF Fine
  <1>7. Fine(e)
    BY <1>2, <1>3, <1>4, <1>5, <1>6 DEF IsLexeme
  <1> QED
    BY <1>7 DEF Fine, LexemeSet

-----------------------------------------------------------------------------
(* Where the lexer comes to the end of a lexeme.                              *)

\* A comment is stepped over; one in a line, if the line ends behind it.
LEMMA BlockCommentEnds ==
  ASSUME NEW s \in Seq(Pieces), NEW p \in Nat, NEW x \in Seq(Pieces), Occurs(s, p, x),
         IsBlockComment(x)
  PROVE  Lexed(s, p) = <<p + Len(x), <<>>>> /\ CharOf(s, p) = "/"
  <1> DEFINE n == Len(s)
             k == Len(x)
             Closes(q) == CharOf(s, q) = "*" /\ CharOf(s, q + 1) = "/"
             Q == {q \in p + 2 .. n : q + 1 >= n \/ Closes(q)}
             end == p + k - 2
  <1>1. /\ n \in Nat /\ k \in Nat /\ k >= 4 /\ p + k \in 0 .. n
        /\ \A i \in 1 .. k : CharOf(s, p + i - 1) = x[i]
    BY OccursChar DEF IsBlockComment
  <1>2. CharOf(s, p) = "/" /\ CharOf(s, p + 1) = "*"
    <2>1. 1 \in 1 .. k /\ 2 \in 1 .. k /\ p + 1 - 1 = p /\ p + 2 - 1 = p + 1
      BY <1>1
    <2>2. CharOf(s, p + 1 - 1) = x[1] /\ CharOf(s, p + 2 - 1) = x[2]
      BY <1>1, <2>1
    <2>3. x[1] = "/" /\ x[2] = "*"
      BY DEF IsBlockComment
    <2> QED
      BY <2>1, <2>2, <2>3
  <1>3. Closes(end)
    <2>1. k - 1 \in 1 .. k /\ k \in 1 .. k /\ p + (k - 1) - 1 = end /\ p + k - 1 = end + 1
      BY <1>1
    <2>2. CharOf(s, p + (k - 1) - 1) = x[k - 1] /\ CharOf(s, p + k - 1) = x[k]
      BY <1>1, <2>1
    <2>3. x[k - 1] = "*" /\ x[k] = "/"
      BY DEF IsBlockComment
    <2> QED
      BY <2>1, <2>2, <2>3
  <1>4. ASSUME NEW q \in p + 2 .. end - 1 PROVE ~Closes(q) /\ q + 1 < n
    <2> DEFINE i == q - p + 1
    <2>1. i \in 3 .. k - 2 /\ i \in 1 .. k /\ i + 1 \in 1 .. k /\ p + i - 1 = q
          /\ p + (i + 1) - 1 = q + 1 /\ q + 1 < n
      BY <1>1
    <2>2. ~(x[i] = "*" /\ x[i + 1] = "/")
      BY <2>1 DEF IsBlockComment
    <2> HIDE DEF i
    <2>3. CharOf(s, p + i - 1) = x[i] /\ CharOf(s, p + (i + 1) - 1) = x[i + 1]
      BY <1>1, <2>1
    <2> QED
      BY <2>1, <2>2, <2>3
  <1>5. end \in p + 2 .. n /\ end + 1 < n /\ end + 2 = p + k
    BY <1>1
  <1> HIDE DEF Closes, end
  <1>6. Q \in SUBSET Nat /\ end \in Q
    BY <1>1, <1>3, <1>5
  <1>7. Least(Q) \in Q /\ \A q \in Q : Least(Q) <= q
    BY <1>6, LeastIsLeast
  <1>8. Least(Q) = end
    <2>1. Least(Q) \in p + 2 .. n /\ (Least(Q) + 1 >= n \/ Closes(Least(Q)))
          /\ Least(Q) <= end
      BY <1>6, <1>7
    <2> HIDE DEF Q
    <2>2. CASE Least(Q) # end
      <3>1. Least(Q) \in p + 2 .. end - 1
        BY <1>1, <1>5, <2>1, <2>2
      <3>2. ~Closes(Least(Q)) /\ Least(Q) + 1 < n
        BY <1>4, <3>1
      <3> QED
        BY <1>1, <2>1, <3>2
    <2> QED
      BY <2>2
  <1>9. CommentEnd(s, p) = IF Least(Q) + 1 < n THEN Least(Q) + 2 ELSE Least(Q)
    BY DEF CommentEnd, Closes
  <1>10. CommentEnd(s, p) = p + k
    BY <1>5, <1>8, <1>9
  <1>11. Lexed(s, p) = <<CommentEnd(s, p), <<>>>>
    BY <1>2 DEF Lexed, SlashFrom
  <1> QED
    BY <1>2, <1>10, <1>11

LEMMA LineCommentEnds ==
  ASSUME NEW s \in Seq(Pieces), NEW p \in Nat, NEW x \in Seq(Pieces), Occurs(s, p, x),
         IsLineComment(x), CharOf(s, p + Len(x)) \in {"newline", "none"}
  PROVE  Lexed(s, p) = <<p + Len(x), <<>>>> /\ CharOf(s, p) = "/"
  <1> DEFINE k == Len(x)
             S == Pieces \ {"newline"}
  <1>1. /\ k \in Nat /\ k >= 2 /\ p + k \in 0 .. Len(s) /\ Len(s) \in Nat
        /\ \A i \in 1 .. k : s[p + i] = x[i] /\ CharOf(s, p + i - 1) = x[i]
    BY OccursChar DEF IsLineComment
  <1>2. CharOf(s, p) = "/" /\ CharOf(s, p + 1) = "/"
    <2>1. 1 \in 1 .. k /\ 2 \in 1 .. k /\ p + 1 - 1 = p /\ p + 2 - 1 = p + 1
      BY <1>1
    <2>2. CharOf(s, p + 1 - 1) = x[1] /\ CharOf(s, p + 2 - 1) = x[2]
      BY <1>1, <2>1
    <2>3. x[1] = "/" /\ x[2] = "/"
      BY DEF IsLineComment
    <2> QED
      BY <2>1, <2>2, <2>3
  <1>3. \A q \in p + 1 .. p + k : s[q] \in S
    <2> SUFFICES ASSUME NEW q \in p + 1 .. p + k PROVE s[q] \in S
      OBVIOUS
    <2>1. PICK i \in 1 .. k : q = p + i
      BY <1>1
    <2>2. s[q] = x[i] /\ x[i] \in Pieces
      BY <1>1, <2>1
    <2>3. x[i] # "newline"
      BY DEF IsLineComment
    <2> QED
      BY <2>2, <2>3
  <1>4. CharOf(s, p + k) \notin S
    BY LettersAndDigits
  <1> HIDE DEF S
  <1>5. RunEnd(s, p, S) = p + k
    <2>1. p + k \in p .. Len(s)
      BY <1>1
    <2> QED
      BY <1>3, <1>4, <2>1, RunEndIs
  <1>6. Lexed(s, p) = <<RunEnd(s, p, S), <<>>>>
    BY <1>2 DEF Lexed, SlashFrom, S
  <1> QED
    BY <1>2, <1>5, <1>6

\* A run of characters of S that ends there, as a stretch of the source.
LEMMA RunOccurs ==
  ASSUME NEW s \in Seq(Pieces), NEW p \in Nat, NEW x \in Seq(Pieces), Occurs(s, p, x),
         Len(x) >= 1, NEW S, \A i \in 1 .. Len(x) : x[i] \in S,
         CharOf(s, p + Len(x)) \notin S
  PROVE  /\ RunEnd(s, p, S) = p + Len(x) /\ SubSeq(s, p + 1, p + Len(x)) = x
         /\ CharOf(s, p) = x[1]
  <1> DEFINE k == Len(x)
  <1>1. /\ k \in Nat /\ p + k \in p .. Len(s) /\ SubSeq(s, p + 1, p + k) = x
        /\ \A i \in 1 .. k : s[p + i] = x[i] /\ CharOf(s, p + i - 1) = x[i]
    BY OccursChar
  <1>2. \A q \in p + 1 .. p + k : s[q] \in S
    <2> SUFFICES ASSUME NEW q \in p + 1 .. p + k PROVE s[q] \in S
      OBVIOUS
    <2>1. PICK i \in 1 .. k : q = p + i
      BY <1>1
    <2> QED
      BY <1>1, <2>1
  <1>3. CharOf(s, p) = x[1]
    <2>1. 1 \in 1 .. k /\ p + 1 - 1 = p
      BY <1>1
    <2> QED
      BY <1>1, <2>1
  <1> QED
    BY <1>1, <1>2, <1>3, RunEndIs

\* A word is read to its end, and so is a number, a mark and a string.
LEMMA WordEnds ==
  ASSUME NEW s \in Seq(Pieces), NEW p \in Nat, NEW w, IsWord(w), Occurs(s, p, w),
         CharOf(s, p + Len(w)) \notin Letters \cup Digits
  PROVE  /\ Lexed(s, p) = <<p + Len(w), Token(WordType(w), w)>>
         /\ CharOf(s, p) \in Letters
  <1>1. w \in Seq(Pieces) /\ Len(w) >= 1 /\ w[1] \in Letters
        /\ \A i \in 1 .. Len(w) : w[i] \in Letters \cup Digits
    <2>1. w \in Seq(Letters \cup Digits) /\ w # <<>> /\ Head(w) \in Letters
      BY DEF IsWord
    <2> QED
      BY <2>1, LettersAndDigits
  <1>2. /\ RunEnd(s, p, Letters \cup Digits) = p + Len(w)
        /\ SubSeq(s, p + 1, p + Len(w)) = w /\ CharOf(s, p) = w[1]
    BY <1>1, RunOccurs
  <1>3. CharOf(s, p) \in Letters /\ CharOf(s, p) # "/"
    BY <1>1, <1>2 DEF Letters
  <1> QED
    BY <1>2, <1>3 DEF Lexed, WordFrom

LEMMA NumberEnds ==
  ASSUME NEW s \in Seq(Pieces), NEW p \in Nat, NEW n, IsNumber(n), Occurs(s, p, n),
         CharOf(s, p + Len(n)) \notin Digits \cup {"."}
  PROVE  /\ Lexed(s, p) = <<p + Len(n), Token("number", n)>>
         /\ CharOf(s, p) \in Digits
  <1>1. n \in Seq(Pieces) /\ Len(n) >= 1 /\ n[1] \in Digits
        /\ \A i \in 1 .. Len(n) : n[i] \in Digits \cup {"."}
    <2>1. n \in Seq(Digits \cup {"."}) /\ n # <<>> /\ Head(n) \in Digits
      BY DEF IsNumber
    <2> QED
      BY <2>1, LettersAndDigits
  <1>2. /\ RunEnd(s, p, Digits \cup {"."}) = p + Len(n)
        /\ SubSeq(s, p + 1, p + Len(n)) = n /\ CharOf(s, p) = n[1]
    BY <1>1, RunOccurs
  <1>3. CharOf(s, p) \in Digits /\ CharOf(s, p) \notin Letters \cup {"/", "quote"}
    BY <1>1, <1>2 DEF Letters, Digits
  <1> QED
    BY <1>2, <1>3 DEF Lexed, NumberFrom

LEMMA SymbolEnds ==
  ASSUME NEW s \in Seq(Pieces), NEW p \in Nat, NEW c \in Symbols, Occurs(s, p, <<c>>)
  PROVE  Lexed(s, p) = <<p + 1, Token(c, <<c>>)>> /\ CharOf(s, p) = c
  <1>1. CharOf(s, p) = c
    <2>1. p + 1 <= Len(s) /\ s[p + 1] = c
      BY DEF Occurs
    <2> QED
      BY <2>1 DEF CharOf
  <1>2. c \notin Letters \cup Digits \cup {"/", "quote"}
    BY DEF Letters, Digits, Symbols
  <1> QED
    BY <1>1, <1>2 DEF Lexed

LEMMA StringCloses ==
  ASSUME NEW s \in Seq(Pieces), NEW p \in Nat, NEW t \in Seq(Pieces),
         Occurs(s, p, String(t).text)
  PROVE  Lexed(s, p) = <<p + Len(String(t).text), Token("string", t)>>
         /\ CharOf(s, p) = "quote"
  <1> DEFINE k == Len(String(t).text)
             q == QuotedIn(s, p + 1)
  <1>1. CharOf(s, p) = "quote" /\ q = [end |-> p + k - 1, text |-> t]
    BY StringScanned
  <1>2. k \in Nat /\ k >= 2 /\ p + k <= Len(s) /\ Len(s) \in Nat
    <2>1. String(t).text \in Seq(Pieces) /\ k >= 2
      BY StringTyped
    <2>2. k \in Nat
      BY <2>1, LenProperties
    <2> QED
      BY <2>1, <2>2 DEF Occurs
  <1>3. Lexed(s, p) = StringFrom(s, p)
    BY <1>1 DEF Lexed, Letters
  <1> HIDE DEF k
  <1>4. q.end = p + k - 1 /\ q.text = t /\ p + k - 1 < Len(s) /\ (p + k - 1) + 1 = p + k
    BY <1>1, <1>2
  <1> HIDE DEF q
  <1>5. StringFrom(s, p) = <<p + k, Token("string", t)>>
    BY <1>4 DEF StringFrom, q
  <1> QED
    BY <1>1, <1>3, <1>5 DEF k

\* A lexeme that is followed by what it does not go on with is read as its tokens.
LEMMA LexemeLexes ==
  ASSUME NEW s \in Seq(Pieces), NEW p \in Nat, NEW e, IsLexeme(e), e.text # <<"blank">>,
         Occurs(s, p, e.text), EndsAt(e, CharOf(s, p + Len(e.text)))
  PROVE  /\ Lexed(s, p) = <<p + Len(e.text), e.tokens>>
         /\ CharOf(s, p) \notin {"none", "blank"}
  <1> DEFINE c == CharOf(s, p + Len(e.text))
  <1>1. e.text \in Seq(Pieces) /\ Head(e.text) = e.text[1] /\ Len(e.text) >= 1
    BY LexemeTyped DEF LexemeSet
  <1>2. CASE IsBlank(e)
    <2>1. e.tokens = <<>>
      <3> DEFINE x == e.text
      <3>1. e = Lexeme(x, <<>>)
        BY <1>2 DEF IsBlank
      <3> HIDE DEF x
      <3> QED
        BY <3>1, LexemeParts
    <2>2. CASE IsBlockComment(e.text)
      BY <1>1, <2>1, <2>2, BlockCommentEnds
    <2>3. CASE IsLineComment(e.text)
      <3>1. c \in {"newline", "none"}
        BY <2>3 DEF EndsAt
      <3> QED
        BY <1>1, <2>1, <2>3, <3>1, LineCommentEnds
    <2> QED
      BY <1>2, <2>2, <2>3 DEF IsBlank
  <1>3. ASSUME NEW w, IsWord(w), e = Word(w)
        PROVE  /\ Lexed(s, p) = <<p + Len(e.text), e.tokens>>
               /\ CharOf(s, p) \notin {"none", "blank"}
    <2>1. e.text = w /\ e.tokens = Token(WordType(w), w)
      BY <1>3, LexemeParts DEF Word
    <2>2. c \notin Letters \cup Digits
      BY <1>3, <2>1 DEF EndsAt, IsWord
    <2>3. "none" \notin Letters /\ "blank" \notin Letters
      BY DEF Letters
    <2> QED
      BY <1>3, <2>1, <2>2, <2>3, WordEnds
  <1>4. ASSUME NEW n, IsNumber(n), e = Number(n)
        PROVE  /\ Lexed(s, p) = <<p + Len(e.text), e.tokens>>
               /\ CharOf(s, p) \notin {"none", "blank"}
    <2>1. e.text = n /\ e.tokens = Token("number", n)
      BY <1>4, LexemeParts DEF Number
    <2>2. c \notin Digits \cup {"."}
      BY <1>4, <2>1 DEF EndsAt, IsNumber
    <2>3. "none" \notin Digits /\ "blank" \notin Digits
      BY DEF Digits
    <2> QED
      BY <1>4, <2>1, <2>2, <2>3, NumberEnds
  <1>5. ASSUME NEW d \in Symbols, e = Symbol(d)
        PROVE  /\ Lexed(s, p) = <<p + Len(e.text), e.tokens>>
               /\ CharOf(s, p) \notin {"none", "blank"}
    <2>1. e.text = <<d>> /\ e.tokens = Token(d, <<d>>) /\ Len(<<d>>) = 1
      BY <1>5, LexemeParts DEF Symbol
    <2>2. "none" \notin Symbols /\ "blank" \notin Symbols
      BY DEF Symbols
    <2> QED
      BY <2>1, <2>2, SymbolEnds
  <1>6. ASSUME NEW t \in Seq(Pieces), e = String(t)
        PROVE  /\ Lexed(s, p) = <<p + Len(e.text), e.tokens>>
               /\ CharOf(s, p) \notin {"none", "blank"}
    BY <1>6, StringTyped, StringCloses
  <1> QED
    BY <1>2, <1>3, <1>4, <1>5, <1>6 DEF IsLexeme

-----------------------------------------------------------------------------
(* Lenient compiling that strict parsing would go along with.                 *)

\* Lenient compiling of s comes through c, and strict parsing does not give up before.
Clean(s, c) ==
  Reached(s, c) /\ \E H : Path(s, c, H) /\ \A d \in H \ {c} : ~Rejects(d)

\* Clean places are the start and what the successor makes of clean places.
LEMMA CleanStart == ASSUME NEW s PROVE Clean(s, Start)
  <1>1. Path(s, Start, {Start})
    BY DEF Path
  <1> QED
    BY <1>1, ReachedStart DEF Clean

LEMMA CleanStep ==
  ASSUME NEW s, NEW c, Clean(s, c), ~Done(c), ~Rejects(c)
  PROVE  Clean(s, Successor(s, c))
  <1>1. PICK H : Path(s, c, H) /\ \A d \in H \ {c} : ~Rejects(d)
    BY DEF Clean
  <1>2. Path(s, Successor(s, c), H \cup {Successor(s, c)})
    BY <1>1 DEF Path
  <1>3. \A d \in (H \cup {Successor(s, c)}) \ {Successor(s, c)} : ~Rejects(d)
    BY <1>1
  <1> QED
    BY <1>2, <1>3, ReachedStep DEF Clean

\* If a clean place is where the source ends, strict parsing gives up nowhere.
LEMMA CleanEnd ==
  ASSUME NEW s, NEW c, Clean(s, c), Done(c), NEW d, Reached(s, d)
  PROVE  ~Rejects(d)
  <1>1. PICK H : Path(s, c, H) /\ \A e \in H \ {c} : ~Rejects(e)
    BY DEF Clean
  <1>2. Closed(s, H)
    BY <1>1 DEF Path, Closed
  <1>3. d \in H
    BY <1>2 DEF Reached
  <1>4. ~Rejects(c)
    BY DEF Done, Rejects
  <1> QED
    BY <1>1, <1>3, <1>4

-----------------------------------------------------------------------------
(* Lexing a text of lexemes.                                                  *)

\* The lexer has read the source up to p but for blanks, and made the tokens t.
LexedUpTo(s, p, t) ==
  \E q \in 0 .. p : /\ Clean(s, <<"lexing", q, t, <<>>, NoNode>>)
                    /\ \A r \in q + 1 .. p : s[r] = "blank"

\* One round of the lexer reads the next lexeme.
LEMMA LexesLexeme ==
  ASSUME NEW s \in Seq(Pieces), NEW p \in Nat, NEW t \in Seq(Tokens), LexedUpTo(s, p, t),
         NEW e, IsLexeme(e), Occurs(s, p, e.text), EndsAt(e, CharOf(s, p + Len(e.text)))
  PROVE  LexedUpTo(s, p + Len(e.text), t \o e.tokens)
  <1>1. PICK q \in 0 .. p : /\ Clean(s, <<"lexing", q, t, <<>>, NoNode>>)
                            /\ \A r \in q + 1 .. p : s[r] = "blank"
    BY DEF LexedUpTo
  <1> DEFINE c == <<"lexing", q, t, <<>>, NoNode>>
             n == p + Len(e.text)
  <1>2. e.text \in Seq(Pieces) /\ Len(e.text) \in Nat /\ n \in 0 .. Len(s) /\ n >= p
    <2>1. e.text \in Seq(Pieces)
      BY LexemeTyped DEF LexemeSet
    <2> QED
      BY <2>1, OccursChar
  <1>3. CASE e.text = <<"blank">>
    <2>1. Len(e.text) = 1 /\ s[p + 1] = "blank"
      <3>1. Occurs(s, p, <<"blank">>)
        BY <1>3
      <3> QED
        BY <1>3, <3>1 DEF Occurs
    <2>2. e.tokens = <<>>
      <3>1. IsBlank(e)
        <4>1. ~IsWord(<<"blank">>) /\ ~IsNumber(<<"blank">>) /\ "blank" \notin Symbols
          BY DEF IsWord, IsNumber, Letters, Digits, Symbols
        <4>2. ~\E w : IsWord(w) /\ e = Word(w)
          BY <1>3, <4>1, LexemeParts DEF Word
        <4>3. ~\E m : IsNumber(m) /\ e = Number(m)
          BY <1>3, <4>1, LexemeParts DEF Number
        <4>4. ~\E d \in Symbols : e = Symbol(d)
          <5>1. ASSUME NEW d \in Symbols, e = Symbol(d) PROVE FALSE
            <6>1. <<d>> = <<"blank">>
              BY <1>3, <5>1, LexemeParts DEF Symbol
            <6>2. d = "blank"
              BY <6>1
            <6> QED
              BY <4>1, <6>2
          <5> QED
            BY <5>1
        <4>5. ~\E x \in Seq(Pieces) : e = String(x)
          <5>1. ASSUME NEW x \in Seq(Pieces), e = String(x) PROVE FALSE
            <6>1. e.text[1] = "quote"
              BY <5>1, StringTyped
            <6> QED
              BY <1>3, <6>1
          <5> QED
            BY <5>1
        <4> QED
          BY <4>2, <4>3, <4>4, <4>5 DEF IsLexeme
      <3> DEFINE x == e.text
      <3>2. e = Lexeme(x, <<>>)
        BY <3>1 DEF IsBlank
      <3> HIDE DEF x
      <3> QED
        BY <3>2, LexemeParts
    <2>3. t \o e.tokens = t
      BY <2>2
    <2>4. q \in 0 .. n /\ \A r \in q + 1 .. n : r \in q + 1 .. p \/ r = p + 1
      BY <1>2, <2>1
    <2>5. \A r \in q + 1 .. n : s[r] = "blank"
      BY <1>1, <2>1, <2>4
    <2> HIDE DEF n
    <2> QED
      BY <1>1, <2>3, <2>4, <2>5 DEF LexedUpTo, n
  <1>4. CASE e.text # <<"blank">>
    <2>1. Lexed(s, p) = <<n, e.tokens>> /\ CharOf(s, p) \notin {"none", "blank"}
      BY <1>4, LexemeLexes
    <2>2. StartOf(s, q) = p
      <3>1. q \in Nat /\ p \in q .. Len(s)
        BY <1>2
      <3>2. \A r \in q + 1 .. p : s[r] \in {"blank"}
        BY <1>1
      <3> QED
        BY <2>1, <3>1, <3>2, RunEndIs DEF StartOf
    <2>3. Successor(s, c) = <<"lexing", n, t \o e.tokens, <<>>, NoNode>>
      <3>1. c[1] = "lexing" /\ c[2] = q /\ c[3] = t /\ c[4] = <<>> /\ c[5] = NoNode
        OBVIOUS
      <3>2. Lexed(s, p)[1] = n /\ Lexed(s, p)[2] = e.tokens /\ CharOf(s, p) # "none"
        BY <2>1
      <3> HIDE DEF c, n
      <3> QED
        BY <2>2, <3>1, <3>2 DEF Successor, LexStep
    <2>4. ~Done(c) /\ ~Rejects(c)
      BY DEF Done, Rejects
    <2>5. Clean(s, Successor(s, c))
      BY <1>1, <2>4, CleanStep
    <2>6. n \in 0 .. n /\ \A r \in n + 1 .. n : s[r] = "blank"
      BY <1>2
    <2> HIDE DEF n
    <2> QED
      BY <2>3, <2>5, <2>6 DEF LexedUpTo, n
  <1> QED
    BY <1>3, <1>4

\* At the end of the source the parser begins, on the tokens and the end token.
LEMMA LexesEnd ==
  ASSUME NEW s \in Seq(Pieces), NEW t \in Seq(Tokens), LexedUpTo(s, Len(s), t)
  PROVE  Clean(s, <<"parsing", 0, t \o Token("eof", <<>>), <<>>, NoNode>>)
  <1>1. PICK q \in 0 .. Len(s) : /\ Clean(s, <<"lexing", q, t, <<>>, NoNode>>)
                                 /\ \A r \in q + 1 .. Len(s) : s[r] = "blank"
    BY DEF LexedUpTo
  <1> DEFINE c == <<"lexing", q, t, <<>>, NoNode>>
  <1>2. CharOf(s, Len(s)) = "none"
    BY DEF CharOf
  <1>3. StartOf(s, q) = Len(s)
    <2>1. q \in Nat /\ Len(s) \in q .. Len(s)
      OBVIOUS
    <2>2. \A r \in q + 1 .. Len(s) : s[r] \in {"blank"}
      BY <1>1
    <2>3. CharOf(s, Len(s)) \notin {"blank"}
      BY <1>2
    <2> QED
      BY <2>1, <2>2, <2>3, RunEndIs DEF StartOf
  <1>4. Successor(s, c) = <<"parsing", 0, t \o Token("eof", <<>>), <<>>, NoNode>>
    BY <1>2, <1>3 DEF Successor, LexStep
  <1>5. ~Done(c) /\ ~Rejects(c)
    BY DEF Done, Rejects
  <1> QED
    BY <1>1, <1>4, <1>5, CleanStep

\* What stands behind the first p elements goes on with them.
LEMMA OccursExtends ==
  ASSUME NEW T, NEW t \in Seq(T), NEW p \in Nat, NEW x \in Seq(T), Occurs(t, p, x)
  PROVE  SubSeq(t, 1, p) \in Seq(T) /\ SubSeq(t, 1, p) \o x = SubSeq(t, 1, p + Len(x))
  <1> DEFINE a == SubSeq(t, 1, p)
             b == SubSeq(t, 1, p + Len(x))
  <1>1. Len(x) \in Nat /\ Len(t) \in Nat /\ p + Len(x) <= Len(t)
        /\ \A i \in 1 .. Len(x) : t[p + i] = x[i]
    BY DEF Occurs
  <1>2. a \in Seq(T) /\ Len(a) = p /\ \A i \in 1 .. p : a[i] = t[i]
    BY <1>1
  <1>3. /\ b \in Seq(T) /\ Len(b) = p + Len(x)
        /\ \A i \in 1 .. p + Len(x) : b[i] = t[i]
    BY <1>1
  <1> HIDE DEF a, b
  <1>4. /\ a \o x \in Seq(T) /\ Len(a \o x) = p + Len(x)
        /\ \A i \in 1 .. p + Len(x) : (a \o x)[i] = IF i <= p THEN a[i] ELSE x[i - p]
    BY <1>2, ConcatProperties
  <1>5. ASSUME NEW i \in 1 .. p + Len(x) PROVE (a \o x)[i] = b[i]
    <2>1. CASE i <= p
      <3>1. i \in 1 .. p
        BY <2>1
      <3> QED
        BY <1>2, <1>3, <1>4, <2>1, <3>1
    <2>2. CASE ~(i <= p)
      <3>1. i - p \in 1 .. Len(x) /\ p + (i - p) = i
        BY <1>1, <2>2
      <3>2. t[i] = x[i - p]
        BY <1>1, <3>1
      <3> QED
        BY <1>3, <1>4, <2>2, <3>2
    <2> QED
      BY <2>1, <2>2
  <1> QED
    BY <1>2, <1>3, <1>4, <1>5, SeqEqual DEF a, b

\* The lexemes ls make the tokens of t between p and q.
Spans(t, p, ls, q) ==
  \E w \in [1 .. Len(ls) + 1 -> Nat] :
    /\ w[1] = p /\ w[Len(ls) + 1] = q
    /\ \A i \in 1 .. Len(ls) :
         w[i + 1] = w[i] + Len(ls[i].tokens) /\ Occurs(t, w[i], ls[i].tokens)

AllApart(ls) == \A i \in 1 .. Len(ls) - 1 : Apart(ls[i], ls[i + 1])

EofToken == [type |-> "eof", value |-> <<>>]

\* A lexeme ends where its text does, in a text of lexemes.
LEMMA LexemeEnds ==
  ASSUME NEW s \in Seq(Pieces), NEW p \in Nat, NEW d, NEW e, IsLexeme(e), Apart(d, e),
         Occurs(s, p, e.text)
  PROVE  EndsAt(d, CharOf(s, p))
  <1>1. e.text \in Seq(Pieces) /\ Len(e.text) >= 1 /\ Head(e.text) = e.text[1]
    BY LexemeTyped DEF LexemeSet
  <1>2. CharOf(s, p) = e.text[1]
    <2>1. 1 \in 1 .. Len(e.text) /\ p + 1 - 1 = p
      BY <1>1
    <2>2. CharOf(s, p + 1 - 1) = e.text[1]
      BY <1>1, <2>1, OccursChar
    <2> QED
      BY <2>1, <2>2
  <1> QED
    BY <1>1, <1>2 DEF Apart, EndsAt

\* The parser begins on the tokens of the lexemes and the end token.
LEMMA TextLexes ==
  ASSUME NEW ls \in Seq(LexemeSet), AllApart(ls)
  PROVE  LET s == FlattenSeq([i \in 1 .. Len(ls) |-> ls[i].text])
         IN \E t \in Seq(Tokens) :
              /\ Spans(t \o <<EofToken>>, 0, ls, Len(t))
              /\ Clean(s, <<"parsing", 0, t \o <<EofToken>>, <<>>, NoNode>>)
  <1> DEFINE n == Len(ls)
             texts == [i \in 1 .. n |-> ls[i].text]
             toks == [i \in 1 .. n |-> ls[i].tokens]
             s == FlattenSeq(texts)
             t == FlattenSeq(toks)
  <1>1. n \in Nat /\ \A i \in 1 .. n : /\ ls[i].text \in Seq(Pieces)
                                       /\ ls[i].tokens \in Seq(Tokens) /\ IsLexeme(ls[i])
    <2>1. \A i \in 1 .. n : ls[i] \in LexemeSet
      OBVIOUS
    <2> QED
      BY <2>1 DEF LexemeSet
  <1>2. /\ texts \in Seq(Seq(Pieces)) /\ Len(texts) = n
        /\ toks \in Seq(Seq(Tokens)) /\ Len(toks) = n
    BY <1>1
  <1> HIDE DEF texts, toks
  <1>3. s \in Seq(Pieces) /\ t \in Seq(Tokens)
    BY <1>2, FlattenLays
  <1>4. PICK pos : LaidOut(s, 0, texts, pos) /\ pos[n + 1] = Len(s)
    BY <1>2, FlattenLays
  <1>5. PICK w : LaidOut(t, 0, toks, w) /\ w[n + 1] = Len(t)
    BY <1>2, FlattenLays
  <1> HIDE DEF s, t
  <1>6. /\ pos[1] = 0 /\ \A i \in 1 .. n + 1 : pos[i] \in Nat
        /\ \A i \in 1 .. n : pos[i + 1] = pos[i] + Len(ls[i].text)
                             /\ Occurs(s, pos[i], ls[i].text)
    BY <1>1, <1>2, <1>4 DEF LaidOut, texts
  <1>7. /\ w \in [1 .. n + 1 -> Nat] /\ w[1] = 0
        /\ \A i \in 1 .. n : w[i + 1] = w[i] + Len(ls[i].tokens)
                             /\ Occurs(t, w[i], ls[i].tokens)
    BY <1>1, <1>2, <1>5 DEF LaidOut, toks
  <1> DEFINE Read(i) == LexedUpTo(s, pos[i], SubSeq(t, 1, w[i]))
             B == {k \in Nat : k > n \/ Read(k + 1)}
  <1>8. Read(1)
    <2>1. SubSeq(t, 1, 0) = <<>>
      BY <1>3
    <2>2. LexedUpTo(s, 0, <<>>)
      <3>1. Clean(s, <<"lexing", 0, <<>>, <<>>, NoNode>>)
        BY CleanStart DEF Start
      <3>2. 0 \in 0 .. 0 /\ 0 + 1 .. 0 = {}
        OBVIOUS
      <3> QED
        BY <3>1, <3>2 DEF LexedUpTo
    <2> QED
      BY <1>6, <1>7, <2>1, <2>2
  <1>9. ASSUME NEW i \in 1 .. n, Read(i) PROVE Read(i + 1)
    <2> DEFINE e == ls[i]
    <2>1. /\ IsLexeme(e) /\ pos[i] \in Nat /\ pos[i + 1] \in Nat /\ w[i] \in Nat
          /\ Occurs(s, pos[i], e.text) /\ pos[i + 1] = pos[i] + Len(e.text)
          /\ Occurs(t, w[i], e.tokens) /\ w[i + 1] = w[i] + Len(e.tokens)
          /\ e.tokens \in Seq(Tokens)
      <3>1. i \in 1 .. n + 1 /\ i + 1 \in 1 .. n + 1
        BY <1>1
      <3> QED
        BY <1>1, <1>6, <1>7, <3>1
    <2>2. EndsAt(e, CharOf(s, pos[i + 1]))
      <3>1. CASE i = n
        <4>1. CharOf(s, pos[i + 1]) = "none"
          BY <1>4, <3>1 DEF CharOf
        <4>2. "none" \notin Letters \cup Digits \cup {"."}
          BY DEF Letters, Digits
        <4> QED
          BY <4>1, <4>2 DEF EndsAt
      <3>2. CASE i # n
        <4>1. i \in 1 .. n - 1 /\ i + 1 \in 1 .. n
          BY <1>1, <3>2
        <4>2. Apart(e, ls[i + 1]) /\ IsLexeme(ls[i + 1])
              /\ Occurs(s, pos[i + 1], ls[i + 1].text)
          BY <1>1, <1>6, <4>1 DEF AllApart
        <4> QED
          BY <1>3, <2>1, <4>2, LexemeEnds
      <3> QED
        BY <3>1, <3>2
    <2>3. /\ SubSeq(t, 1, w[i]) \in Seq(Tokens)
          /\ SubSeq(t, 1, w[i]) \o e.tokens = SubSeq(t, 1, w[i + 1])
      <3> HIDE DEF e
      <3>1. /\ SubSeq(t, 1, w[i]) \in Seq(Tokens)
            /\ SubSeq(t, 1, w[i]) \o e.tokens = SubSeq(t, 1, w[i] + Len(e.tokens))
        <4>1. PICK p \in Nat, x \in Seq(Tokens) : p = w[i] /\ x = e.tokens
          BY <2>1
        <4>2. Occurs(t, p, x)
          BY <2>1, <4>1
        <4>3. SubSeq(t, 1, p) \in Seq(Tokens)
              /\ SubSeq(t, 1, p) \o x = SubSeq(t, 1, p + Len(x))
          BY <1>3, <4>2, OccursExtends
        <4> QED
          BY <4>1, <4>3
      <3> QED
        BY <2>1, <3>1
    <2>4. LexedUpTo(s, pos[i] + Len(e.text), SubSeq(t, 1, w[i]) \o e.tokens)
      <3>1. EndsAt(e, CharOf(s, pos[i] + Len(e.text)))
        BY <2>1, <2>2
      <3>2. LexedUpTo(s, pos[i], SubSeq(t, 1, w[i]))
        BY <1>9
      <3> HIDE DEF e
      <3> QED
        BY <1>3, <2>1, <2>3, <3>1, <3>2, LexesLexeme
    <2> QED
      BY <2>1, <2>3, <2>4
  <1> HIDE DEF Read
  <1>10. Read(n + 1)
    <2>1. 0 \in B
      BY <1>8
    <2>2. ASSUME NEW k \in Nat, k \in B PROVE k + 1 \in B
      <3>1. CASE k + 1 > n
        BY <3>1
      <3>2. CASE k + 1 <= n
        <4>1. k + 1 \in 1 .. n /\ Read(k + 1)
          BY <1>1, <2>2, <3>2
        <4> QED
          BY <1>9, <4>1
      <3> QED
        BY <1>1, <3>1, <3>2
    <2> HIDE DEF B
    <2>3. n \in B
      BY <1>1, <2>1, <2>2, NumbersByInduction
    <2> QED
      BY <1>1, <2>3 DEF B
  <1>11. Clean(s, <<"parsing", 0, t \o <<EofToken>>, <<>>, NoNode>>)
    <2>1. SubSeq(t, 1, w[n + 1]) = t
      BY <1>3, <1>5
    <2>2. LexedUpTo(s, Len(s), t)
      BY <1>4, <1>10, <2>1 DEF Read
    <2> QED
      BY <1>3, <2>2, LexesEnd DEF Token, EofToken
  <1>12. Spans(t \o <<EofToken>>, 0, ls, Len(t))
    <2>1. <<EofToken>> \in Seq(Tokens)
      BY DEF EofToken, Tokens, TokenTypes
    <2>2. ASSUME NEW i \in 1 .. n
          PROVE  Occurs(t \o <<EofToken>>, w[i], ls[i].tokens)
      <3>1. w[i] \in Nat /\ Occurs(t, w[i], ls[i].tokens) /\ ls[i].tokens \in Seq(Tokens)
        <4>1. i \in 1 .. n + 1
          BY <1>1
        <4> QED
          BY <1>1, <1>7, <4>1
      <3> QED
        BY <1>3, <2>1, <3>1, OccursLeft
    <2> QED
      BY <1>5, <1>7, <2>2 DEF Spans
  <1> QED
    BY <1>3, <1>11, <1>12 DEF s, texts

-----------------------------------------------------------------------------
(* The tokens the parts of a text make.                                       *)

\* w are the places in t of the tokens of ls.
Places(t, ls, w) ==
  /\ w \in [1 .. Len(ls) + 1 -> Nat]
  /\ \A i \in 1 .. Len(ls) :
       w[i + 1] = w[i] + Len(ls[i].tokens) /\ Occurs(t, w[i], ls[i].tokens)

\* A part of the lexemes makes a part of the tokens.
LEMMA PlacesWithin ==
  ASSUME NEW t, NEW ls \in Seq(LexemeSet), NEW w, Places(t, ls, w),
         NEW a \in Nat, NEW x \in Seq(LexemeSet), Occurs(ls, a, x)
  PROVE  Spans(t, w[a + 1], x, w[a + Len(x) + 1])
  <1> DEFINE v == [j \in 1 .. Len(x) + 1 |-> w[a + j]]
  <1>1. /\ Len(x) \in Nat /\ Len(ls) \in Nat /\ a + Len(x) <= Len(ls)
        /\ \A j \in 1 .. Len(x) : ls[a + j] = x[j]
    BY DEF Occurs
  <1>2. /\ \A j \in 1 .. Len(x) + 1 : a + j \in 1 .. Len(ls) + 1
        /\ \A j \in 1 .. Len(x) : a + j \in 1 .. Len(ls) /\ (a + j) + 1 = a + (j + 1)
        /\ \A j \in 1 .. Len(x) : j \in 1 .. Len(x) + 1 /\ j + 1 \in 1 .. Len(x) + 1
        /\ 1 \in 1 .. Len(x) + 1 /\ Len(x) + 1 \in 1 .. Len(x) + 1
        /\ a + (Len(x) + 1) = a + Len(x) + 1
    BY <1>1
  <1>3. v \in [1 .. Len(x) + 1 -> Nat]
    BY <1>2 DEF Places
  <1>4. \A j \in 1 .. Len(x) + 1 : v[j] = w[a + j]
    OBVIOUS
  <1>5. ASSUME NEW j \in 1 .. Len(x)
        PROVE  v[j + 1] = v[j] + Len(x[j].tokens) /\ Occurs(t, v[j], x[j].tokens)
    <2>1. v[j] = w[a + j] /\ v[j + 1] = w[a + (j + 1)]
      BY <1>2, <1>4
    <2>2. /\ w[(a + j) + 1] = w[a + j] + Len(ls[a + j].tokens)
          /\ Occurs(t, w[a + j], ls[a + j].tokens)
      BY <1>2 DEF Places
    <2>3. ls[a + j] = x[j] /\ (a + j) + 1 = a + (j + 1)
      BY <1>1, <1>2
    <2> HIDE DEF v
    <2> QED
      BY <2>1, <2>2, <2>3
  <1>6. v[1] = w[a + 1] /\ v[Len(x) + 1] = w[a + Len(x) + 1]
    BY <1>2, <1>4
  <1> HIDE DEF v
  <1> QED
    BY <1>3, <1>5, <1>6 DEF Spans

\* Lexemes that make tokens have places for them.
LEMMA SpansPlaces ==
  ASSUME NEW t, NEW p, NEW ls, NEW q, Spans(t, p, ls, q)
  PROVE  \E w : Places(t, ls, w) /\ w[1] = p /\ w[Len(ls) + 1] = q
  BY DEF Spans, Places

\* Concatenated lexemes make one stretch after the other.
LEMMA SpansConcat ==
  ASSUME NEW t, NEW p, NEW q, NEW x \in Seq(LexemeSet), NEW y \in Seq(LexemeSet),
         Spans(t, p, x \o y, q)
  PROVE  \E m \in Nat : Spans(t, p, x, m) /\ Spans(t, m, y, q)
  <1> DEFINE ls == x \o y
  <1>1. /\ ls \in Seq(LexemeSet) /\ Len(ls) = Len(x) + Len(y) /\ Len(x) \in Nat
        /\ Len(y) \in Nat
    BY ConcatProperties, LenProperties
  <1>2. Occurs(ls, 0, x) /\ Occurs(ls, Len(x), y)
    <2>1. Occurs(ls, 0, ls)
      BY <1>1 DEF Occurs
    <2>2. Occurs(ls, 0, x) /\ Occurs(ls, 0 + Len(x), y)
      BY <1>1, <2>1, OccursConcat
    <2> QED
      BY <1>1, <2>2
  <1> HIDE DEF ls
  <1>3. PICK w : Places(t, ls, w) /\ w[1] = p /\ w[Len(ls) + 1] = q
    <2>1. Spans(t, p, ls, q)
      BY DEF ls
    <2> QED
      BY <2>1, SpansPlaces
  <1>4. Spans(t, w[0 + 1], x, w[0 + Len(x) + 1])
    BY <1>1, <1>2, <1>3, PlacesWithin
  <1>5. Spans(t, w[Len(x) + 1], y, w[Len(x) + Len(y) + 1])
    BY <1>1, <1>2, <1>3, PlacesWithin
  <1>6. w[Len(x) + 1] \in Nat
    <2>1. Len(x) + 1 \in 1 .. Len(ls) + 1
      BY <1>1
    <2> QED
      BY <1>3, <2>1 DEF Places
  <1>7. 0 + 1 = 1 /\ 0 + Len(x) + 1 = Len(x) + 1 /\ Len(ls) + 1 = Len(x) + Len(y) + 1
    BY <1>1
  <1> QED
    BY <1>3, <1>4, <1>5, <1>6, <1>7

\* A single lexeme makes its own tokens; none makes none.
LEMMA SpansOne ==
  ASSUME NEW t, NEW p, NEW q, NEW e, Spans(t, p, <<e>>, q)
  PROVE  p \in Nat /\ q = p + Len(e.tokens) /\ Occurs(t, p, e.tokens)
  <1>1. PICK w \in [1 .. Len(<<e>>) + 1 -> Nat] :
          /\ w[1] = p /\ w[Len(<<e>>) + 1] = q
          /\ \A i \in 1 .. Len(<<e>>) : /\ w[i + 1] = w[i] + Len(<<e>>[i].tokens)
                                        /\ Occurs(t, w[i], <<e>>[i].tokens)
    BY DEF Spans
  <1>2. Len(<<e>>) = 1 /\ <<e>>[1] = e /\ 1 \in 1 .. Len(<<e>>)
    OBVIOUS
  <1> QED
    BY <1>1, <1>2

LEMMA SpansNone ==
  ASSUME NEW t, NEW p, NEW q, Spans(t, p, <<>>, q)
  PROVE  q = p
  <1>1. Len(<<>>) + 1 = 1
    OBVIOUS
  <1> QED
    BY <1>1 DEF Spans

\* A lexeme of ls makes the token x.
Made(x, ls) ==
  \E i \in 1 .. Len(ls), j \in Nat : j \in 1 .. Len(ls[i].tokens) /\ x = ls[i].tokens[j]

\* Every token of the stretch is one of a lexeme.
LEMMA SpansTokens ==
  ASSUME NEW t, NEW p, NEW q, NEW ls \in Seq(LexemeSet), Spans(t, p, ls, q)
  PROVE  /\ p \in Nat /\ q \in Nat /\ p <= q
         /\ \A r \in p .. q - 1 : Made(t[r + 1], ls)
  <1> DEFINE n == Len(ls)
             From(r) == Made(t[r + 1], ls)
  <1>1. PICK w : Places(t, ls, w) /\ w[1] = p /\ w[n + 1] = q
    BY SpansPlaces
  <1>2. n \in Nat /\ \A i \in 1 .. n : Len(ls[i].tokens) \in Nat
    <2>1. \A i \in 1 .. n : ls[i].tokens \in Seq(Tokens)
      <3>1. \A i \in 1 .. n : ls[i] \in LexemeSet
        OBVIOUS
      <3> QED
        BY <3>1 DEF LexemeSet
    <2> QED
      BY <2>1
  <1> DEFINE Good(k) == p <= w[k] /\ \A r \in p .. w[k] - 1 : From(r)
             B == {k \in Nat : k > n \/ Good(k + 1)}
  <1>3. \A k \in 1 .. n + 1 : w[k] \in Nat
    BY <1>1 DEF Places
  <1>4. p \in Nat /\ q \in Nat
    BY <1>1, <1>2, <1>3
  <1> HIDE DEF From
  <1>5. 0 \in B
    BY <1>1, <1>4
  <1>6. ASSUME NEW k \in 1 .. n, Good(k) PROVE Good(k + 1)
    <2> DEFINE x == ls[k].tokens
    <2>1. /\ w[k] \in Nat /\ w[k + 1] = w[k] + Len(x) /\ Occurs(t, w[k], x)
          /\ Len(x) \in Nat
      BY <1>1, <1>2, <1>3 DEF Places
    <2>2. ASSUME NEW r \in p .. w[k + 1] - 1 PROVE From(r)
      <3>1. CASE r \in p .. w[k] - 1
        BY <1>6, <3>1
      <3>2. CASE r \notin p .. w[k] - 1
        <4>1. r + 1 - w[k] \in 1 .. Len(x) /\ w[k] + (r + 1 - w[k]) = r + 1
          BY <1>4, <1>6, <2>1, <3>2
        <4>2. t[r + 1] = x[r + 1 - w[k]]
          BY <4>1, <2>1 DEF Occurs
        <4> QED
          BY <4>1, <4>2 DEF From, Made
      <3> QED
        BY <3>1, <3>2
    <2> HIDE DEF x
    <2> QED
      BY <1>4, <1>6, <2>1, <2>2
  <1> HIDE DEF Good
  <1>7. ASSUME NEW k \in Nat, k \in B PROVE k + 1 \in B
    <2>1. CASE k + 1 > n
      BY <2>1
    <2>2. CASE k + 1 <= n
      <3>1. k + 1 \in 1 .. n /\ Good(k + 1)
        BY <1>2, <1>7, <2>2
      <3> QED
        BY <1>6, <3>1
    <2> QED
      BY <1>2, <2>1, <2>2
  <1> HIDE DEF B
  <1>8. n \in B
    BY <1>2, <1>5, <1>7, NumbersByInduction
  <1>9. Good(n + 1)
    BY <1>2, <1>8 DEF B
  <1> QED
    BY <1>1, <1>4, <1>9 DEF Good, From

\* Flattened lexemes make one stretch after the other.
LEMMA SpansFlatten ==
  ASSUME NEW t, NEW p, NEW q, NEW xs \in Seq(Seq(LexemeSet)),
         Spans(t, p, FlattenSeq(xs), q)
  PROVE  \E v \in [1 .. Len(xs) + 1 -> Nat] :
           /\ v[1] = p /\ v[Len(xs) + 1] = q
           /\ \A i \in 1 .. Len(xs) : Spans(t, v[i], xs[i], v[i + 1])
  <1> DEFINE n == Len(xs)
             ls == FlattenSeq(xs)
  <1>1. ls \in Seq(LexemeSet) /\ n \in Nat /\ \A i \in 1 .. n : xs[i] \in Seq(LexemeSet)
    BY FlattenLays
  <1>2. PICK pos : LaidOut(ls, 0, xs, pos) /\ pos[n + 1] = Len(ls)
    BY FlattenLays
  <1>3. PICK w : Places(t, ls, w) /\ w[1] = p /\ w[Len(ls) + 1] = q
    BY SpansPlaces
  <1> HIDE DEF ls
  <1>4. /\ pos \in [1 .. n + 1 -> Nat] /\ pos[1] = 0
        /\ \A i \in 1 .. n : pos[i + 1] = pos[i] + Len(xs[i]) /\ Occurs(ls, pos[i], xs[i])
    BY <1>2 DEF LaidOut
  <1> DEFINE v == [i \in 1 .. n + 1 |-> w[pos[i] + 1]]
  <1>5. /\ 1 \in 1 .. n + 1 /\ n + 1 \in 1 .. n + 1
        /\ \A i \in 1 .. n : i \in 1 .. n + 1 /\ i + 1 \in 1 .. n + 1
    BY <1>1
  <1>6. \A i \in 1 .. n + 1 : pos[i] + 1 \in 1 .. Len(ls) + 1
    <2>1. ASSUME NEW i \in 1 .. n PROVE pos[i] + Len(xs[i]) <= Len(ls) /\ Len(xs[i]) \in Nat
      <3>1. Len(xs[i]) \in Nat
        BY <1>1
      <3> QED
        BY <1>4, <3>1 DEF Occurs
    <2>2. ASSUME NEW i \in 1 .. n + 1 PROVE pos[i] \in Nat /\ pos[i] <= Len(ls)
      <3>1. pos[i] \in Nat
        BY <1>4
      <3>2. i \in 1 .. n \/ i = n + 1
        BY <1>1
      <3>3. Len(ls) \in Nat
        BY <1>1
      <3>4. CASE i \in 1 .. n
        <4>1. pos[i] + Len(xs[i]) <= Len(ls) /\ Len(xs[i]) \in Nat
          BY <2>1, <3>4
        <4> QED
          BY <3>1, <3>3, <4>1
      <3>5. CASE i = n + 1
        BY <1>2, <3>1, <3>3, <3>5
      <3> QED
        BY <3>2, <3>4, <3>5
    <2>3. Len(ls) \in Nat
      BY <1>1
    <2> QED
      BY <2>2, <2>3
  <1>7. v \in [1 .. n + 1 -> Nat]
    BY <1>3, <1>6 DEF Places
  <1>8. v[1] = p /\ v[n + 1] = q
    BY <1>2, <1>3, <1>4, <1>5
  <1>9. ASSUME NEW i \in 1 .. n PROVE Spans(t, v[i], xs[i], v[i + 1])
    <2>1. v[i] = w[pos[i] + 1] /\ v[i + 1] = w[pos[i] + Len(xs[i]) + 1]
      BY <1>4, <1>5
    <2>2. pos[i] \in Nat /\ xs[i] \in Seq(LexemeSet) /\ Occurs(ls, pos[i], xs[i])
      BY <1>1, <1>4, <1>5
    <2> HIDE DEF v
    <2> QED
      BY <1>1, <1>3, <2>1, <2>2, PlacesWithin
  <1> HIDE DEF v
  <1> QED
    BY <1>7, <1>8, <1>9

\* The parser skips what stands between r and q.
Newlines(t, r, q) == r <= q /\ \A i \in r .. q - 1 : TypeIn(t, i) = "newline"

\* The parser comes to the first token that is no newline.
LEMMA NewlinesSkipped ==
  ASSUME NEW t \in Seq(Tokens), NEW r \in Nat, NEW q \in 0 .. Len(t) - 1, Newlines(t, r, q),
         TypeIn(t, q) # "newline"
  PROVE  HereIn(t, r) = q
  <1> DEFINE Q == {i \in r .. Len(t) - 1 : TypeIn(t, i) # "newline"}
  <1>1. Q \in SUBSET Nat /\ q \in Q
    BY DEF Newlines
  <1>2. Least(Q) \in Q /\ \A i \in Q : Least(Q) <= i
    BY <1>1, LeastIsLeast
  <1>3. Least(Q) \in r .. Len(t) - 1 /\ Least(Q) <= q /\ TypeIn(t, Least(Q)) # "newline"
    BY <1>1, <1>2
  <1> HIDE DEF Q
  <1>4. Least(Q) = q
    <2>1. ~(Least(Q) \in r .. q - 1)
      BY <1>3 DEF Newlines
    <2> QED
      BY <1>3, <2>1
  <1> QED
    BY <1>4 DEF HereIn, Q

\* A lexeme of one token stands where that does.
LEMMA SpansToken ==
  ASSUME NEW t, NEW p, NEW q, NEW e, NEW type, NEW v, e.tokens = Token(type, v),
         Spans(t, p, <<e>>, q)
  PROVE  /\ p \in Nat /\ q = p + 1 /\ p + 1 <= Len(t)
         /\ TypeIn(t, p) = type /\ ValueIn(t, p) = v
  <1>1. p \in Nat /\ q = p + Len(Token(type, v)) /\ Occurs(t, p, Token(type, v))
    BY SpansOne
  <1>2. Len(Token(type, v)) = 1 /\ Token(type, v)[1] = [type |-> type, value |-> v]
        /\ 1 \in 1 .. 1
    BY DEF Token
  <1>3. p + 1 <= Len(t) /\ t[p + 1] = [type |-> type, value |-> v]
    BY <1>1, <1>2 DEF Occurs
  <1> QED
    BY <1>1, <1>2, <1>3 DEF TypeIn, ValueIn

\* What stands between tokens is lexemes.
LEMMA GapsTyped ==
  ASSUME NEW g, AllBlank(g) \/ AllGap(g)
  PROVE  g \in Seq(LexemeSet)
  <1>1. ASSUME NEW e, IsGap(e) PROVE e \in LexemeSet
    <2>1. IsLexeme(e)
      <3>1. "newline" \in Symbols
        BY DEF Symbols
      <3> QED
        BY <1>1, <3>1 DEF IsGap, IsLexeme
    <2> QED
      BY <2>1, LexemeTyped
  <1>2. g \in Seq(ToSet(g)) /\ \A e \in ToSet(g) : IsGap(e)
    BY DEF AllBlank, AllGap, IsGap
  <1>3. ToSet(g) \subseteq LexemeSet
    BY <1>1, <1>2
  <1> QED
    BY <1>2, <1>3

\* Blanks and comments make no tokens.
LEMMA SpansBlank ==
  ASSUME NEW t, NEW p, NEW q, NEW g, AllBlank(g), Spans(t, p, g, q)
  PROVE  q = p
  <1>1. g \in Seq(LexemeSet)
    BY GapsTyped
  <1>2. ASSUME NEW i \in 1 .. Len(g) PROVE g[i].tokens = <<>>
    <2>1. g[i] \in ToSet(g)
      BY <1>1 DEF ToSet
    <2>2. IsBlank(g[i])
      BY <2>1 DEF AllBlank
    <2> DEFINE x == g[i].text
    <2>3. g[i] = Lexeme(x, <<>>)
      BY <2>2 DEF IsBlank
    <2> HIDE DEF x
    <2> QED
      BY <2>3, LexemeParts
  <1>3. /\ p \in Nat /\ q \in Nat /\ p <= q
        /\ \A r \in p .. q - 1 : Made(t[r + 1], g)
    BY <1>1, SpansTokens
  <1>4. ASSUME q # p PROVE FALSE
    <2>1. p \in p .. q - 1
      BY <1>3, <1>4
    <2>2. PICK i \in 1 .. Len(g), j \in Nat : j \in 1 .. Len(g[i].tokens)
      BY <1>3, <2>1 DEF Made
    <2>3. g[i].tokens = <<>>
      BY <1>2
    <2> QED
      BY <2>2, <2>3
  <1> QED
    BY <1>4

\* A gap makes newlines only.
LEMMA SpansGap ==
  ASSUME NEW t, NEW p, NEW q, NEW g, AllGap(g), Spans(t, p, g, q)
  PROVE  p \in Nat /\ q \in Nat /\ Newlines(t, p, q)
  <1>1. g \in Seq(LexemeSet)
    BY GapsTyped
  <1>2. ASSUME NEW i \in 1 .. Len(g), NEW j \in 1 .. Len(g[i].tokens)
        PROVE  g[i].tokens[j].type = "newline"
    <2>1. g[i] \in ToSet(g)
      BY <1>1 DEF ToSet
    <2>2. IsGap(g[i])
      BY <2>1 DEF AllGap
    <2>3. CASE g[i] = Symbol("newline")
      <3>1. g[i].tokens = Token("newline", <<"newline">>)
        BY <2>3, LexemeParts DEF Symbol
      <3>2. Len(g[i].tokens) = 1 /\ g[i].tokens[1].type = "newline"
        BY <3>1 DEF Token
      <3>3. j = 1
        BY <3>2
      <3> QED
        BY <3>2, <3>3
    <2>4. CASE IsBlank(g[i])
      <3> DEFINE x == g[i].text
      <3>1. g[i] = Lexeme(x, <<>>)
        BY <2>4 DEF IsBlank
      <3> HIDE DEF x
      <3>2. g[i].tokens = <<>>
        BY <3>1, LexemeParts
      <3> QED
        BY <3>2
    <2> QED
      BY <2>2, <2>3, <2>4 DEF IsGap
  <1>3. /\ p \in Nat /\ q \in Nat /\ p <= q
        /\ \A r \in p .. q - 1 : Made(t[r + 1], g)
    BY <1>1, SpansTokens
  <1>4. ASSUME NEW r \in p .. q - 1 PROVE TypeIn(t, r) = "newline"
    <2>1. PICK i \in 1 .. Len(g), j \in Nat :
             j \in 1 .. Len(g[i].tokens) /\ t[r + 1] = g[i].tokens[j]
      BY <1>3 DEF Made
    <2>2. g[i].tokens[j].type = "newline"
      BY <1>2, <2>1
    <2> QED
      BY <2>1, <2>2 DEF TypeIn
  <1> QED
    BY <1>3, <1>4 DEF Newlines

\* The tokens of words, values and marks.
LEMMA WordTokens ==
  ASSUME NEW w
  PROVE  /\ Word(w).tokens = Token(WordType(w), w)
         /\ IsWord(w) => Word(w) \in LexemeSet
  BY LexemeParts, LexemeTyped DEF Word, IsLexeme

LEMMA SymbolTokens ==
  ASSUME NEW c \in Symbols
  PROVE  Symbol(c).tokens = Token(c, <<c>>) /\ Symbol(c) \in LexemeSet
  BY LexemeParts, LexemeTyped DEF Symbol, IsLexeme

ValueTypes == {"string", "number", "manifest", "create", "identifier", "at"}

\* A value makes one token, whichever form it is written in.
LEMMA ValueTokens ==
  ASSUME NEW a, NEW l, IsAttribute(a), FitsAttribute(a, l)
  PROVE  /\ ValueLexeme(a[2], l.form) \in LexemeSet
         /\ \E type \in ValueTypes : ValueLexeme(a[2], l.form).tokens = Token(type, a[2])
  <1> DEFINE v == a[2]
  <1>1. v \in Seq(Pieces)
    BY DEF IsAttribute
  <1>2. CASE l.form = "string"
    <2>1. ValueLexeme(v, l.form) = String(v)
      BY <1>2 DEF ValueLexeme
    <2>2. String(v) \in LexemeSet /\ String(v).tokens = Token("string", v)
      BY <1>1, LexemeTyped, StringTyped DEF IsLexeme
    <2> QED
      BY <2>1, <2>2 DEF ValueTypes
  <1>3. CASE l.form = "word" /\ IsWord(v)
    <2>1. ValueLexeme(v, l.form) = Word(v)
      BY <1>3 DEF ValueLexeme
    <2>2. WordType(v) \in ValueTypes
      BY DEF WordType, ValueTypes
    <2> QED
      BY <1>3, <2>1, <2>2, WordTokens
  <1>4. CASE l.form = "number" /\ IsNumber(v)
    <2>1. ValueLexeme(v, l.form) = Number(v)
      BY <1>4 DEF ValueLexeme
    <2>2. Number(v) \in LexemeSet /\ Number(v).tokens = Token("number", v)
      BY <1>4, LexemeParts, LexemeTyped DEF Number, IsLexeme
    <2> QED
      BY <2>1, <2>2 DEF ValueTypes
  <1> QED
    BY <1>2, <1>3, <1>4 DEF FitsAttribute

-----------------------------------------------------------------------------
(* The tokens of an attribute.                                                *)

\* Sequences of lexemes concatenate to sequences of lexemes.
LEMMA ConcatTyped ==
  ASSUME NEW T, NEW x \in Seq(T), NEW y \in Seq(T)
  PROVE  x \o y \in Seq(T)
  OBVIOUS

\* A written attribute in parts, each of them typed.
LEMMA AttributeTyped ==
  ASSUME NEW a, NEW l, IsAttribute(a), FitsAttribute(a, l)
  PROVE  /\ l.colon \in BOOLEAN /\ l.comma \in BOOLEAN
         /\ Word(a[1]) \in LexemeSet /\ Word(a[1]).tokens = Token("identifier", a[1])
         /\ {l.beforeColon, l.beforeValue, l.beforeComma, l.after} \subseteq Seq(LexemeSet)
         /\ AttributeLexemes(a, l) \in Seq(LexemeSet)
  <1>1. l.colon \in BOOLEAN /\ l.comma \in BOOLEAN
    BY DEF FitsAttribute
  <1>2. Word(a[1]) \in LexemeSet /\ Word(a[1]).tokens = Token("identifier", a[1])
    BY WordTokens DEF IsAttribute, IsName
  <1>3. /\ l.beforeColon \in Seq(LexemeSet) /\ l.beforeValue \in Seq(LexemeSet)
        /\ l.beforeComma \in Seq(LexemeSet) /\ l.after \in Seq(LexemeSet)
    BY GapsTyped DEF FitsAttribute
  <1>4. ValueLexeme(a[2], l.form) \in LexemeSet
    BY ValueTokens
  <1>5. Symbol(":") \in LexemeSet /\ Symbol(",") \in LexemeSet
    <2>1. ":" \in Symbols /\ "," \in Symbols
      BY DEF Symbols
    <2> QED
      BY <2>1, SymbolTokens
  <1> DEFINE key == <<Word(a[1])>>
             colon == IF l.colon THEN l.beforeColon \o <<Symbol(":")>> ELSE <<>>
             value == <<ValueLexeme(a[2], l.form)>>
             comma == IF l.comma THEN l.beforeComma \o <<Symbol(",")>> ELSE <<>>
  <1>6. \A e \in LexemeSet : <<e>> \in Seq(LexemeSet)
    OBVIOUS
  <1>7. <<>> \in Seq(LexemeSet)
    OBVIOUS
  <1>8. key \in Seq(LexemeSet) /\ value \in Seq(LexemeSet)
    BY <1>2, <1>4, <1>6
  <1>9. colon \in Seq(LexemeSet)
    BY <1>3, <1>5, <1>6, <1>7, ConcatTyped
  <1>10. comma \in Seq(LexemeSet)
    BY <1>3, <1>5, <1>6, <1>7, ConcatTyped
  <1>11. AttributeLexemes(a, l) =
           ((((key \o colon) \o l.beforeValue) \o value) \o comma) \o l.after
    BY DEF AttributeLexemes
  <1> HIDE DEF key, colon, value, comma
  <1>12. AttributeLexemes(a, l) \in Seq(LexemeSet)
    BY <1>3, <1>8, <1>9, <1>10, <1>11, ConcatTyped
  <1> QED
    BY <1>1, <1>2, <1>3, <1>12

\* A mark's token stands where the blanks before it do.
LEMMA SpansMark ==
  ASSUME NEW t, NEW p, NEW q, NEW g, AllBlank(g), NEW c \in Symbols,
         Spans(t, p, g \o <<Symbol(c)>>, q)
  PROVE  p \in Nat /\ q = p + 1 /\ p + 1 <= Len(t) /\ TypeIn(t, p) = c
  <1>1. g \in Seq(LexemeSet) /\ <<Symbol(c)>> \in Seq(LexemeSet)
        /\ Symbol(c).tokens = Token(c, <<c>>)
    <2>1. Symbol(c) \in LexemeSet /\ Symbol(c).tokens = Token(c, <<c>>)
      BY SymbolTokens
    <2> QED
      BY <2>1, GapsTyped
  <1>2. PICK m \in Nat : Spans(t, p, g, m) /\ Spans(t, m, <<Symbol(c)>>, q)
    BY <1>1, SpansConcat
  <1>3. m = p
    BY <1>2, SpansBlank
  <1> QED
    BY <1>1, <1>2, <1>3, SpansToken

\* The marks the parser looks for.
Colon == ":"
Comma == ","
BlockStart == "{"
BlockEnd == "}"

\* The tokens of an attribute: the key at p, the value at v, and from m on newlines.
LEMMA AttributeSpans ==
  ASSUME NEW t, NEW p, NEW q, NEW a, NEW l, IsAttribute(a), FitsAttribute(a, l),
         Spans(t, p, AttributeLexemes(a, l), q)
  PROVE  /\ p \in Nat /\ q \in Nat /\ p + 1 <= Len(t)
         /\ TypeIn(t, p) = "identifier" /\ ValueIn(t, p) = a[1]
         /\ LET v == IF l.colon THEN p + 2 ELSE p + 1
                m == IF l.comma THEN v + 2 ELSE v + 1
            IN /\ l.colon => TypeIn(t, p + 1) = Colon
               /\ TypeIn(t, v) \in ValueTypes /\ ValueIn(t, v) = a[2]
               /\ l.comma => TypeIn(t, v + 1) = Comma
               /\ Newlines(t, m, q)
  <1> DEFINE key == <<Word(a[1])>>
             colon == IF l.colon THEN l.beforeColon \o <<Symbol(":")>> ELSE <<>>
             value == <<ValueLexeme(a[2], l.form)>>
             comma == IF l.comma THEN l.beforeComma \o <<Symbol(",")>> ELSE <<>>
             v == IF l.colon THEN p + 2 ELSE p + 1
             m == IF l.comma THEN v + 2 ELSE v + 1
  <1>1. /\ l.colon \in BOOLEAN /\ l.comma \in BOOLEAN
        /\ Word(a[1]) \in LexemeSet /\ Word(a[1]).tokens = Token("identifier", a[1])
        /\ l.beforeColon \in Seq(LexemeSet) /\ l.beforeValue \in Seq(LexemeSet)
        /\ l.beforeComma \in Seq(LexemeSet) /\ l.after \in Seq(LexemeSet)
    BY AttributeTyped
  <1>2. /\ AllBlank(l.beforeColon) /\ AllBlank(l.beforeValue) /\ AllBlank(l.beforeComma)
        /\ AllGap(l.after)
    BY DEF FitsAttribute
  <1>3. PICK type \in ValueTypes : ValueLexeme(a[2], l.form).tokens = Token(type, a[2])
    BY ValueTokens
  <1>4. ValueLexeme(a[2], l.form) \in LexemeSet
    BY ValueTokens
  <1>5. ":" \in Symbols /\ "," \in Symbols
    BY DEF Symbols
  <1>6. Symbol(":") \in LexemeSet /\ Symbol(",") \in LexemeSet
    BY <1>5, SymbolTokens
  <1>7. \A e \in LexemeSet : <<e>> \in Seq(LexemeSet)
    OBVIOUS
  <1>8. key \in Seq(LexemeSet) /\ value \in Seq(LexemeSet) /\ <<>> \in Seq(LexemeSet)
    BY <1>1, <1>4, <1>7
  <1>9. colon \in Seq(LexemeSet) /\ comma \in Seq(LexemeSet)
    BY <1>1, <1>6, <1>7, <1>8, ConcatTyped
  <1>10. AttributeLexemes(a, l) =
           ((((key \o colon) \o l.beforeValue) \o value) \o comma) \o l.after
    BY DEF AttributeLexemes
  <1> HIDE DEF key, colon, value, comma
  <1>11. /\ key \o colon \in Seq(LexemeSet)
         /\ (key \o colon) \o l.beforeValue \in Seq(LexemeSet)
         /\ ((key \o colon) \o l.beforeValue) \o value \in Seq(LexemeSet)
         /\ (((key \o colon) \o l.beforeValue) \o value) \o comma \in Seq(LexemeSet)
    BY <1>1, <1>8, <1>9, ConcatTyped
  <1>12. PICK p6 \in Nat :
           /\ Spans(t, p, (((key \o colon) \o l.beforeValue) \o value) \o comma, p6)
           /\ Spans(t, p6, l.after, q)
    BY <1>1, <1>10, <1>11, SpansConcat
  <1>13. PICK p5 \in Nat :
           /\ Spans(t, p, ((key \o colon) \o l.beforeValue) \o value, p5)
           /\ Spans(t, p5, comma, p6)
    BY <1>9, <1>11, <1>12, SpansConcat
  <1>14. PICK p4 \in Nat :
           Spans(t, p, (key \o colon) \o l.beforeValue, p4) /\ Spans(t, p4, value, p5)
    BY <1>8, <1>11, <1>13, SpansConcat
  <1>15. PICK p3 \in Nat : Spans(t, p, key \o colon, p3) /\ Spans(t, p3, l.beforeValue, p4)
    BY <1>1, <1>11, <1>14, SpansConcat
  <1>16. PICK p2 \in Nat : Spans(t, p, key, p2) /\ Spans(t, p2, colon, p3)
    BY <1>8, <1>9, <1>15, SpansConcat
  <1>17. /\ p \in Nat /\ p2 = p + 1 /\ p + 1 <= Len(t)
         /\ TypeIn(t, p) = "identifier" /\ ValueIn(t, p) = a[1]
    BY <1>1, <1>16, SpansToken DEF key
  <1>18. /\ p3 = (IF l.colon THEN p2 + 1 ELSE p2)
         /\ l.colon => TypeIn(t, p2) = Colon
    <2>1. CASE l.colon
      <3>1. Spans(t, p2, l.beforeColon \o <<Symbol(":")>>, p3)
        BY <1>16, <2>1 DEF colon
      <3>2. p3 = p2 + 1 /\ TypeIn(t, p2) = Colon
        BY <1>2, <1>5, <3>1, SpansMark DEF Colon, Comma
      <3> QED
        BY <2>1, <3>2
    <2>2. CASE ~l.colon
      BY <1>16, <2>2, SpansNone DEF colon
    <2> QED
      BY <2>1, <2>2
  <1>19. p4 = p3
    BY <1>2, <1>15, SpansBlank
  <1>20. p5 = p4 + 1 /\ TypeIn(t, p4) = type /\ ValueIn(t, p4) = a[2]
    BY <1>3, <1>14, SpansToken DEF value
  <1>21. /\ p6 = (IF l.comma THEN p5 + 1 ELSE p5)
         /\ l.comma => TypeIn(t, p5) = Comma
    <2>1. CASE l.comma
      <3>1. Spans(t, p5, l.beforeComma \o <<Symbol(",")>>, p6)
        BY <1>13, <2>1 DEF comma
      <3>2. p6 = p5 + 1 /\ TypeIn(t, p5) = Comma
        BY <1>2, <1>5, <3>1, SpansMark DEF Colon, Comma
      <3> QED
        BY <2>1, <3>2
    <2>2. CASE ~l.comma
      BY <1>13, <2>2, SpansNone DEF comma
    <2> QED
      BY <2>1, <2>2
  <1>22. q \in Nat /\ Newlines(t, p6, q)
    BY <1>2, <1>12, SpansGap
  <1>23. p4 = v
    BY <1>1, <1>17, <1>18, <1>19
  <1> HIDE DEF v
  <1>24. p5 = v + 1 /\ p6 = m
    <2>1. p5 = v + 1 /\ v \in Nat
      BY <1>20, <1>23
    <2>2. CASE l.comma
      <3>1. p6 = p5 + 1 /\ m = v + 2
        BY <1>21, <2>2
      <3> QED
        BY <2>1, <3>1
    <2>3. CASE ~l.comma
      BY <1>21, <2>1, <2>3
    <2> QED
      BY <2>1, <2>2, <2>3
  <1> QED
    BY <1>3, <1>17, <1>18, <1>20, <1>21, <1>22, <1>23, <1>24 DEF v

-----------------------------------------------------------------------------
(* Parsing attributes.                                                        *)

\* What may stand behind an attribute, and behind the last one.
AttributeEnds == {"identifier", BlockEnd}

\* The token kinds that the parser tells apart differ.
LEMMA AttributeEndsAre ==
  /\ BlockEnd \in AttributeEnds /\ "identifier" \in AttributeEnds
  /\ Comma \notin AttributeEnds /\ "newline" \notin AttributeEnds
  /\ Comma # "newline" /\ Colon \notin ValueTypes
  BY DEF AttributeEnds, BlockEnd, Comma, Colon, ValueTypes

Node(kind, name, attributes) == [kind |-> kind, name |-> name, attributes |-> attributes]

\* A node with one attribute more.
LEMMA NodeExtends ==
  ASSUME NEW kind, NEW title, NEW list, NEW a
  PROVE  [Node(kind, title, list) EXCEPT !.attributes = Append(@, a)]
           = Node(kind, title, Append(list, a))
  BY DEF Node

\* What the parser does at a key whose value is at v.
LEMMA AttributeStepIs ==
  ASSUME NEW c, NEW p, NEW v, v = IF TypeIn(c[3], p + 1) = Colon THEN p + 2 ELSE p + 1,
         TypeIn(c[3], v) # "eof"
  PROVE  AttributeStep(c, p)
           = <<"block", CommaIn(c[3], v + 1), c[3], c[4],
               [c[5] EXCEPT !.attributes = Append(@, <<ValueIn(c[3], p), ValueIn(c[3], v)>>)]>>
  BY DEF AttributeStep, Colon

\* The clean run can be in a block at r, with the statements and the node made so far.
InBlock(s, r, t, done, open) == Clean(s, <<"block", r, t, done, open>>)

\* A written attribute is read as itself, up to newlines before what follows.
LEMMA AttributeReads ==
  ASSUME NEW s, NEW t \in Seq(Tokens), NEW done, NEW kind, NEW title, NEW attributes,
         NEW r \in Nat, NEW p, NEW q \in 0 .. Len(t) - 1, NEW a, NEW l,
         IsAttribute(a), FitsAttribute(a, l), Spans(t, p, AttributeLexemes(a, l), q),
         TypeIn(t, q) \in AttributeEnds, Newlines(t, r, p),
         InBlock(s, r, t, done, Node(kind, title, attributes))
  PROVE  \E n \in Nat :
           /\ Newlines(t, n, q)
           /\ InBlock(s, n, t, done, Node(kind, title, Append(attributes, a)))
  <1> DEFINE open == Node(kind, title, attributes)
             c == <<"block", r, t, done, open>>
             v == IF l.colon THEN p + 2 ELSE p + 1
             m == IF l.comma THEN v + 2 ELSE v + 1
             new == Node(kind, title, Append(attributes, a))
  <1>1. /\ p \in Nat /\ p + 1 <= Len(t) /\ Len(t) \in Nat
        /\ TypeIn(t, p) = "identifier" /\ ValueIn(t, p) = a[1]
        /\ l.colon => TypeIn(t, p + 1) = Colon
        /\ TypeIn(t, v) \in ValueTypes /\ ValueIn(t, v) = a[2]
        /\ l.comma => TypeIn(t, v + 1) = Comma
        /\ Newlines(t, m, q)
    BY AttributeSpans
  <1>2. v \in Nat /\ m \in Nat
    BY <1>1
  <1>3. HereIn(t, r) = p
    <2>1. p \in 0 .. Len(t) - 1
      BY <1>1
    <2> QED
      BY <1>1, <2>1, NewlinesSkipped
  <1>4. (IF TypeIn(t, p + 1) = Colon THEN p + 2 ELSE p + 1) = v
    <2>1. CASE l.colon
      BY <1>1, <2>1
    <2>2. CASE ~l.colon
      <3>1. v = p + 1
        BY <2>2
      <3>2. TypeIn(t, p + 1) # Colon
        BY <1>1, <3>1, AttributeEndsAre
      <3> QED
        BY <3>1, <3>2
    <2> QED
      BY <2>1, <2>2
  <1>5. TypeIn(t, v) # "eof"
    BY <1>1 DEF ValueTypes
  <1>6. CommaIn(t, v + 1) = m
    <2>1. CASE l.comma
      <3>1. m = v + 2 /\ TypeIn(t, v + 1) = Comma
        BY <1>1, <2>1
      <3> HIDE DEF v, m
      <3> QED
        <4>1. CommaIn(t, v + 1) = (v + 1) + 1
          BY <3>1 DEF CommaIn, Comma
        <4> QED
          BY <1>2, <3>1, <4>1
    <2>2. CASE ~l.comma
      <3>1. m = v + 1
        BY <2>2
      <3>2. TypeIn(t, m) # Comma
        <4> HIDE DEF m
        <4>1. m = q \/ m \in m .. q - 1
          BY <1>1, <1>2 DEF Newlines
        <4>2. TypeIn(t, m) \in AttributeEnds \/ TypeIn(t, m) = "newline"
          BY <1>1, <4>1 DEF Newlines
        <4> QED
          BY <4>2, AttributeEndsAre
      <3> HIDE DEF v, m
      <3> QED
        BY <3>1, <3>2 DEF CommaIn, Comma
    <2> QED
      BY <2>1, <2>2
  <1>7. [open EXCEPT !.attributes = Append(@, <<ValueIn(t, p), ValueIn(t, v)>>)] = new
    <2>1. <<ValueIn(t, p), ValueIn(t, v)>> = a
      BY <1>1 DEF IsAttribute
    <2> HIDE DEF v
    <2> QED
      BY <2>1, NodeExtends
  <1>8. c[1] = "block" /\ c[2] = r /\ c[3] = t /\ c[4] = done /\ c[5] = open
    OBVIOUS
  <1> HIDE DEF c, v, m, open, new
  <1>9. AttributeStep(c, p) = <<"block", m, t, done, new>>
    <2>1. AttributeStep(c, p)
            = <<"block", CommaIn(t, v + 1), t, done,
                [open EXCEPT !.attributes = Append(@, <<ValueIn(t, p), ValueIn(t, v)>>)]>>
      BY <1>4, <1>5, <1>8, AttributeStepIs
    <2> QED
      BY <1>6, <1>7, <2>1
  <1>10. Successor(s, c) = AttributeStep(c, p)
    BY <1>1, <1>3, <1>8 DEF Successor, ParseStep, BlockStep
  <1>11. ~Done(c) /\ ~Rejects(c)
    BY <1>8 DEF Done, Rejects
  <1>12. InBlock(s, m, t, done, new)
    <2>1. Clean(s, c)
      BY DEF InBlock, c, open
    <2> QED
      BY <1>9, <1>10, <1>11, <2>1, CleanStep DEF InBlock
  <1> QED
    BY <1>1, <1>2, <1>12 DEF new

\* What stands where an attribute begins, or the block ends.
LEMMA BlockReads ==
  ASSUME NEW s, NEW t \in Seq(Tokens), NEW done, NEW kind, NEW title, NEW list, NEW ls,
         list \in Seq(ToSet(list)),
         \A i \in 1 .. Len(list) : IsAttribute(list[i]) /\ FitsAttribute(list[i], ls[i]),
         NEW v \in [1 .. Len(list) + 1 -> Nat],
         \A i \in 1 .. Len(list) : Spans(t, v[i], AttributeLexemes(list[i], ls[i]), v[i + 1]),
         v[Len(list) + 1] + 1 <= Len(t), TypeIn(t, v[Len(list) + 1]) = BlockEnd,
         NEW r \in Nat, Newlines(t, r, v[1]),
         InBlock(s, r, t, done, Node(kind, title, <<>>))
  PROVE  \E n \in Nat : /\ Newlines(t, n, v[Len(list) + 1])
                        /\ InBlock(s, n, t, done, Node(kind, title, list))
  <1> DEFINE k == Len(list)
             Read(i) == \E n \in Nat :
               /\ Newlines(t, n, v[i])
               /\ InBlock(s, n, t, done, Node(kind, title, SubSeq(list, 1, i - 1)))
             B == {i \in Nat : i > k \/ Read(i + 1)}
  <1>1. k \in Nat /\ Len(t) \in Nat
    OBVIOUS
  <1>2. Read(1)
    <2>1. SubSeq(list, 1, 1 - 1) = <<>>
      OBVIOUS
    <2> QED
      BY <2>1
  <1>3. ASSUME NEW i \in 1 .. k, Read(i) PROVE Read(i + 1)
    <2>1. PICK n \in Nat :
            /\ Newlines(t, n, v[i])
            /\ InBlock(s, n, t, done, Node(kind, title, SubSeq(list, 1, i - 1)))
      BY <1>3
    <2>2. IsAttribute(list[i]) /\ FitsAttribute(list[i], ls[i])
          /\ Spans(t, v[i], AttributeLexemes(list[i], ls[i]), v[i + 1])
      OBVIOUS
    <2>3. v[i + 1] \in 0 .. Len(t) - 1 /\ TypeIn(t, v[i + 1]) \in AttributeEnds
      <3>1. CASE i = k
        <4>1. v[k + 1] \in Nat
          BY <1>1
        <4> QED
          BY <1>1, <3>1, <4>1, AttributeEndsAre
      <3>2. CASE i # k
        <4>1. i + 1 \in 1 .. k
          BY <1>1, <3>2
        <4>2. /\ IsAttribute(list[i + 1]) /\ FitsAttribute(list[i + 1], ls[i + 1])
              /\ Spans(t, v[i + 1], AttributeLexemes(list[i + 1], ls[i + 1]), v[(i + 1) + 1])
          BY <4>1
        <4>3. /\ v[i + 1] \in Nat /\ v[i + 1] + 1 <= Len(t)
              /\ TypeIn(t, v[i + 1]) = "identifier"
          BY <4>2, AttributeSpans
        <4> QED
          BY <1>1, <4>3, AttributeEndsAre
      <3> QED
        BY <3>1, <3>2
    <2>4. Append(SubSeq(list, 1, i - 1), list[i]) = SubSeq(list, 1, (i + 1) - 1)
      <3>1. i \in 1 .. Len(list) /\ (i + 1) - 1 = i /\ 1 \in 1 .. Len(list) /\ i \in 1 .. Len(list)
            /\ list[i] \in ToSet(list)
        BY <1>1 DEF ToSet
      <3>2. SubSeq(list, 1, i) = SubSeq(list, 1, i - 1) \o <<list[i]>>
        BY <3>1, SubSeqRecursiveSecond
      <3>3. SubSeq(list, 1, i - 1) \in Seq(ToSet(list))
        BY <1>1
      <3> QED
        BY <3>1, <3>2, <3>3, AppendIsConcat
    <2>5. PICK m \in Nat :
            /\ Newlines(t, m, v[i + 1])
            /\ InBlock(s, m, t, done, Node(kind, title, Append(SubSeq(list, 1, i - 1), list[i])))
      <3> DEFINE old == SubSeq(list, 1, i - 1)
      <3> HIDE DEF old
      <3>1. InBlock(s, n, t, done, Node(kind, title, old))
        BY <2>1 DEF old
      <3>2. \E m \in Nat :
              /\ Newlines(t, m, v[i + 1])
              /\ InBlock(s, m, t, done, Node(kind, title, Append(old, list[i])))
        BY <2>1, <2>2, <2>3, <3>1, AttributeReads
      <3> QED
        BY <3>2 DEF old
    <2> QED
      BY <2>4, <2>5
  <1> HIDE DEF Read
  <1>4. Read(k + 1)
    <2>1. 0 \in B
      BY <1>2
    <2>2. ASSUME NEW i \in Nat, i \in B PROVE i + 1 \in B
      <3>1. CASE i + 1 > k
        BY <3>1
      <3>2. CASE i + 1 <= k
        <4>1. i + 1 \in 1 .. k /\ Read(i + 1)
          BY <1>1, <2>2, <3>2
        <4> QED
          BY <1>3, <4>1
      <3> QED
        BY <1>1, <3>1, <3>2
    <2> HIDE DEF B
    <2>3. k \in B
      BY <1>1, <2>1, <2>2, NumbersByInduction
    <2> QED
      BY <1>1, <2>3 DEF B
  <1>5. SubSeq(list, 1, (k + 1) - 1) = list
    <2>1. (k + 1) - 1 = Len(list)
      BY <1>1
    <2> QED
      BY <2>1, SubSeqFull
  <1> QED
    BY <1>4, <1>5 DEF Read

-----------------------------------------------------------------------------
(* Parsing blocks.                                                            *)

\* What may stand behind a statement.
StatementEnds == {"manifest", "create", "eof"}

\* What stands behind the head of a statement.
HeadEnds == {BlockStart, "newline"} \cup StatementEnds

\* So do those it tells apart at a statement.
LEMMA StatementEndsAre ==
  /\ BlockStart \in HeadEnds /\ "newline" \in HeadEnds /\ StatementEnds \subseteq HeadEnds
  /\ "identifier" \notin HeadEnds /\ BlockStart # "newline" /\ BlockStart \notin StatementEnds
  /\ BlockEnd # "newline" /\ BlockEnd # "identifier"
  BY DEF StatementEnds, HeadEnds, BlockStart, BlockEnd

\* The marks of a block are lexemes.
LEMMA MarksTyped ==
  /\ BlockStart \in Symbols /\ BlockEnd \in Symbols
  /\ Symbol(BlockStart) \in LexemeSet /\ Symbol(BlockEnd) \in LexemeSet
  <1>1. BlockStart \in Symbols /\ BlockEnd \in Symbols
    BY DEF Symbols, BlockStart, BlockEnd
  <1> QED
    BY <1>1, SymbolTokens

AttributesLexemes(d, l) ==
  [i \in 1 .. Len(d.attributes) |-> AttributeLexemes(d.attributes[i], l.attributes[i])]

\* A written block in parts, each of them typed.
LEMMA BlockTyped ==
  ASSUME NEW d, NEW l, IsStatement(d), FitsStatement(d, l)
  PROVE  /\ d.attributes \in Seq(ToSet(d.attributes)) /\ Len(d.attributes) \in Nat
         /\ \A i \in 1 .. Len(d.attributes) :
              IsAttribute(d.attributes[i]) /\ FitsAttribute(d.attributes[i], l.attributes[i])
         /\ AttributesLexemes(d, l) \in Seq(Seq(LexemeSet))
         /\ Len(AttributesLexemes(d, l)) = Len(d.attributes)
         /\ FlattenSeq(AttributesLexemes(d, l)) \in Seq(LexemeSet)
         /\ l.beforeBlock \in Seq(LexemeSet) /\ l.inside \in Seq(LexemeSet)
         /\ BlockLexemes(d, l)
              = (((l.beforeBlock \o <<Symbol(BlockStart)>>) \o l.inside)
                  \o FlattenSeq(AttributesLexemes(d, l))) \o <<Symbol(BlockEnd)>>
         /\ BlockLexemes(d, l) \in Seq(LexemeSet)
  <1> DEFINE list == d.attributes
             xs == AttributesLexemes(d, l)
             y == FlattenSeq(xs)
             b == <<Symbol(BlockStart)>>
             e == <<Symbol(BlockEnd)>>
  <1>1. list \in Seq(ToSet(list)) /\ Len(list) \in Nat
    BY DEF IsStatement
  <1>2. ASSUME NEW i \in 1 .. Len(list)
        PROVE  IsAttribute(list[i]) /\ FitsAttribute(list[i], l.attributes[i])
    <2>1. list[i] \in ToSet(list)
      BY <1>1 DEF ToSet
    <2> QED
      BY <2>1 DEF IsStatement, FitsStatement
  <1>3. xs \in Seq(Seq(LexemeSet)) /\ Len(xs) = Len(list)
    <2>1. \A i \in 1 .. Len(list) : AttributeLexemes(list[i], l.attributes[i]) \in Seq(LexemeSet)
      BY <1>2, AttributeTyped
    <2> QED
      BY <1>1, <2>1 DEF AttributesLexemes
  <1>4. y \in Seq(LexemeSet)
    BY <1>3, FlattenLays
  <1>5. l.beforeBlock \in Seq(LexemeSet) /\ l.inside \in Seq(LexemeSet)
    BY GapsTyped DEF FitsStatement
  <1>6. b \in Seq(LexemeSet) /\ e \in Seq(LexemeSet)
    BY MarksTyped
  <1>7. BlockLexemes(d, l) = (((l.beforeBlock \o b) \o l.inside) \o y) \o e
    BY DEF BlockLexemes, AttributesLexemes, BlockStart, BlockEnd
  <1> HIDE DEF xs, y, b, e
  <1>8. BlockLexemes(d, l) \in Seq(LexemeSet)
    BY <1>4, <1>5, <1>6, <1>7, ConcatTyped
  <1> USE DEF xs, y, b, e
  <1> QED
    BY <1>1, <1>2, <1>3, <1>4, <1>5, <1>7, <1>8

\* The tokens of a block: its start at p, the attributes at v, its end before q.
LEMMA BlockSpans ==
  ASSUME NEW d, NEW l, IsStatement(d), FitsStatement(d, l),
         NEW t, NEW p, NEW q, Spans(t, p, BlockLexemes(d, l), q)
  PROVE  \E v \in [1 .. Len(d.attributes) + 1 -> Nat] :
           /\ p \in Nat /\ p + 1 <= Len(t) /\ TypeIn(t, p) = BlockStart
           /\ Newlines(t, p + 1, v[1])
           /\ \A i \in 1 .. Len(d.attributes) :
                Spans(t, v[i], AttributeLexemes(d.attributes[i], l.attributes[i]), v[i + 1])
           /\ q = v[Len(d.attributes) + 1] + 1 /\ q <= Len(t)
           /\ TypeIn(t, v[Len(d.attributes) + 1]) = BlockEnd
  <1> DEFINE list == d.attributes
             xs == AttributesLexemes(d, l)
             y == FlattenSeq(xs)
             b == l.beforeBlock \o <<Symbol(BlockStart)>>
             e == <<Symbol(BlockEnd)>>
  <1>1. /\ xs \in Seq(Seq(LexemeSet)) /\ Len(xs) = Len(list) /\ y \in Seq(LexemeSet)
        /\ l.beforeBlock \in Seq(LexemeSet) /\ l.inside \in Seq(LexemeSet)
        /\ BlockLexemes(d, l) = ((b \o l.inside) \o y) \o e
    BY BlockTyped
  <1>2. <<Symbol(BlockStart)>> \in Seq(LexemeSet) /\ e \in Seq(LexemeSet)
    BY MarksTyped
  <1>3. b \in Seq(LexemeSet)
    BY <1>1, <1>2, ConcatTyped
  <1>4. AllBlank(l.beforeBlock) /\ AllGap(l.inside)
    BY DEF FitsStatement
  <1> HIDE DEF xs, y, b, e
  <1>5. b \o l.inside \in Seq(LexemeSet) /\ (b \o l.inside) \o y \in Seq(LexemeSet)
    BY <1>1, <1>3, ConcatTyped
  <1>6. PICK p3 \in Nat : Spans(t, p, (b \o l.inside) \o y, p3) /\ Spans(t, p3, e, q)
    BY <1>1, <1>2, <1>5, SpansConcat
  <1>7. PICK p2 \in Nat : Spans(t, p, b \o l.inside, p2) /\ Spans(t, p2, y, p3)
    BY <1>1, <1>5, <1>6, SpansConcat
  <1>8. PICK p1 \in Nat : Spans(t, p, b, p1) /\ Spans(t, p1, l.inside, p2)
    BY <1>1, <1>3, <1>7, SpansConcat
  <1>9. p \in Nat /\ p1 = p + 1 /\ p + 1 <= Len(t) /\ TypeIn(t, p) = BlockStart
    BY <1>4, <1>8, MarksTyped, SpansMark DEF b
  <1>10. Newlines(t, p1, p2)
    BY <1>4, <1>8, SpansGap
  <1>11. PICK v \in [1 .. Len(xs) + 1 -> Nat] :
           /\ v[1] = p2 /\ v[Len(xs) + 1] = p3
           /\ \A i \in 1 .. Len(xs) : Spans(t, v[i], xs[i], v[i + 1])
    <2>1. xs \in Seq(Seq(LexemeSet))
      BY <1>1
    <2>2. Spans(t, p2, FlattenSeq(xs), p3)
      BY <1>7 DEF y
    <2> QED
      BY <2>1, <2>2, SpansFlatten
  <1>12. \A i \in 1 .. Len(list) : xs[i] = AttributeLexemes(list[i], l.attributes[i])
    BY DEF xs, AttributesLexemes
  <1>13. q = p3 + 1 /\ q <= Len(t) /\ TypeIn(t, p3) = BlockEnd
    <2>1. Symbol(BlockEnd).tokens = Token(BlockEnd, <<BlockEnd>>)
      BY MarksTyped, SymbolTokens
    <2>2. q = p3 + 1 /\ p3 + 1 <= Len(t) /\ TypeIn(t, p3) = BlockEnd
      BY <1>6, <2>1, SpansToken DEF e
    <2> QED
      BY <2>2
  <1>14. v \in [1 .. Len(list) + 1 -> Nat] /\ v[Len(list) + 1] = p3 /\ v[1] = p2
    BY <1>1, <1>11
  <1>15. \A i \in 1 .. Len(list) :
            Spans(t, v[i], AttributeLexemes(list[i], l.attributes[i]), v[i + 1])
    BY <1>1, <1>11, <1>12
  <1>16. Newlines(t, p + 1, v[1])
    BY <1>9, <1>10, <1>14
  <1> QED
    BY <1>9, <1>13, <1>14, <1>15, <1>16

\* The clean run can be outside blocks at r, with the statements made so far.
InProgram(s, r, t, done) == Clean(s, <<"parsing", r, t, done, NoNode>>)

\* The end of a block.
LEMMA BlockCloses ==
  ASSUME NEW s, NEW t \in Seq(Tokens), NEW done, NEW open, NEW r \in Nat,
         NEW p \in 0 .. Len(t) - 1, Newlines(t, r, p), TypeIn(t, p) = BlockEnd,
         InBlock(s, r, t, done, open)
  PROVE  InProgram(s, p + 1, t, Append(done, open))
  <1> DEFINE c == <<"block", r, t, done, open>>
  <1>1. HereIn(t, r) = p
    BY NewlinesSkipped, StatementEndsAre
  <1>2. c[1] = "block" /\ c[2] = r /\ c[3] = t /\ c[4] = done /\ c[5] = open
    OBVIOUS
  <1>3. Clean(s, c)
    BY DEF InBlock
  <1> HIDE DEF c
  <1>4. BlockStep(c, p) = <<"parsing", p + 1, t, Append(done, open), NoNode>>
    BY <1>2 DEF BlockStep, BlockEnd
  <1>5. Successor(s, c) = BlockStep(c, p)
    BY <1>1, <1>2 DEF Successor, ParseStep
  <1>6. ~Done(c) /\ ~Rejects(c)
    BY <1>2 DEF Done, Rejects
  <1> QED
    BY <1>3, <1>4, <1>5, <1>6, CleanStep DEF InProgram

-----------------------------------------------------------------------------
(* Parsing statements.                                                        *)

\* A written statement in parts, each of them typed.
LEMMA StatementTyped ==
  ASSUME NEW d, NEW l, IsStatement(d), FitsStatement(d, l)
  PROVE  LET key == <<Word(<<Keyword(d)>>)>>
             name == IF d.name = <<>> THEN <<>> ELSE l.beforeName \o <<Word(d.name)>>
             block == IF l.block THEN BlockLexemes(d, l) ELSE <<>>
         IN /\ {key, name, block, l.after, l.beforeName} \subseteq Seq(LexemeSet)
            /\ StatementLexemes(d, l) = ((key \o name) \o block) \o l.after
            /\ StatementLexemes(d, l) \in Seq(LexemeSet)
            /\ Word(<<Keyword(d)>>).tokens = Token(Keyword(d), <<Keyword(d)>>)
            /\ Keyword(d) \in {"manifest", "create"}
            /\ d.name # <<>> => /\ Word(d.name) \in LexemeSet
                                /\ Word(d.name).tokens = Token("identifier", d.name)
  <1> DEFINE k == Keyword(d)
             key == <<Word(<<k>>)>>
             name == IF d.name = <<>> THEN <<>> ELSE l.beforeName \o <<Word(d.name)>>
             block == IF l.block THEN BlockLexemes(d, l) ELSE <<>>
  <1>1. k \in {"manifest", "create"}
    BY DEF Keyword
  <1>2. Word(<<k>>) \in LexemeSet /\ Word(<<k>>).tokens = Token(k, <<k>>)
    <2>1. IsWord(<<k>>)
      <3>1. k \in Letters
        BY <1>1 DEF Letters
      <3>2. <<k>> \in Seq(Letters \cup Digits) /\ <<k>> # <<>> /\ Head(<<k>>) = k
        BY <3>1
      <3> QED
        BY <3>1, <3>2 DEF IsWord
    <2>2. WordType(<<k>>) = k
      <3>1. <<"create">> # <<"manifest">>
        OBVIOUS
      <3>2. CASE k = "manifest"
        BY <3>2 DEF WordType
      <3>3. CASE k = "create"
        BY <3>1, <3>3 DEF WordType
      <3> QED
        BY <1>1, <3>2, <3>3
    <2> QED
      BY <2>1, <2>2, WordTokens
  <1>3. l.beforeName \in Seq(LexemeSet) /\ l.after \in Seq(LexemeSet)
    BY GapsTyped DEF FitsStatement
  <1>4. d.name # <<>> => /\ Word(d.name) \in LexemeSet
                         /\ Word(d.name).tokens = Token("identifier", d.name)
    BY WordTokens DEF IsStatement, IsName
  <1>5. \A e \in LexemeSet : <<e>> \in Seq(LexemeSet)
    OBVIOUS
  <1>6. <<>> \in Seq(LexemeSet)
    OBVIOUS
  <1>7. key \in Seq(LexemeSet)
    BY <1>2, <1>5
  <1>8. name \in Seq(LexemeSet)
    <2>1. CASE d.name = <<>>
      BY <1>6, <2>1
    <2>2. CASE d.name # <<>>
      <3>1. <<Word(d.name)>> \in Seq(LexemeSet)
        BY <1>4, <1>5, <2>2
      <3> QED
        BY <1>3, <2>2, <3>1, ConcatTyped
    <2> QED
      BY <2>1, <2>2
  <1>9. block \in Seq(LexemeSet)
    BY <1>6, BlockTyped
  <1>10. StatementLexemes(d, l) = ((key \o name) \o block) \o l.after
    BY DEF StatementLexemes
  <1> HIDE DEF key, name, block
  <1>11. StatementLexemes(d, l) \in Seq(LexemeSet)
    BY <1>3, <1>7, <1>8, <1>9, <1>10, ConcatTyped
  <1>12. {key, name, block, l.after, l.beforeName} \subseteq Seq(LexemeSet)
    BY <1>3, <1>7, <1>8, <1>9
  <1> QED
    BY <1>1, <1>2, <1>4, <1>10, <1>11, <1>12 DEF key, name, block

\* The tokens of a statement: the keyword at p, the name behind it, then the block.
LEMMA StatementSpans ==
  ASSUME NEW d, NEW l, IsStatement(d), FitsStatement(d, l),
         NEW t, NEW p, NEW q, Spans(t, p, StatementLexemes(d, l), q)
  PROVE  /\ p \in Nat /\ q \in Nat /\ p + 1 <= Len(t)
         /\ TypeIn(t, p) = Keyword(d) /\ Keyword(d) \in {"manifest", "create"}
         /\ d.name # <<>> => TypeIn(t, p + 1) = "identifier" /\ ValueIn(t, p + 1) = d.name
         /\ LET m == IF d.name = <<>> THEN p + 1 ELSE p + 2
            IN \E n \in Nat : /\ l.block => Spans(t, m, BlockLexemes(d, l), n)
                              /\ ~l.block => n = m
                              /\ Newlines(t, n, q)
  <1> DEFINE k == Keyword(d)
             key == <<Word(<<k>>)>>
             name == IF d.name = <<>> THEN <<>> ELSE l.beforeName \o <<Word(d.name)>>
             block == IF l.block THEN BlockLexemes(d, l) ELSE <<>>
             m == IF d.name = <<>> THEN p + 1 ELSE p + 2
  <1>1. /\ key \in Seq(LexemeSet) /\ name \in Seq(LexemeSet) /\ block \in Seq(LexemeSet)
        /\ l.after \in Seq(LexemeSet) /\ l.beforeName \in Seq(LexemeSet)
        /\ StatementLexemes(d, l) = ((key \o name) \o block) \o l.after
    BY StatementTyped
  <1>2. /\ Word(<<k>>).tokens = Token(k, <<k>>) /\ k \in {"manifest", "create"}
        /\ d.name # <<>> => /\ Word(d.name) \in LexemeSet
                            /\ Word(d.name).tokens = Token("identifier", d.name)
    BY StatementTyped
  <1>3. AllBlank(l.beforeName) /\ AllGap(l.after) /\ l.block \in BOOLEAN
    BY DEF FitsStatement
  <1> HIDE DEF key, name, block
  <1>4. key \o name \in Seq(LexemeSet) /\ (key \o name) \o block \in Seq(LexemeSet)
    BY <1>1, ConcatTyped
  <1>5. PICK p3 \in Nat : Spans(t, p, (key \o name) \o block, p3) /\ Spans(t, p3, l.after, q)
    BY <1>1, <1>4, SpansConcat
  <1>6. PICK p2 \in Nat : Spans(t, p, key \o name, p2) /\ Spans(t, p2, block, p3)
    BY <1>1, <1>4, <1>5, SpansConcat
  <1>7. PICK p1 \in Nat : Spans(t, p, key, p1) /\ Spans(t, p1, name, p2)
    BY <1>1, <1>6, SpansConcat
  <1>8. p \in Nat /\ p1 = p + 1 /\ p + 1 <= Len(t) /\ TypeIn(t, p) = k
    BY <1>2, <1>7, SpansToken DEF key
  <1>9. /\ p2 = m
        /\ d.name # <<>> => TypeIn(t, p + 1) = "identifier" /\ ValueIn(t, p + 1) = d.name
    <2>1. CASE d.name = <<>>
      <3>1. name = <<>>
        BY <2>1 DEF name
      <3>2. p2 = p1
        BY <1>7, <3>1, SpansNone
      <3> QED
        BY <1>8, <2>1, <3>2
    <2>2. CASE d.name # <<>>
      <3> DEFINE w == <<Word(d.name)>>
      <3>1. name = l.beforeName \o w
        BY <2>2 DEF name
      <3>2. w \in Seq(LexemeSet)
        BY <1>2, <2>2
      <3> HIDE DEF w
      <3>3. PICK j \in Nat : Spans(t, p1, l.beforeName, j) /\ Spans(t, j, w, p2)
        BY <1>1, <1>7, <3>1, <3>2, SpansConcat
      <3>4. j = p1
        BY <1>3, <3>3, SpansBlank
      <3>5. p2 = j + 1 /\ TypeIn(t, j) = "identifier" /\ ValueIn(t, j) = d.name
        BY <1>2, <2>2, <3>3, SpansToken DEF w
      <3>6. m = p + 2
        BY <2>2
      <3> HIDE DEF m
      <3>7. p2 = m /\ j = p + 1
        BY <1>8, <3>4, <3>5, <3>6
      <3> QED
        BY <3>5, <3>7
    <2> QED
      BY <2>1, <2>2
  <1>10. /\ l.block => Spans(t, p2, BlockLexemes(d, l), p3)
         /\ ~l.block => p3 = p2
    <2>1. CASE l.block
      BY <1>6, <2>1 DEF block
    <2>2. CASE ~l.block
      BY <1>6, <2>2, SpansNone DEF block
    <2> QED
      BY <2>1, <2>2
  <1>11. q \in Nat /\ Newlines(t, p3, q)
    BY <1>3, <1>5, SpansGap
  <1> HIDE DEF m
  <1>12. \E n \in Nat : /\ l.block => Spans(t, m, BlockLexemes(d, l), n)
                        /\ ~l.block => n = m
                        /\ Newlines(t, n, q)
    BY <1>9, <1>10, <1>11
  <1> QED
    BY <1>2, <1>8, <1>9, <1>11, <1>12 DEF m

\* What the parser does at a keyword whose name, if it has one, ends at m.
LEMMA StatementStepIs ==
  ASSUME NEW c, NEW p, NEW title, NEW m,
         \/ /\ TypeIn(c[3], p + 1) = "identifier"
            /\ title = ValueIn(c[3], p + 1) /\ m = p + 2
         \/ TypeIn(c[3], p + 1) # "identifier" /\ title = <<>> /\ m = p + 1
  PROVE  LET new == Node(Kind(TypeIn(c[3], p), title), title, <<>>)
         IN /\ TypeIn(c[3], m) = BlockStart =>
                 StatementStep(c, p) = <<"block", m + 1, c[3], c[4], new>>
            /\ TypeIn(c[3], m) # BlockStart =>
                 StatementStep(c, p) = <<"parsing", m, c[3], Append(c[4], new), c[5]>>
  <1>1. CASE TypeIn(c[3], p + 1) = "identifier" /\ title = ValueIn(c[3], p + 1) /\ m = p + 2
    BY <1>1 DEF StatementStep, BlockStart, Node
  <1>2. CASE TypeIn(c[3], p + 1) # "identifier" /\ title = <<>> /\ m = p + 1
    BY <1>2 DEF StatementStep, BlockStart, Node
  <1> QED
    BY <1>1, <1>2

\* The parser comes from the beginning of a statement into its block or behind it.
LEMMA StatementBegins ==
  ASSUME NEW s, NEW t \in Seq(Tokens), NEW done, NEW r \in Nat, NEW p \in 0 .. Len(t) - 1,
         Newlines(t, r, p), TypeIn(t, p) \in {"manifest", "create"}, NEW title, NEW m,
         \/ TypeIn(t, p + 1) = "identifier" /\ title = ValueIn(t, p + 1) /\ m = p + 2
         \/ TypeIn(t, p + 1) # "identifier" /\ title = <<>> /\ m = p + 1,
         InProgram(s, r, t, done)
  PROVE  LET new == Node(Kind(TypeIn(t, p), title), title, <<>>)
         IN /\ TypeIn(t, m) = BlockStart => InBlock(s, m + 1, t, done, new)
            /\ TypeIn(t, m) # BlockStart => InProgram(s, m, t, Append(done, new))
  <1> DEFINE c == <<"parsing", r, t, done, NoNode>>
             new == Node(Kind(TypeIn(t, p), title), title, <<>>)
  <1>1. HereIn(t, r) = p
    BY NewlinesSkipped
  <1>2. c[1] = "parsing" /\ c[2] = r /\ c[3] = t /\ c[4] = done /\ c[5] = NoNode
    OBVIOUS
  <1>3. Clean(s, c)
    BY DEF InProgram
  <1> HIDE DEF c
  <1>4. Successor(s, c) = StatementStep(c, p)
    BY <1>1, <1>2 DEF Successor, ParseStep
  <1>5. ~Done(c) /\ ~Rejects(c)
    BY <1>1, <1>2 DEF Done, Rejects
  <1>6. Clean(s, StatementStep(c, p))
    BY <1>3, <1>4, <1>5, CleanStep
  <1>7. /\ TypeIn(t, m) = BlockStart =>
             StatementStep(c, p) = <<"block", m + 1, t, done, new>>
        /\ TypeIn(t, m) # BlockStart =>
             StatementStep(c, p) = <<"parsing", m, t, Append(done, new), NoNode>>
    <2>1. \/ /\ TypeIn(c[3], p + 1) = "identifier"
             /\ title = ValueIn(c[3], p + 1) /\ m = p + 2
          \/ TypeIn(c[3], p + 1) # "identifier" /\ title = <<>> /\ m = p + 1
      BY <1>2
    <2> DEFINE node0 == Node(Kind(TypeIn(c[3], p), title), title, <<>>)
    <2>2. /\ TypeIn(c[3], m) = BlockStart =>
               StatementStep(c, p) = <<"block", m + 1, c[3], c[4], node0>>
          /\ TypeIn(c[3], m) # BlockStart =>
               StatementStep(c, p) = <<"parsing", m, c[3], Append(c[4], node0), c[5]>>
      BY <2>1, StatementStepIs
    <2>3. node0 = new
      BY <1>2
    <2> HIDE DEF node0, new
    <2> QED
      BY <1>2, <2>2, <2>3
  <1> QED
    BY <1>6, <1>7 DEF InBlock, InProgram

\* A written statement is read as itself, up to newlines before what follows.
LEMMA StatementReads ==
  ASSUME NEW s, NEW t \in Seq(Tokens), NEW done, NEW d, NEW l,
         IsStatement(d), FitsStatement(d, l),
         NEW r \in Nat, NEW p, NEW q \in 0 .. Len(t) - 1,
         Spans(t, p, StatementLexemes(d, l), q), TypeIn(t, q) \in StatementEnds,
         Newlines(t, r, p), InProgram(s, r, t, done)
  PROVE  \E n \in Nat : Newlines(t, n, q) /\ InProgram(s, n, t, Append(done, d))
  <1> DEFINE m == IF d.name = <<>> THEN p + 1 ELSE p + 2
             new == Node(Kind(TypeIn(t, p), d.name), d.name, <<>>)
  <1>1. /\ p \in Nat /\ p + 1 <= Len(t) /\ Len(t) \in Nat
        /\ TypeIn(t, p) = Keyword(d) /\ Keyword(d) \in {"manifest", "create"}
        /\ d.name # <<>> => TypeIn(t, p + 1) = "identifier" /\ ValueIn(t, p + 1) = d.name
    BY StatementSpans
  <1>2. PICK n \in Nat : /\ l.block => Spans(t, m, BlockLexemes(d, l), n)
                         /\ ~l.block => n = m
                         /\ Newlines(t, n, q)
    BY StatementSpans
  <1>3. m \in Nat
    BY <1>1
  <1>4. l.block \in BOOLEAN /\ (~l.block => d.attributes = <<>>)
    BY DEF FitsStatement
  <1>5. d = Node(d.kind, d.name, d.attributes) /\ d.kind = Kind(Keyword(d), d.name)
    BY DEF IsStatement, Node
  <1>6. new = Node(d.kind, d.name, <<>>)
    BY <1>1, <1>5
  <1>7. TypeIn(t, m) \in HeadEnds /\ (TypeIn(t, m) = BlockStart <=> l.block)
    <2> HIDE DEF m
    <2>1. CASE l.block
      <3>1. TypeIn(t, m) = BlockStart
        BY <1>2, <2>1, BlockSpans
      <3> QED
        BY <2>1, <3>1, StatementEndsAre
    <2>2. CASE ~l.block
      <3>1. m = q \/ m \in m .. q - 1
        BY <1>2, <1>3, <2>2 DEF Newlines
      <3>2. TypeIn(t, m) \in StatementEnds \/ TypeIn(t, m) = "newline"
        BY <1>2, <2>2, <3>1 DEF Newlines
      <3> QED
        BY <2>2, <3>2, StatementEndsAre
    <2> QED
      BY <2>1, <2>2
  <1>8. \/ TypeIn(t, p + 1) = "identifier" /\ d.name = ValueIn(t, p + 1) /\ m = p + 2
        \/ TypeIn(t, p + 1) # "identifier" /\ d.name = <<>> /\ m = p + 1
    <2>1. CASE d.name = <<>>
      <3>1. m = p + 1
        BY <2>1
      <3>2. TypeIn(t, m) # "identifier"
        BY <1>7, StatementEndsAre
      <3> QED
        BY <2>1, <3>1, <3>2
    <2>2. CASE d.name # <<>>
      BY <1>1, <2>2
    <2> QED
      BY <2>1, <2>2
  <1>9. p \in 0 .. Len(t) - 1
    BY <1>1
  <1> HIDE DEF m
  <1>10. /\ TypeIn(t, m) = BlockStart => InBlock(s, m + 1, t, done, new)
         /\ TypeIn(t, m) # BlockStart => InProgram(s, m, t, Append(done, new))
    BY <1>1, <1>8, <1>9, StatementBegins
  <1> HIDE DEF new
  <1>11. CASE ~l.block
    <2>1. new = d
      BY <1>4, <1>5, <1>6, <1>11
    <2> QED
      BY <1>2, <1>3, <1>7, <1>10, <1>11, <2>1
  <1>12. CASE l.block
    <2> DEFINE list == d.attributes
               k == Len(list)
    <2>1. /\ list \in Seq(ToSet(list)) /\ k \in Nat
          /\ \A i \in 1 .. k : IsAttribute(list[i]) /\ FitsAttribute(list[i], l.attributes[i])
      BY BlockTyped
    <2>2. PICK v \in [1 .. k + 1 -> Nat] :
             /\ Newlines(t, m + 1, v[1])
             /\ \A i \in 1 .. k : Spans(t, v[i], AttributeLexemes(list[i], l.attributes[i]),
                                        v[i + 1])
             /\ n = v[k + 1] + 1 /\ n <= Len(t)
             /\ TypeIn(t, v[k + 1]) = BlockEnd
      BY <1>2, <1>12, BlockSpans
    <2> DEFINE e == v[k + 1]
    <2>3. e \in Nat
      BY <2>1
    <2>4. e + 1 <= Len(t) /\ n = e + 1 /\ TypeIn(t, e) = BlockEnd
      BY <2>2
    <2>5. InBlock(s, m + 1, t, done, Node(d.kind, d.name, <<>>)) /\ m + 1 \in Nat
      BY <1>3, <1>6, <1>7, <1>10, <1>12
    <2>6. PICK j \in Nat : /\ Newlines(t, j, e)
                           /\ InBlock(s, j, t, done, Node(d.kind, d.name, list))
      BY <2>1, <2>2, <2>4, <2>5, BlockReads
    <2> HIDE DEF e
    <2>7. e \in 0 .. Len(t) - 1
      BY <1>1, <2>3, <2>4
    <2>8. InProgram(s, e + 1, t, Append(done, Node(d.kind, d.name, list)))
      BY <2>4, <2>6, <2>7, BlockCloses
    <2>9. InProgram(s, n, t, Append(done, d))
      BY <1>5, <2>4, <2>8
    <2> QED
      BY <1>2, <2>9
  <1> QED
    BY <1>4, <1>11, <1>12

-----------------------------------------------------------------------------
(* Parsing programs.                                                          *)

\* The statements of a program are read one after the other, up to the end token.
LEMMA StatementsRead ==
  ASSUME NEW s, NEW t \in Seq(Tokens), NEW list, NEW ls, list \in Seq(ToSet(list)),
         \A i \in 1 .. Len(list) : IsStatement(list[i]) /\ FitsStatement(list[i], ls[i]),
         NEW v \in [1 .. Len(list) + 1 -> Nat],
         \A i \in 1 .. Len(list) : Spans(t, v[i], StatementLexemes(list[i], ls[i]), v[i + 1]),
         v[Len(list) + 1] + 1 <= Len(t), TypeIn(t, v[Len(list) + 1]) = "eof",
         NEW r \in Nat, Newlines(t, r, v[1]), InProgram(s, r, t, <<>>)
  PROVE  \E n \in Nat : Newlines(t, n, v[Len(list) + 1]) /\ InProgram(s, n, t, list)
  <1> DEFINE k == Len(list)
             Read(i) == \E n \in Nat : /\ Newlines(t, n, v[i])
                                       /\ InProgram(s, n, t, SubSeq(list, 1, i - 1))
             B == {i \in Nat : i > k \/ Read(i + 1)}
  <1>1. k \in Nat /\ Len(t) \in Nat
    OBVIOUS
  <1>2. Read(1)
    <2>1. SubSeq(list, 1, 1 - 1) = <<>>
      OBVIOUS
    <2> QED
      BY <2>1
  <1>3. ASSUME NEW i \in 1 .. k, Read(i) PROVE Read(i + 1)
    <2>1. PICK n \in Nat : /\ Newlines(t, n, v[i])
                           /\ InProgram(s, n, t, SubSeq(list, 1, i - 1))
      BY <1>3
    <2>2. IsStatement(list[i]) /\ FitsStatement(list[i], ls[i])
          /\ Spans(t, v[i], StatementLexemes(list[i], ls[i]), v[i + 1])
      OBVIOUS
    <2>3. v[i + 1] \in 0 .. Len(t) - 1 /\ TypeIn(t, v[i + 1]) \in StatementEnds
      <3>1. CASE i = k
        <4>1. v[k + 1] \in Nat
          BY <1>1
        <4>2. TypeIn(t, v[k + 1]) \in StatementEnds
          BY DEF StatementEnds
        <4> QED
          BY <1>1, <3>1, <4>1, <4>2
      <3>2. CASE i # k
        <4>1. i + 1 \in 1 .. k
          BY <1>1, <3>2
        <4>2. /\ IsStatement(list[i + 1]) /\ FitsStatement(list[i + 1], ls[i + 1])
              /\ Spans(t, v[i + 1], StatementLexemes(list[i + 1], ls[i + 1]), v[(i + 1) + 1])
          BY <4>1
        <4> DEFINE d == list[i + 1]
        <4>3. /\ v[i + 1] \in Nat /\ v[i + 1] + 1 <= Len(t)
              /\ TypeIn(t, v[i + 1]) = Keyword(d) /\ Keyword(d) \in {"manifest", "create"}
          BY <4>2, StatementSpans
        <4> QED
          BY <1>1, <4>3 DEF StatementEnds
      <3> QED
        BY <3>1, <3>2
    <2>4. Append(SubSeq(list, 1, i - 1), list[i]) = SubSeq(list, 1, (i + 1) - 1)
      <3>1. i \in 1 .. Len(list) /\ (i + 1) - 1 = i /\ 1 \in 1 .. Len(list)
            /\ list[i] \in ToSet(list)
        BY <1>1 DEF ToSet
      <3>2. SubSeq(list, 1, i) = SubSeq(list, 1, i - 1) \o <<list[i]>>
        BY <3>1, SubSeqRecursiveSecond
      <3>3. SubSeq(list, 1, i - 1) \in Seq(ToSet(list))
        BY <1>1
      <3> QED
        BY <3>1, <3>2, <3>3, AppendIsConcat
    <2> DEFINE old == SubSeq(list, 1, i - 1)
    <2>5. InProgram(s, n, t, old)
      BY <2>1
    <2> HIDE DEF old
    <2>6. \E m \in Nat : Newlines(t, m, v[i + 1]) /\ InProgram(s, m, t, Append(old, list[i]))
      BY <2>1, <2>2, <2>3, <2>5, StatementReads
    <2>7. Append(old, list[i]) = SubSeq(list, 1, (i + 1) - 1)
      BY <2>4 DEF old
    <2> QED
      BY <2>6, <2>7
  <1> HIDE DEF Read
  <1>4. Read(k + 1)
    <2>1. 0 \in B
      BY <1>2
    <2>2. ASSUME NEW i \in Nat, i \in B PROVE i + 1 \in B
      <3>1. CASE i + 1 > k
        BY <3>1
      <3>2. CASE i + 1 <= k
        <4>1. i + 1 \in 1 .. k /\ Read(i + 1)
          BY <1>1, <2>2, <3>2
        <4> QED
          BY <1>3, <4>1
      <3> QED
        BY <1>1, <3>1, <3>2
    <2> HIDE DEF B
    <2>3. k \in B
      BY <1>1, <2>1, <2>2, NumbersByInduction
    <2> QED
      BY <1>1, <2>3 DEF B
  <1>5. SubSeq(list, 1, (k + 1) - 1) = list
    <2>1. (k + 1) - 1 = Len(list)
      BY <1>1
    <2> QED
      BY <2>1, SubSeqFull
  <1> QED
    BY <1>4, <1>5 DEF Read

StatementsLexemes(w) ==
  [i \in 1 .. Len(w.program) |-> StatementLexemes(w.program[i], w.layout[i])]

\* A written program in parts, each of them typed.
LEMMA ProgramTyped ==
  ASSUME NEW w, IsWritten(w)
  PROVE  /\ w.program \in Seq(ToSet(w.program)) /\ Len(w.program) \in Nat
         /\ \A i \in 1 .. Len(w.program) :
              IsStatement(w.program[i]) /\ FitsStatement(w.program[i], w.layout[i])
         /\ w.before \in Seq(LexemeSet) /\ AllGap(w.before)
         /\ StatementsLexemes(w) \in Seq(Seq(LexemeSet))
         /\ Len(StatementsLexemes(w)) = Len(w.program)
         /\ FlattenSeq(StatementsLexemes(w)) \in Seq(LexemeSet)
         /\ Lexemes(w) = w.before \o FlattenSeq(StatementsLexemes(w))
         /\ Lexemes(w) \in Seq(LexemeSet) /\ AllApart(Lexemes(w))
  <1> DEFINE list == w.program
             xs == StatementsLexemes(w)
  <1>1. list \in Seq(ToSet(list)) /\ Len(list) \in Nat
    BY DEF IsWritten
  <1>2. \A i \in 1 .. Len(list) : IsStatement(list[i]) /\ FitsStatement(list[i], w.layout[i])
    BY DEF IsWritten
  <1>3. w.before \in Seq(LexemeSet) /\ AllGap(w.before)
    BY GapsTyped DEF IsWritten
  <1>4. xs \in Seq(Seq(LexemeSet)) /\ Len(xs) = Len(list)
    <2>1. \A i \in 1 .. Len(list) : StatementLexemes(list[i], w.layout[i]) \in Seq(LexemeSet)
      BY <1>2, StatementTyped
    <2> QED
      BY <1>1, <2>1 DEF StatementsLexemes
  <1>5. FlattenSeq(xs) \in Seq(LexemeSet)
    BY <1>4, FlattenLays
  <1>6. Lexemes(w) = w.before \o FlattenSeq(xs)
    BY DEF Lexemes, StatementsLexemes
  <1>7. Lexemes(w) \in Seq(LexemeSet)
    BY <1>3, <1>5, <1>6, ConcatTyped
  <1>8. AllApart(Lexemes(w))
    BY DEF IsWritten, AllApart
  <1> QED
    BY <1>1, <1>2, <1>3, <1>4, <1>5, <1>6, <1>7, <1>8

\* Compiling a written program comes to its own tree, in strict parsing too.
LEMMA WrittenReads ==
  ASSUME NEW w, IsWritten(w)
  PROVE  \E c : Clean(Text(w), c) /\ Done(c) /\ c[4] = w.program
  <1> DEFINE s == Text(w)
             list == w.program
             xs == StatementsLexemes(w)
             y == FlattenSeq(xs)
             k == Len(list)
             ls == Lexemes(w)
  <1>1. /\ ls \in Seq(LexemeSet) /\ AllApart(ls) /\ ls = w.before \o y
        /\ w.before \in Seq(LexemeSet) /\ y \in Seq(LexemeSet) /\ AllGap(w.before)
        /\ xs \in Seq(Seq(LexemeSet)) /\ Len(xs) = k
    BY ProgramTyped
  <1>2. /\ list \in Seq(ToSet(list)) /\ k \in Nat
        /\ \A i \in 1 .. k : IsStatement(list[i]) /\ FitsStatement(list[i], w.layout[i])
    BY ProgramTyped
  <1>3. s = FlattenSeq([i \in 1 .. Len(ls) |-> ls[i].text])
    BY DEF Text
  <1> HIDE DEF s, ls
  <1>4. PICK t0 \in Seq(Tokens) :
          /\ Spans(t0 \o <<EofToken>>, 0, ls, Len(t0))
          /\ Clean(s, <<"parsing", 0, t0 \o <<EofToken>>, <<>>, NoNode>>)
    BY <1>1, <1>3, TextLexes
  <1> DEFINE t == t0 \o <<EofToken>>
             e == Len(t0)
  <1>5. t \in Seq(Tokens) /\ e \in Nat /\ Len(t) = e + 1 /\ TypeIn(t, e) = "eof"
    <2>1. EofToken \in Tokens
      BY DEF EofToken, Tokens, TokenTypes
    <2>2. t \in Seq(Tokens) /\ Len(t) = e + 1 /\ t[e + 1] = EofToken /\ e \in Nat
      BY <2>1
    <2> QED
      BY <2>2 DEF TypeIn, EofToken
  <1>6. Spans(t, 0, ls, e) /\ InProgram(s, 0, t, <<>>)
    BY <1>4 DEF InProgram
  <1> HIDE DEF t, e, xs, y
  <1>7. PICK m \in Nat : Spans(t, 0, w.before, m) /\ Spans(t, m, y, e)
    BY <1>1, <1>6, SpansConcat
  <1>8. Newlines(t, 0, m)
    BY <1>1, <1>7, SpansGap
  <1>9. PICK v \in [1 .. Len(xs) + 1 -> Nat] :
          /\ v[1] = m /\ v[Len(xs) + 1] = e
          /\ \A i \in 1 .. Len(xs) : Spans(t, v[i], xs[i], v[i + 1])
    <2>1. Spans(t, m, FlattenSeq(xs), e)
      BY <1>7 DEF y
    <2>2. xs \in Seq(Seq(LexemeSet))
      BY <1>1
    <2> QED
      BY <2>1, <2>2, SpansFlatten
  <1>10. v \in [1 .. k + 1 -> Nat] /\ v[1] = m /\ v[k + 1] = e
    BY <1>1, <1>9
  <1>11. \A i \in 1 .. k : Spans(t, v[i], StatementLexemes(list[i], w.layout[i]), v[i + 1])
    <2>1. \A i \in 1 .. k : xs[i] = StatementLexemes(list[i], w.layout[i])
      BY DEF xs, StatementsLexemes
    <2> QED
      BY <1>1, <1>9, <2>1
  <1>12. v[k + 1] + 1 <= Len(t) /\ TypeIn(t, v[k + 1]) = "eof" /\ Newlines(t, 0, v[1])
    BY <1>5, <1>8, <1>10
  <1>13. PICK n \in Nat : Newlines(t, n, e) /\ InProgram(s, n, t, list)
    <2>1. 0 \in Nat
      OBVIOUS
    <2>2. \E n \in Nat : Newlines(t, n, v[k + 1]) /\ InProgram(s, n, t, list)
      BY <1>2, <1>5, <1>6, <1>10, <1>11, <1>12, <2>1, StatementsRead
    <2> QED
      BY <1>10, <2>2
  <1> DEFINE c == <<"parsing", n, t, list, NoNode>>
  <1>14. HereIn(t, n) = e
    <2>1. e \in 0 .. Len(t) - 1
      BY <1>5
    <2> QED
      BY <1>5, <1>13, <2>1, NewlinesSkipped
  <1>15. c[1] = "parsing" /\ c[2] = n /\ c[3] = t /\ c[4] = list
    OBVIOUS
  <1>16. Clean(s, c)
    BY <1>13 DEF InProgram
  <1> HIDE DEF c
  <1>17. Done(c)
    BY <1>5, <1>14, <1>15 DEF Done
  <1> QED
    BY <1>15, <1>16, <1>17 DEF s

-----------------------------------------------------------------------------
(* Written programs are read.                                                 *)

\* A call that compiles a written program, in whatever layout, succeeds and keeps the
\* program's own tree: strict or lenient, on the object or through the C API.
THEOREM WrittenProgramsAreRead == ApiSpec => []WrittenProgramsRead
  <1>1. OutcomeInv => WrittenProgramsRead
    <2> SUFFICES ASSUME OutcomeInv, NEW i \in DOMAIN log, NEW w \in log[i].call.written
                 PROVE  log[i].result.ok /\ log[i].ast = <<w.program>>
      BY DEF WrittenProgramsRead
    <2> DEFINE e == log[i]
               s == Text(w)
    <2>1. Sound(e)
      BY DEF OutcomeInv
    <2>2. IsWritten(w) /\ e.call.source = s
      <3>1. PICK calls \in Scripts : e.call \in ToSet(calls)
        BY <2>1 DEF Sound, AllCalls
      <3> QED
        BY <3>1, WrittenAssumption
    <2>3. PICK c : Clean(s, c) /\ Done(c) /\ c[4] = w.program
      BY <2>2, WrittenReads
    <2> HIDE DEF e, s
    <2>4. Outcome(s, e.result, e.ast)
      BY <2>1, <2>2 DEF Sound
    <2>5. e.result.ok
      <3>1. ASSUME ~e.result.ok PROVE FALSE
        <4>1. PICK d : Reached(s, d) /\ Rejects(d)
          BY <2>4, <3>1 DEF Outcome
        <4> QED
          BY <2>3, <4>1, CleanEnd
      <3> QED
        BY <3>1
    <2>6. e.ast = <<w.program>>
      <3>1. PICK d : Reached(s, d) /\ Done(d) /\ e.ast = <<d[4]>>
        BY <2>4, <2>5 DEF Outcome
      <3>2. Reached(s, c)
        BY <2>3 DEF Clean
      <3>3. d = c
        BY <2>3, <3>1, <3>2, OneOutcome
      <3> QED
        BY <2>3, <3>1, <3>3
    <2> QED
      BY <2>5, <2>6 DEF e
  <1> QED
    BY <1>1, OutcomesHold, PTL

================================================================================
