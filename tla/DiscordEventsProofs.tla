-------------------------- MODULE DiscordEventsProofs --------------------------
(***************************************************************************)
(* Proofs about the event queue, for any number of events.                 *)
(***************************************************************************)
EXTENDS DiscordEvents, SequenceTheorems, TLAPS

\* The variables the argument needs keep their types.
EventsTypeOK ==
  /\ emitted \in Nat
  /\ queue \in Seq(Nat) /\ handled \in Seq(Nat) /\ current \in Seq(Nat)

\* The event thread exists between start() and the join of stop(), and has an
\* event in its hands only while it runs the handlers.
ThreadAsOwned ==
  /\ owner = "connecting" => running /\ pc = "none"
  /\ owner \in {"disconnecting", "joining"} => ~running
  /\ owner = "free" /\ ~running => pc = "none"
  /\ pc # "handling" => current = <<>>

\* The thread waits, or is about to, only with nothing in the queue, and after
\* stop() only until the notification, unless that was missed.
WaitsForNothing ==
  pc \in {"deciding", "waiting"} =>
    queue = <<>> /\ (running \/ missed \/ owner = "disconnecting")

EventsInv == EventsTypeOK /\ ThreadAsOwned /\ WaitsForNothing /\ HandledInOrder

-----------------------------------------------------------------------------
(* Sequences *)

\* The events so far, and one more.
LEMMA NumberedAppend ==
  ASSUME NEW n \in Nat
  PROVE  Append([i \in 1 .. n |-> i], n + 1) = [i \in 1 .. n + 1 |-> i]
<1> DEFINE s == [i \in 1 .. n |-> i]
           t == [i \in 1 .. n + 1 |-> i]
<1>1. /\ s \in Seq(Nat) /\ Len(s) = n /\ \A i \in 1 .. n : s[i] = i
      /\ t \in Seq(Nat) /\ Len(t) = n + 1 /\ \A i \in 1 .. n + 1 : t[i] = i
  OBVIOUS
<1> HIDE DEF s, t
<1>2. /\ Append(s, n + 1) \in Seq(Nat) /\ Len(Append(s, n + 1)) = n + 1
      /\ \A i \in 1 .. n : Append(s, n + 1)[i] = i
      /\ Append(s, n + 1)[n + 1] = n + 1
  BY <1>1, AppendProperties
<1>3. \A i \in 1 .. n + 1 : Append(s, n + 1)[i] = t[i]
  BY <1>1, <1>2
<1>4. Append(s, n + 1) = t
  BY <1>1, <1>2, <1>3, SeqEqual
<1> QED BY <1>4 DEF s, t

\* An element put behind the second of two sequences is behind both.
LEMMA ConcatAppend ==
  ASSUME NEW S, NEW s \in Seq(S), NEW t \in Seq(S), NEW e \in S
  PROVE  s \o Append(t, e) = Append(s \o t, e)
<1>1. <<e>> \in Seq(S)
  OBVIOUS
<1>2. s \o Append(t, e) = s \o (t \o <<e>>)
  BY AppendIsConcat
<1>3. s \o (t \o <<e>>) = (s \o t) \o <<e>>
  BY <1>1, ConcatAssociative
<1>4. s \o t \in Seq(S)
  BY ConcatProperties
<1> QED BY <1>2, <1>3, <1>4, AppendIsConcat

\* Taking the first element apart and putting it back.
LEMMA HeadTailConcat ==
  ASSUME NEW S, NEW s \in Seq(S), s # <<>>
  PROVE  <<Head(s)>> \in Seq(S) /\ Tail(s) \in Seq(S) /\ <<Head(s)>> \o Tail(s) = s
<1>1. Head(s) \in S /\ Tail(s) \in Seq(S)
  BY HeadTailProperties
<1>2. <<Head(s)>> \in Seq(S) /\ Len(<<Head(s)>>) = 1 /\ <<Head(s)>>[1] = s[1]
  BY <1>1
<1>3. /\ Len(s) \in Nat \ {0} /\ Len(Tail(s)) = Len(s) - 1
      /\ \A i \in 1 .. Len(Tail(s)) : Tail(s)[i] = s[i + 1]
  BY HeadTailProperties, EmptySeq
<1> DEFINE h == <<Head(s)>>
           u == Tail(s)
<1> HIDE DEF h, u
<1>4. /\ h \o u \in Seq(S) /\ Len(h \o u) = Len(s)
      /\ \A i \in 1 .. Len(s) : (h \o u)[i] = IF i <= 1 THEN h[i] ELSE u[i - 1]
  <2>1. h \in Seq(S) /\ u \in Seq(S) /\ Len(h) = 1 /\ Len(u) = Len(s) - 1
    BY <1>1, <1>2, <1>3 DEF h, u
  <2>2. /\ h \o u \in Seq(S) /\ Len(h \o u) = Len(h) + Len(u)
        /\ \A i \in 1 .. Len(h) + Len(u) :
             (h \o u)[i] = IF i <= Len(h) THEN h[i] ELSE u[i - Len(h)]
    BY <2>1, ConcatProperties
  <2>3. Len(h) + Len(u) = Len(s)
    BY <2>1, <1>3
  <2> QED BY <2>1, <2>2, <2>3
<1>5. ASSUME NEW i \in 1 .. Len(s) PROVE (h \o u)[i] = s[i]
  <2>1. CASE i = 1
    <3>1. h[1] = s[1]
      BY <1>2 DEF h
    <3>2. (h \o u)[1] = h[1]
      BY <1>4, <2>1
    <3> QED BY <2>1, <3>1, <3>2
  <2>2. CASE i # 1
    <3>1. i - 1 \in 1 .. Len(u) /\ u[i - 1] = s[(i - 1) + 1]
      BY <1>3, <2>2 DEF u
    <3> QED BY <1>3, <1>4, <2>2, <3>1
  <2> QED BY <2>1, <2>2
<1>6. h \o u = s
  BY <1>4, <1>5, SeqEqual
<1> QED BY <1>1, <1>2, <1>6 DEF h, u

-----------------------------------------------------------------------------
(* Steps *)

\* At first there is no event and no thread.
LEMMA EventsInitInv == EventsInit => EventsInv
<1> SUFFICES ASSUME EventsInit PROVE EventsInv
  OBVIOUS
<1>1. <<>> \in Seq(Nat)
  OBVIOUS
<1>2. EventsTypeOK /\ ThreadAsOwned /\ WaitsForNothing
  BY <1>1 DEF EventsInit, EventsTypeOK, ThreadAsOwned, WaitsForNothing
<1>3. HandledInOrder
  <2>1. handled \o current \o queue = <<>>
    BY <1>1, ConcatEmptySeq DEF EventsInit
  <2>2. [i \in 1 .. 0 |-> i] = <<>>
    OBVIOUS
  <2> QED BY <2>1, <2>2 DEF EventsInit, HandledInOrder
<1> QED BY <1>2, <1>3 DEF EventsInv

\* emit_event() appends the next event and wakes a waiting thread.
LEMMA EmitInv ==
  ASSUME EventsInv, Emit
  PROVE  EventsInv'
<1> USE DEF EventsInv
<1>1. /\ emitted' = emitted + 1 /\ queue' = Append(queue, emitted + 1)
      /\ handled' = handled /\ current' = current
  BY DEF Emit
<1>2. EventsTypeOK'
  BY <1>1, AppendProperties DEF EventsTypeOK
<1>3. ThreadAsOwned' /\ WaitsForNothing'
  BY DEF ThreadAsOwned, WaitsForNothing, Emit, MutexFree, Notified
<1>4. HandledInOrder'
  <2>1. handled \o current \in Seq(Nat) /\ queue \in Seq(Nat) /\ emitted + 1 \in Nat
    BY ConcatProperties DEF EventsTypeOK
  <2>2. (handled \o current) \o Append(queue, emitted + 1)
          = Append((handled \o current) \o queue, emitted + 1)
    BY <2>1, ConcatAppend
  <2>3. (handled \o current) \o queue = [i \in 1 .. emitted |-> i]
    BY DEF HandledInOrder
  <2>4. Append([i \in 1 .. emitted |-> i], emitted + 1) = [i \in 1 .. emitted + 1 |-> i]
    BY NumberedAppend DEF EventsTypeOK
  <2> QED BY <1>1, <2>2, <2>3, <2>4 DEF HandledInOrder
<1> QED BY <1>2, <1>3, <1>4

\* The thread takes an event out of the queue ...
LEMMA TakeInv ==
  ASSUME EventsInv, Take
  PROVE  EventsInv'
<1> USE DEF EventsInv
<1>1. current = <<>> /\ queue # <<>> /\ queue \in Seq(Nat) /\ handled \in Seq(Nat)
  BY DEF Take, ThreadAsOwned, EventsTypeOK
<1>2. current' = <<Head(queue)>> /\ queue' = Tail(queue) /\ handled' = handled /\ emitted' = emitted
  BY DEF Take
<1>3. /\ <<Head(queue)>> \in Seq(Nat) /\ Tail(queue) \in Seq(Nat)
      /\ <<Head(queue)>> \o Tail(queue) = queue
  BY <1>1, HeadTailConcat
<1>4. EventsTypeOK'
  BY <1>1, <1>2, <1>3 DEF EventsTypeOK
<1>5. ThreadAsOwned' /\ WaitsForNothing'
  BY DEF ThreadAsOwned, WaitsForNothing, Take
<1>6. HandledInOrder'
  <2>1. handled \o current = handled
    BY <1>1, ConcatEmptySeq
  <2>2. (handled \o <<Head(queue)>>) \o Tail(queue) = handled \o queue
    BY <1>1, <1>3, ConcatAssociative
  <2> QED BY <1>2, <2>1, <2>2 DEF HandledInOrder
<1> QED BY <1>4, <1>5, <1>6

\* ... and gives it to the handlers.
LEMMA HandleInv ==
  ASSUME EventsInv, Handle
  PROVE  EventsInv'
<1> USE DEF EventsInv
<1>1. /\ handled' = handled \o current /\ current' = <<>>
      /\ queue' = queue /\ emitted' = emitted
  BY DEF Handle, Move
<1>2. handled \o current \in Seq(Nat) /\ <<>> \in Seq(Nat)
  BY ConcatProperties DEF EventsTypeOK
<1>3. EventsTypeOK'
  BY <1>1, <1>2 DEF EventsTypeOK
<1>4. ThreadAsOwned' /\ WaitsForNothing'
  BY DEF ThreadAsOwned, WaitsForNothing, Handle, Move
<1>5. HandledInOrder'
  <2>1. (handled \o current) \o <<>> = handled \o current
    BY <1>2, ConcatEmptySeq
  <2> QED BY <1>1, <2>1 DEF HandledInOrder
<1> QED BY <1>3, <1>4, <1>5

\* The other steps leave the events alone.
LEMMA ControlInv ==
  ASSUME EventsInv,
         \/ Start \/ StartThread \/ Stop \/ StopNotify \/ StopJoin
         \/ Test \/ Decide \/ Wait \/ SpuriousWakeup \/ Drained
         \/ UNCHANGED eventVars
  PROVE  EventsInv'
<1> USE DEF EventsInv
<1>1. UNCHANGED <<queue, emitted, handled, current>>
  BY DEF Start, StartThread, Stop, StopNotify, StopJoin, Test, Decide, Wait, SpuriousWakeup,
         Drained, Move, eventVars
<1>2. EventsTypeOK' /\ HandledInOrder'
  BY <1>1 DEF EventsTypeOK, HandledInOrder
<1>3. ThreadAsOwned'
  BY <1>1 DEF ThreadAsOwned, Start, StartThread, Stop, StopNotify, StopJoin, Test, Decide,
              Wait, SpuriousWakeup, Drained, Move, Notified, eventVars
<1>4. WaitsForNothing'
  BY <1>1 DEF WaitsForNothing, ThreadAsOwned, Start, StartThread, Stop, StopNotify, StopJoin,
              Test, Decide, Wait, SpuriousWakeup, Drained, Move, Notified, eventVars
<1> QED BY <1>2, <1>3, <1>4

\* Every step keeps the invariant.
LEMMA EventsStepInv == EventsInv /\ [EventsNext]_eventVars => EventsInv'
<1> SUFFICES ASSUME EventsInv, [EventsNext]_eventVars PROVE EventsInv'
  OBVIOUS
<1>1. CASE Emit
  BY <1>1, EmitInv
<1>2. CASE Take
  BY <1>2, TakeInv
<1>3. CASE Handle
  BY <1>3, HandleInv
<1>4. CASE \/ Start \/ StartThread \/ Stop \/ StopNotify \/ StopJoin
           \/ Test \/ Decide \/ Wait \/ SpuriousWakeup \/ Drained
           \/ UNCHANGED eventVars
  BY <1>4, ControlInv
<1> QED BY <1>1, <1>2, <1>3, <1>4 DEF EventsNext, EventThread

\* The invariant holds of every behaviour of the event queue.
THEOREM EventsInvariant == EventsSpec => []EventsInv
BY EventsInitInv, EventsStepInv, PTL DEF EventsSpec

\* Every event of emit_event() reaches the handlers of process_events() once and
\* in order, over any number of starts and stops and for any number of events.
THEOREM EventsInOrder == EventsSpec => []HandledInOrder
<1>1. EventsInv => HandledInOrder
  BY DEF EventsInv
<1> QED BY <1>1, EventsInvariant, PTL

\* The event thread never waits for a notification while an event is queued; when
\* the engine was stopped it waits only if stop() notified before its wait began.
THEOREM NoEventIsSleptOn == EventsSpec => []WaitsForNothing
<1>1. EventsInv => WaitsForNothing
  BY DEF EventsInv
<1> QED BY <1>1, EventsInvariant, PTL
=============================================================================
