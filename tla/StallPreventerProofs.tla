------------------------- MODULE StallPreventerProofs -------------------------
(***************************************************************************)
(* Proofs about the stall preventer, for every set of agents, threshold    *)
(* and interval.                                                           *)
(***************************************************************************)
EXTENDS StallPreventer, TLAPS

USE StallAssumption

\* The thread exists unless the owner is through with it.
ThreadAsOwned ==
  /\ owner = "joining" => ~running
  /\ owner = "free" /\ ~running => pc = "none"

\* What the check found under its old time still holds under the mutex ...
SuspectsAreSilent == pc = "locking" => suspects \subseteq Silent

\* ... and a recovery resets every timer.
NoneOlderThanRecovery == \A a \in known : age[a] <= quiet

StallInv ==
  StallTypeOK /\ ThreadAsOwned /\ SuspectsAreSilent /\ NoneOlderThanRecovery

\* Ageing stays in range and keeps the order.
LEMMA OlderKeepsOrder ==
  ASSUME NEW m \in Ages, NEW n \in Ages
  PROVE  /\ Older(n) \in Ages
         /\ m <= n => Older(m) <= Older(n)
         /\ m > Threshold => Older(m) > Threshold
BY DEF Ages, Older

\* Activities make agents younger, never older.
LEMMA RefreshKeeps ==
  ASSUME StallTypeOK, NEW agents \in SUBSET Agents, Refresh(agents)
  PROVE  /\ known' \subseteq Agents /\ age' \in [Agents -> Ages]
         /\ \A a \in agents : age'[a] = 0
         /\ \A a \in Agents \ agents : age'[a] = age[a]
BY DEF StallTypeOK, Refresh, Ages

-----------------------------------------------------------------------------

\* The initial states have the invariant.
LEMMA StallInitInv == StallInit => StallInv
<1> SUFFICES ASSUME StallInit PROVE StallInv
  OBVIOUS
<1>1. age \in [Agents -> Ages] /\ quiet \in Ages
  BY DEF StallInit, Ages
<1>2. pause \in 0 .. Interval
  BY DEF StallInit
<1>3. StallTypeOK
  BY <1>1, <1>2 DEF StallInit, StallTypeOK
<1> QED
  BY <1>3 DEF StallInit, StallInv, ThreadAsOwned, SuspectsAreSilent, NoneOlderThanRecovery

\* Other threads keep the invariant: an activity acquits its agent.
LEMMA ActivityInv ==
  ASSUME StallInv, NEW a \in Agents, RegisterAgentActivity(a)
  PROVE  StallInv'
<1> USE DEF StallInv
<1>1. /\ known' = known \cup {a} /\ known' \subseteq Agents
      /\ age' \in [Agents -> Ages] /\ age'[a] = 0
      /\ \A b \in Agents \ {a} : age'[b] = age[b]
  BY RefreshKeeps DEF RegisterAgentActivity, Refresh
<1>2. StallTypeOK'
  BY <1>1 DEF StallTypeOK, RegisterAgentActivity
<1>3. ThreadAsOwned'
  BY DEF ThreadAsOwned, RegisterAgentActivity
<1>4. SuspectsAreSilent'
  BY <1>1 DEF SuspectsAreSilent, Silent, StallTypeOK, RegisterAgentActivity
<1>5. NoneOlderThanRecovery'
  <2> SUFFICES ASSUME NEW b \in known' PROVE age'[b] <= quiet'
    BY DEF NoneOlderThanRecovery
  <2>1. CASE b = a
    BY <1>1, <2>1 DEF StallTypeOK, RegisterAgentActivity, Ages
  <2>2. CASE b # a
    BY <1>1, <2>2 DEF NoneOlderThanRecovery, StallTypeOK, RegisterAgentActivity
  <2> QED BY <2>1, <2>2
<1> QED BY <1>2, <1>3, <1>4, <1>5

\* The configuration is loaded while there is no check.
LEMMA InitializeInv ==
  ASSUME StallInv, Initialize
  PROVE  StallInv'
<1> USE DEF StallInv
<1>1. PICK agents \in SUBSET Agents : Refresh(agents)
  BY DEF Initialize
<1>2. /\ known' = known \cup agents /\ known' \subseteq Agents
      /\ age' \in [Agents -> Ages] /\ \A a \in agents : age'[a] = 0
      /\ \A b \in Agents \ agents : age'[b] = age[b]
  BY <1>1, RefreshKeeps DEF Refresh
<1>3. StallTypeOK'
  BY <1>2 DEF StallTypeOK, Initialize
<1>4. ThreadAsOwned' /\ SuspectsAreSilent'
  BY DEF ThreadAsOwned, SuspectsAreSilent, Initialize
<1>5. NoneOlderThanRecovery'
  <2> SUFFICES ASSUME NEW b \in known' PROVE age'[b] <= quiet'
    BY DEF NoneOlderThanRecovery
  <2>1. CASE b \in agents
    BY <1>2, <2>1 DEF StallTypeOK, Initialize, Ages
  <2>2. CASE b \notin agents
    BY <1>2, <2>2 DEF NoneOlderThanRecovery, StallTypeOK, Initialize
  <2> QED BY <2>1, <2>2
<1> QED BY <1>3, <1>4, <1>5

\* Time passes for agents and recovery alike.
LEMMA TickInv ==
  ASSUME StallInv, Tick
  PROVE  StallInv'
<1> USE DEF StallInv
<1>1. age \in [Agents -> Ages] /\ quiet \in Ages /\ known \subseteq Agents
  BY DEF StallTypeOK
<1>2. age' \in [Agents -> Ages] /\ quiet' \in Ages
  BY <1>1, OlderKeepsOrder DEF Tick
<1>3. \A a \in known : age'[a] = Older(age[a])
  BY <1>1 DEF Tick
<1>4. pause' \in 0 .. Interval
  BY DEF Tick, StallTypeOK
<1>5. StallTypeOK'
  BY <1>2, <1>4 DEF StallTypeOK, Tick
<1>6. ThreadAsOwned'
  BY DEF ThreadAsOwned, Tick
<1>7. SuspectsAreSilent'
  BY <1>1, <1>3, OlderKeepsOrder DEF SuspectsAreSilent, Silent, Tick
<1>8. NoneOlderThanRecovery'
  BY <1>1, <1>3, OlderKeepsOrder DEF NoneOlderThanRecovery, Tick
<1> QED BY <1>5, <1>6, <1>7, <1>8

\* A recovery refreshes every agent.
LEMMA RecoverInv ==
  ASSUME StallInv, Recover
  PROVE  StallInv'
<1> USE DEF StallInv
<1>1. /\ known' = known /\ age' \in [Agents -> Ages]
      /\ \A a \in known : age'[a] = 0
  BY RefreshKeeps DEF Recover, Refresh, StallTypeOK
<1>2. StallTypeOK'
  BY <1>1 DEF StallTypeOK, Recover, Sleep, Ages
<1>3. ThreadAsOwned' /\ SuspectsAreSilent'
  BY DEF ThreadAsOwned, SuspectsAreSilent, Recover, Sleep
<1>4. NoneOlderThanRecovery'
  BY <1>1 DEF NoneOlderThanRecovery, Recover
<1> QED BY <1>2, <1>3, <1>4

\* The other steps leave the timers alone.
LEMMA ControlInv ==
  ASSUME StallInv,
         \/ Start \/ Stop \/ StopJoin \/ Test \/ ReadTime \/ NoStall \/ Stall \/ Wake
         \/ UNCHANGED stallVars
  PROVE  StallInv'
<1> USE DEF StallInv
<1>1. known' = known /\ age' = age /\ quiet' = quiet
  BY DEF Start, Stop, StopJoin, Test, ReadTime, NoStall, Stall, Wake, stallVars
<1>2. StallTypeOK'
  <2>1. suspects' \subseteq Agents
    BY DEF StallTypeOK, Start, Stop, StopJoin, Test, ReadTime, NoStall, Stall, Wake,
           stallVars, Sleep, Silent
  <2>2. pause' \in 0 .. Interval
    BY DEF StallTypeOK, Start, Stop, StopJoin, Test, ReadTime, NoStall, Stall, Wake,
           stallVars, Sleep
  <2>3. /\ running' \in BOOLEAN /\ owner' \in {"free", "joining"}
        /\ pc' \in {"none", "testing", "reading", "locking", "recovering", "sleeping", "ended"}
    BY DEF StallTypeOK, Start, Stop, StopJoin, Test, ReadTime, NoStall, Stall, Wake,
           stallVars, Sleep
  <2> QED BY <1>1, <2>1, <2>2, <2>3 DEF StallTypeOK
<1>3. ThreadAsOwned'
  BY DEF ThreadAsOwned, StallTypeOK, Start, Stop, StopJoin, Test, ReadTime, NoStall, Stall,
         Wake, stallVars, Sleep
<1>4. SuspectsAreSilent'
  BY <1>1 DEF SuspectsAreSilent, Silent, Start, Stop, StopJoin, Test, ReadTime, NoStall,
              Stall, Wake, stallVars, Sleep
<1>5. NoneOlderThanRecovery'
  BY <1>1 DEF NoneOlderThanRecovery
<1> QED BY <1>2, <1>3, <1>4, <1>5

\* Every step keeps the invariant.
LEMMA StallStepInv == StallInv /\ [StallNext]_stallVars => StallInv'
<1> SUFFICES ASSUME StallInv, [StallNext]_stallVars PROVE StallInv'
  OBVIOUS
<1>1. CASE \E a \in Agents : RegisterAgentActivity(a)
  BY <1>1, ActivityInv
<1>2. CASE Initialize
  BY <1>2, InitializeInv
<1>3. CASE Tick
  BY <1>3, TickInv
<1>4. CASE Recover
  BY <1>4, RecoverInv
<1>5. CASE \/ Start \/ Stop \/ StopJoin \/ Test \/ ReadTime \/ NoStall \/ Stall \/ Wake
           \/ UNCHANGED stallVars
  BY <1>5, ControlInv
<1> QED BY <1>1, <1>2, <1>3, <1>4, <1>5 DEF StallNext, Monitor

\* The invariant holds of every behaviour of the stall preventer.
THEOREM StallInvariant == StallSpec => []StallInv
BY StallInitInv, StallStepInv, PTL DEF StallSpec

\* The variables of StallPreventerAgent keep their types: ages and pauses stay
\* within their bounds.
THEOREM StallTypeCorrect == StallSpec => []StallTypeOK
<1>1. StallInv => StallTypeOK
  BY DEF StallInv
<1> QED BY <1>1, StallInvariant, PTL

\* CheckForStalls() recovers only for an agent that is silent at that moment,
\* and not before the threshold has passed since the last recovery.
THEOREM AlarmsJustified == StallSpec => AlarmsAreJustified
<1>1. ASSUME StallInv, [StallNext]_stallVars
      PROVE  [pc' = "recovering" => pc = "recovering" \/ (Silent # {} /\ quiet > Threshold)]_stallVars
  <2> SUFFICES ASSUME pc' = "recovering", pc # "recovering"
               PROVE  Silent # {} /\ quiet > Threshold
    OBVIOUS
  <2>1. Stall
    BY <1>1 DEF StallNext, Monitor, RegisterAgentActivity, Initialize, Start, Stop, StopJoin,
                Tick, Test, ReadTime, NoStall, Recover, Wake, Sleep, stallVars
  <2>2. PICK a \in suspects : a \in Silent
    BY <1>1, <2>1 DEF Stall, StallInv, SuspectsAreSilent
  <2>3. age[a] > Threshold /\ age[a] <= quiet /\ age[a] \in Ages /\ quiet \in Ages
    BY <1>1, <2>2 DEF Silent, StallInv, NoneOlderThanRecovery, StallTypeOK
  <2> QED BY <2>2, <2>3 DEF Ages
<1> QED BY <1>1, StallInvariant, PTL DEF StallSpec, AlarmsAreJustified
=============================================================================
