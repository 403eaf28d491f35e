------------------------------ MODULE BackupProofs ------------------------------
(***************************************************************************)
(* Proofs about class BackupAutomationEngine: its jobs, for every set of   *)
(* targets and any number of threads and backups, and its scheduler, for   *)
(* every set of schedules and any length of time.                          *)
(***************************************************************************)
EXTENDS BackupJobs, BackupScheduler, FiniteSetTheorems, TLAPS

-----------------------------------------------------------------------------
(* The jobs: what the variables hold. *)

\* Before its result is recorded a job is working.
Working == {"begun", "running", "settled", "counted", "measured", "leaving", "left"}
Stages == Working \cup {"none", "recorded", "appending", "done"}
Outcomes == Names \X BOOLEAN

JobsTypeOK ==
  /\ targets \in [Names -> {"unknown", "disabled", "enabled"}]
  /\ call \in {"none", "one", "serial", "parallel"}
  /\ todo \in Seq(Names) /\ threads \in SUBSET Names
  /\ job \in [Names -> Stages] /\ success \in [Names -> BOOLEAN]
  /\ loaded \in [Names -> Nat] /\ active \in Nat /\ completed \in Nat /\ failed \in Nat
  /\ finite \in BOOLEAN /\ overlapped \in BOOLEAN
  /\ ended \in Seq(Outcomes) /\ history \in Seq(Outcomes)
  /\ results \in Seq(Names) /\ seen \in [Names -> Seq(Names)]

-----------------------------------------------------------------------------
(* The jobs: the calls and the results they collect. *)

Begun(t) == job[t] # "none"
Busy(t) == job[t] \notin {"none", "done"}

\* What a call, and the lack of one, leaves to the loop and its jobs.
CallShape ==
  /\ call = "none" => job = Idle
  /\ call \in {"none", "one"} => todo = <<>> /\ results = <<>>
  /\ call # "parallel" => threads = {}
  /\ call = "one" => \A t \in Names : job[t] \notin {"recorded", "appending"}
  /\ IsInjective(todo)
  /\ \A t \in ToSet(todo) : ~Begun(t)
  /\ \A t \in threads : Begun(t)
  /\ call \in {"serial", "parallel"} =>
       /\ \A t \in Names : Begun(t) => t \in Enabled
       /\ \A t \in Enabled : Begun(t) \/ t \in ToSet(todo)

\* The loop runs one job at a time itself.
LoopAlone == \A t, u \in Names \ threads : Busy(t) /\ Busy(u) => t = u

\* A vector of results: targets that are done, each once.
Collected(s) == IsInjective(s) /\ \A u \in ToSet(s) : job[u] = "done"

NoneInvented ==
  /\ Collected(results)
  /\ \A t \in Names : job[t] = "appending" => Collected(seen[t])

\* No append overlaps another where threads suffice.
Sufficient ==
  \/ call = "serial"
  \/ call = "parallel" /\ Cardinality(Enabled) <= MaxJobs

NoneLost ==
  Sufficient =>
    /\ call = "parallel" => \A t \in Names : Begun(t) => t \in threads
    /\ \A t \in Names : job[t] = "done" => t \in ToSet(results)
    /\ \A t \in Names : job[t] = "appending" => seen[t] = results
    /\ \A t, u \in Names : job[t] = "appending" /\ job[u] = "appending" => t = u

ResultsInv == CallShape /\ LoopAlone /\ NoneInvented /\ NoneLost

-----------------------------------------------------------------------------
(* The jobs: the books. *)

\* The backups the current call still has to count.
Remaining == Unfinished \cup (ToSet(todo) \cap Enabled)

\* Counters do not wrap within the bound.
WithinBound == Len(ended) + Cardinality(Remaining) <= MaxBackups

HistoryIsRecent ==
  /\ history = SubSeq(ended, Len(ended) - Len(history) + 1, Len(ended))
  /\ Len(history) = IF Len(ended) > HistoryLimit THEN HistoryLimit ELSE Len(ended)

Successes == {i \in DOMAIN ended : ended[i][2]}
Failures == {i \in DOMAIN ended : ~ended[i][2]}
FirstSucceeded == ended = <<>> \/ ended[1][2]
One(b) == IF b THEN 1 ELSE 0

\* The metrics with the one job that is under way, by how far it has come.
MetricsOf(t) ==
  LET s == job[t]
      counted == s \in {"counted", "measured", "leaving", "left"}
  IN  /\ active = One(s \notin {"begun", "left"})
      /\ s = "begun" => loaded[t] = 0
      /\ s = "settled" => loaded[t] = IF success[t] THEN completed ELSE failed
      /\ s = "leaving" => loaded[t] = 1
      /\ completed = Cardinality(Successes) + One(counted /\ success[t])
      /\ failed = Cardinality(Failures) + One(counted /\ ~success[t])
      /\ finite <=> IF s \in {"measured", "leaving", "left"} /\ ended = <<>>
                    THEN success[t] ELSE FirstSucceeded

MetricsAtRest ==
  /\ active = 0
  /\ completed = Cardinality(Successes) /\ failed = Cardinality(Failures)
  /\ finite <=> FirstSucceeded

MetricsExact ==
  ~overlapped =>
    /\ \A t, u \in Unfinished : t = u
    /\ Unfinished = {} => MetricsAtRest
    /\ \A t \in Unfinished : MetricsOf(t)

BooksInv == WithinBound /\ HistoryIsRecent /\ MetricsExact

JobsInv == JobsTypeOK /\ ResultsInv /\ BooksInv

-----------------------------------------------------------------------------
(* Facts about the constants and about sequences. *)

\* There are finitely many targets.
LEMMA NamesFinite == IsFiniteSet(Names)
<1>1. Targets \in [1 .. Len(Targets) -> Names] /\ Len(Targets) \in Nat
  BY JobsAssumption DEF Names
<1>2. Targets \in Surjection(1 .. Len(Targets), Names)
  BY <1>1 DEF Surjection, Names, ToSet
<1> QED
  BY <1>1, <1>2, FS_Surjection, FS_Interval

\* Appending adds one element.
LEMMA AppendFacts ==
  ASSUME NEW S, NEW s \in Seq(S), NEW e \in S
  PROVE  /\ Append(s, e) \in Seq(S) /\ ToSet(Append(s, e)) = ToSet(s) \cup {e}
         /\ IsInjective(s) /\ e \notin ToSet(s) => IsInjective(Append(s, e))
<1> DEFINE r == Append(s, e)
<1>1. /\ r \in Seq(S) /\ Len(s) \in Nat /\ DOMAIN s = 1 .. Len(s)
      /\ DOMAIN r = 1 .. Len(s) + 1 /\ r[Len(s) + 1] = e
      /\ \A i \in 1 .. Len(s) : r[i] = s[i]
  OBVIOUS
<1> HIDE DEF r
<1>2. \A i \in 1 .. Len(s) + 1 : i \in 1 .. Len(s) \/ i = Len(s) + 1
  BY <1>1
<1>3. \A i \in 1 .. Len(s) : i \in 1 .. Len(s) + 1
  BY <1>1
<1>4. Len(s) + 1 \in 1 .. Len(s) + 1
  BY <1>1
<1>5. ToSet(r) = ToSet(s) \cup {e}
  BY <1>1, <1>2, <1>3, <1>4 DEF ToSet
<1>6. IsInjective(s) /\ e \notin ToSet(s) => IsInjective(r)
  BY <1>1, <1>2 DEF IsInjective, ToSet
<1> QED
  BY <1>1, <1>5, <1>6 DEF r

\* Taking the head leaves the other elements.
LEMMA TailFacts ==
  ASSUME NEW S, NEW s \in Seq(S), s # <<>>
  PROVE  /\ Head(s) \in S /\ Tail(s) \in Seq(S)
         /\ ToSet(s) = ToSet(Tail(s)) \cup {Head(s)}
         /\ IsInjective(s) => (IsInjective(Tail(s)) /\ Head(s) \notin ToSet(Tail(s)))
<1> DEFINE r == Tail(s)
<1>1. /\ r \in Seq(S) /\ Len(s) \in Nat \ {0} /\ DOMAIN s = 1 .. Len(s)
      /\ DOMAIN r = 1 .. Len(s) - 1 /\ Head(s) = s[1] /\ s[1] \in S
      /\ \A i \in 1 .. Len(s) - 1 : r[i] = s[i + 1]
  OBVIOUS
<1> HIDE DEF r
<1>2. \A i \in 1 .. Len(s) - 1 : i + 1 \in 1 .. Len(s) /\ i + 1 # 1
  BY <1>1
<1>3. \A i \in 1 .. Len(s) : i = 1 \/ (i - 1 \in 1 .. Len(s) - 1 /\ (i - 1) + 1 = i)
  BY <1>1
<1>4. 1 \in 1 .. Len(s)
  BY <1>1
<1>5. ToSet(s) = ToSet(r) \cup {Head(s)}
  <2>1. ASSUME NEW x \in ToSet(s) PROVE x \in ToSet(r) \cup {Head(s)}
    <3>1. PICK i \in 1 .. Len(s) : x = s[i]
      BY <1>1, <2>1 DEF ToSet
    <3>2. i = 1 \/ (x = r[i - 1] /\ i - 1 \in DOMAIN r)
      BY <1>1, <1>3, <3>1
    <3> QED
      BY <1>1, <3>1, <3>2 DEF ToSet
  <2>2. ToSet(r) \subseteq ToSet(s)
    BY <1>1, <1>2 DEF ToSet
  <2> QED
    BY <1>1, <1>4, <2>1, <2>2 DEF ToSet
<1>6. ASSUME IsInjective(s) PROVE IsInjective(r) /\ Head(s) \notin ToSet(r)
  <2>1. \A i, j \in 1 .. Len(s) - 1 : r[i] = r[j] => i + 1 = j + 1
    BY <1>1, <1>2, <1>6 DEF IsInjective
  <2>2. \A i \in 1 .. Len(s) - 1 : r[i] # Head(s)
    BY <1>1, <1>2, <1>4, <1>6 DEF IsInjective
  <2>3. \A i, j \in 1 .. Len(s) - 1 : i + 1 = j + 1 => i = j
    BY <1>1
  <2> QED
    BY <1>1, <2>1, <2>2, <2>3 DEF IsInjective, ToSet
<1> QED
  BY <1>1, <1>5, <1>6 DEF r

\* The empty vector.
LEMMA EmptyFacts == \A S : <<>> \in Seq(S) /\ ToSet(<<>>) = {} /\ IsInjective(<<>>)
BY DEF ToSet, IsInjective

-----------------------------------------------------------------------------
(* The jobs: types. *)

\* std::size_t arithmetic.
LEMMA WrapType == \A n \in Int : Wrap(n) \in Nat
BY JobsAssumption DEF Wrap

\* The engine starts with nothing configured.
LEMMA JobsInitType == JobsInit => JobsTypeOK
<1> SUFFICES ASSUME JobsInit PROVE JobsTypeOK
  OBVIOUS
<1>1. /\ todo \in Seq(Names) /\ results \in Seq(Names) /\ seen \in [Names -> Seq(Names)]
      /\ ended \in Seq(Outcomes) /\ history \in Seq(Outcomes)
  BY EmptyFacts DEF JobsInit
<1>2. job \in [Names -> Stages] /\ success \in [Names -> BOOLEAN] /\ loaded \in [Names -> Nat]
  BY DEF JobsInit, Idle, Stages
<1>3. finite \in BOOLEAN /\ overlapped \in BOOLEAN
  BY DEF JobsInit
<1> QED
  BY <1>1, <1>2, <1>3 DEF JobsInit, JobsTypeOK

\* Every step keeps the types.
LEMMA JobsTypeStep == JobsTypeOK /\ [JobsNext]_jobsVars => JobsTypeOK'
<1> SUFFICES ASSUME JobsTypeOK, [JobsNext]_jobsVars PROVE JobsTypeOK'
  OBVIOUS
<1> USE DEF JobsTypeOK
<1>1. ASSUME NEW t \in Names, BeginJob(t),
             targets' = targets, todo' \in Seq(Names), threads' \in SUBSET Names,
             call' \in {"none", "one", "serial", "parallel"}, UNCHANGED appends
      PROVE  JobsTypeOK'
  BY <1>1 DEF BeginJob, metrics, appends, Stages, Working
<1>2. ASSUME NEW t \in Names, ConfigureTarget(t) PROVE JobsTypeOK'
  BY <1>2 DEF ConfigureTarget, metrics, appends, ghosts
<1>3. ASSUME NEW t \in Names, ExecuteOne(t) PROVE JobsTypeOK'
  BY <1>1, <1>3 DEF ExecuteOne
<1>4. CASE ExecuteAll
  <2>1. Targets \in Seq(Names) /\ <<>> \in Seq(Names)
    BY JobsAssumption DEF Names
  <2> QED
    BY <1>4, <2>1 DEF ExecuteAll, metrics, ghosts
<1>5. CASE SkipTarget
  BY <1>5, TailFacts DEF SkipTarget, metrics, appends, ghosts
<1>6. CASE Launch
  <2>1. Head(todo) \in Names /\ Tail(todo) \in Seq(Names)
    BY <1>6, TailFacts DEF Launch
  <2>2. threads' \in SUBSET Names
    BY <1>6, <2>1 DEF Launch
  <2>3. /\ todo' = Tail(todo) /\ BeginJob(Head(todo)) /\ UNCHANGED <<targets, call, appends>>
    BY <1>6 DEF Launch
  <2> QED
    BY <1>1, <2>1, <2>2, <2>3
<1>7. CASE Finish
  BY <1>7 DEF Finish, Idle, Stages, metrics, ghosts
<1>8. ASSUME NEW t \in Names, Run(t) PROVE JobsTypeOK'
  <2>1. UNCHANGED control
    BY <1>8 DEF Run, Enter, Settle, Count, Measure, Leave, Left, Record, AppendLoad, AppendStore
  <2>2. loaded[t] + 1 \in Int /\ loaded[t] - 1 \in Int
    OBVIOUS
  <2>3. CASE Enter(t) \/ Left(t)
    <3>1. active' \in Nat
      BY <2>2, <2>3, WrapType DEF Enter, Left
    <3>2. loaded' \in [Names -> Nat] /\ job' \in [Names -> Stages]
      <4>1. loaded' = [loaded EXCEPT ![t] = 0]
        BY <2>3 DEF Enter, Left
      <4>2. \E x \in {"running", "left"} : job' = [job EXCEPT ![t] = x]
        BY <2>3 DEF Enter, Left
      <4> QED
        BY <4>1, <4>2 DEF Stages, Working
    <3>3. UNCHANGED <<control, success, completed, failed, finite, history, appends, ghosts>>
      BY <2>3 DEF Enter, Left
    <3> QED
      BY <3>1, <3>2, <3>3 DEF control, appends, ghosts
  <2>4. CASE Settle(t) \/ Measure(t) \/ Leave(t)
    <3>1. job' \in [Names -> Stages]
      BY <2>4 DEF Settle, Measure, Leave, Stages, Working
    <3>2. loaded' \in [Names -> Nat]
      BY <2>4 DEF Settle, Measure, Leave
    <3>3. success' \in [Names -> BOOLEAN]
      BY <2>4 DEF Settle, Measure, Leave
    <3>4. finite' \in BOOLEAN
      BY <2>4 DEF Settle, Measure, Leave, metrics
    <3>5. UNCHANGED <<control, active, completed, failed, history, appends, ghosts>>
      BY <2>4 DEF Settle, Measure, Leave, metrics
    <3> QED
      BY <3>1, <3>2, <3>3, <3>4, <3>5 DEF control, appends, ghosts
  <2>5. CASE Count(t)
    BY <2>2, <2>5, WrapType DEF control, Count, Stages, Working, appends, ghosts
  <2>6. CASE Record(t)
    <3> DEFINE e == <<t, success[t]>>
    <3>1. e \in Outcomes
      BY DEF Outcomes
    <3> HIDE DEF e
    <3>2. /\ Append(ended, e) \in Seq(Outcomes) /\ Append(history, e) \in Seq(Outcomes)
          /\ Len(Append(history, e)) = Len(history) + 1 /\ Len(history) \in Nat
      BY <3>1
    <3>3. Tail(Append(history, e)) \in Seq(Outcomes)
      <4> DEFINE longer == Append(history, e)
      <4>1. longer \in Seq(Outcomes) /\ Len(longer) > 0
        BY <3>2
      <4> HIDE DEF longer
      <4>2. longer # <<>>
        BY <4>1
      <4> QED
        BY <4>1, <4>2 DEF longer
    <3>4. /\ ended' = Append(ended, e)
          /\ history' \in {Append(history, e), Tail(Append(history, e))}
          /\ job' \in [Names -> Stages] /\ success' \in [Names -> BOOLEAN]
          /\ UNCHANGED <<control, loaded, metrics, appends, overlapped>>
      BY <2>6 DEF Record, Stages, Working, e
    <3> QED
      BY <3>2, <3>3, <3>4 DEF control, metrics, appends
  <2>7. CASE AppendLoad(t)
    BY <2>7 DEF AppendLoad, control, Stages, Working, metrics, ghosts
  <2>8. CASE AppendStore(t)
    <3>1. Append(seen[t], t) \in Seq(Names) /\ <<>> \in Seq(Names)
      BY AppendFacts
    <3> QED
      BY <2>8, <3>1 DEF AppendStore, control, Stages, Working, metrics, ghosts
  <2> QED
    BY <1>8, <2>3, <2>4, <2>5, <2>6, <2>7, <2>8 DEF Run
<1>9. CASE UNCHANGED jobsVars
  BY <1>9 DEF jobsVars, control, metrics, appends, ghosts
<1> QED
  BY <1>2, <1>3, <1>4, <1>5, <1>6, <1>7, <1>8, <1>9 DEF JobsNext

-----------------------------------------------------------------------------
(* The jobs: results. *)

\* Whatever lists targets lists targets.
LEMMA ElementsAreNames ==
  ASSUME JobsTypeOK
  PROVE  /\ ToSet(todo) \subseteq Names /\ ToSet(results) \subseteq Names
         /\ \A t \in Names : ToSet(seen[t]) \subseteq Names
<1>1. \A s \in Seq(Names) : ToSet(s) \subseteq Names
  BY DEF ToSet
<1> QED
  BY <1>1 DEF JobsTypeOK

\* A job of execute_all_backups that goes on leaves the shape of the call.
LEMMA ShapeKept ==
  ASSUME JobsTypeOK, CallShape, call \notin {"none", "one"},
         UNCHANGED <<targets, call, todo, threads>>,
         \A u \in Names : job'[u] = "none" <=> job[u] = "none"
  PROVE  CallShape'
<1>1. Enabled' = Enabled /\ Enabled \subseteq Names /\ ToSet(todo)' = ToSet(todo)
  BY DEF Enabled
<1>2. \A u \in Names : Begun(u)' <=> Begun(u)
  BY DEF Begun
<1>3. threads \subseteq Names
  BY DEF JobsTypeOK
<1> QED
  BY <1>1, <1>2, <1>3, ElementsAreNames DEF CallShape

\* execute_backup_internal() of t, up to the recording of its result.
Work(t) ==
  \/ Enter(t) \/ Settle(t) \/ Count(t) \/ Measure(t) \/ Leave(t) \/ Left(t) \/ Record(t)

\* It moves its own job and nothing the calls look at.
LEMMA WorkStep ==
  ASSUME JobsTypeOK, NEW t \in Names, Work(t)
  PROVE  /\ job[t] \in Working /\ UNCHANGED control /\ UNCHANGED appends
         /\ \E x \in Working \cup {"recorded", "done"} :
              /\ job' = [job EXCEPT ![t] = x]
              /\ x = "done" => call = "one"
              /\ x = "recorded" => call # "one"
<1>1. /\ UNCHANGED control /\ UNCHANGED appends
      /\ job[t] \in {"begun", "running", "settled", "counted", "measured", "leaving", "left"}
  BY DEF Work, Enter, Settle, Count, Measure, Leave, Left, Record
<1>2. CASE Record(t)
  <2>1. \/ call = "one" /\ job' = [job EXCEPT ![t] = "done"]
        \/ call # "one" /\ job' = [job EXCEPT ![t] = "recorded"]
    BY <1>2 DEF Record
  <2> QED
    BY <1>1, <2>1 DEF Working
<1>3. CASE ~Record(t)
  <2>1. \E x \in {"running", "settled", "counted", "measured", "leaving", "left"} :
           job' = [job EXCEPT ![t] = x]
    BY <1>3 DEF Work, Enter, Settle, Count, Measure, Leave, Left
  <2> QED
    BY <1>1, <2>1 DEF Working
<1> QED
  BY <1>2, <1>3

LEMMA WorkKeepsResults ==
  ASSUME JobsTypeOK, ResultsInv, NEW t \in Names, Work(t)
  PROVE  ResultsInv'
<1> USE DEF JobsTypeOK, ResultsInv
<1>1. /\ job[t] \in Working
      /\ UNCHANGED <<targets, call, todo, threads, results, seen>> /\ Enabled' = Enabled
  BY WorkStep DEF control, appends, Enabled
<1>2. PICK x \in Working \cup {"recorded", "done"} :
        /\ job' = [job EXCEPT ![t] = x]
        /\ x = "done" => call = "one"
        /\ x = "recorded" => call # "one"
  BY WorkStep
<1>3. /\ \A u \in Names : job'[u] = IF u = t THEN x ELSE job[u]
      /\ x # "none" /\ x # "appending"
      /\ job[t] \notin {"none", "done", "recorded", "appending"}
  BY <1>1, <1>2 DEF Working
<1>4. call # "none"
  BY <1>3 DEF CallShape, Idle
<1>5. CallShape'
  BY <1>1, <1>2, <1>3, <1>4, ElementsAreNames DEF CallShape, Begun
<1>6. LoopAlone'
  BY <1>1, <1>3 DEF LoopAlone, Busy
<1>7. \A u \in Names : job[u] = "done" => job'[u] = "done"
  BY <1>3
<1>8. NoneInvented'
  BY <1>1, <1>3, <1>7, ElementsAreNames DEF NoneInvented, Collected
<1>9. NoneLost'
  BY <1>1, <1>2, <1>3 DEF NoneLost, Sufficient, Begun
<1> QED
  BY <1>5, <1>6, <1>8, <1>9

\* A job that begins is the only one of the loop, if it has no thread.
LEMMA LaunchKeepsResults ==
  ASSUME JobsTypeOK, ResultsInv, Launch
  PROVE  ResultsInv'
<1> USE DEF JobsTypeOK, ResultsInv
<1> DEFINE h == Head(todo)
<1>1. /\ h \in Names /\ ToSet(todo) = ToSet(Tail(todo)) \cup {h}
      /\ IsInjective(Tail(todo)) /\ h \notin ToSet(Tail(todo))
  BY TailFacts DEF Launch, CallShape
<1> HIDE DEF h
<1>2. /\ UNCHANGED <<targets, call, results, seen>> /\ Enabled' = Enabled
      /\ todo' = Tail(todo) /\ h \in Enabled /\ LoopIsFree /\ todo # <<>>
      /\ threads' = IF call = "parallel" /\ Cardinality(threads) < MaxJobs
                    THEN threads \cup {h} ELSE threads
      /\ \A u \in Names : job'[u] = IF u = h THEN "begun" ELSE job[u]
  BY <1>1 DEF Launch, BeginJob, appends, Enabled, h
<1>3. job[h] = "none" /\ call \in {"serial", "parallel"}
  BY <1>1, <1>2 DEF CallShape, Begun
<1>4. CallShape'
  <2>1. \A u \in ToSet(todo') : job'[u] = "none"
    BY <1>1, <1>2, ElementsAreNames DEF CallShape, Begun
  <2>2. \A u \in threads' : job'[u] # "none" /\ u \in Names
    BY <1>1, <1>2 DEF CallShape, Begun
  <2>3. \A u \in Names : job'[u] # "none" => u \in Enabled
    BY <1>2, <1>3 DEF CallShape, Begun
  <2>4. \A u \in Enabled : job'[u] # "none" \/ u \in ToSet(todo')
    BY <1>1, <1>2, <1>3 DEF CallShape, Begun, Enabled
  <2>5. call # "parallel" => threads' = {}
    BY <1>2, <1>3 DEF CallShape
  <2> QED
    BY <1>1, <1>2, <1>3, <2>1, <2>2, <2>3, <2>4, <2>5 DEF CallShape, Begun
<1>5. LoopAlone'
  BY <1>1, <1>2, <1>3 DEF LoopAlone, Busy, LoopIsFree
<1>6. NoneInvented'
  BY <1>2, <1>3, ElementsAreNames DEF NoneInvented, Collected
<1>7. ASSUME call = "parallel", Cardinality(Enabled) <= MaxJobs,
             \A u \in Names : Begun(u) => u \in threads
      PROVE  h \in threads'
  <2>1. threads \subseteq Enabled \ {h} /\ Enabled \subseteq Names
    BY <1>3 DEF CallShape, Begun, Enabled
  <2>2. /\ IsFiniteSet(Enabled) /\ IsFiniteSet(Enabled \ {h})
        /\ Cardinality(Enabled \ {h}) = Cardinality(Enabled) - 1
        /\ Cardinality(threads) <= Cardinality(Enabled \ {h})
        /\ Cardinality(threads) \in Nat /\ Cardinality(Enabled) \in Nat
    <3>1. IsFiniteSet(Enabled)
      BY <2>1, NamesFinite, FS_Subset
    <3>2. IsFiniteSet(Enabled \ {h}) /\ Cardinality(Enabled \ {h}) = Cardinality(Enabled) - 1
      BY <1>2, <3>1, FS_RemoveElement
    <3>3. IsFiniteSet(threads) /\ Cardinality(threads) <= Cardinality(Enabled \ {h})
      BY <2>1, <3>2, FS_Subset
    <3> QED
      BY <3>1, <3>2, <3>3, FS_CardinalityType
  <2>3. Cardinality(threads) < MaxJobs
    BY <1>7, <2>2, JobsAssumption
  <2> QED
    BY <1>2, <1>7, <2>3
<1>8. NoneLost'
  <2> SUFFICES ASSUME Sufficient PROVE NoneLost'
    BY <1>2 DEF NoneLost, Sufficient
  <2>1. call = "parallel" => \A u \in Names : job'[u] # "none" => u \in threads'
    BY <1>2, <1>7 DEF NoneLost, Sufficient, Begun
  <2>2. /\ \A u \in Names : job'[u] = "done" => u \in ToSet(results)
        /\ \A u \in Names : job'[u] = "appending" => seen[u] = results
        /\ \A u, v \in Names : job'[u] = "appending" /\ job'[v] = "appending" => u = v
    BY <1>2 DEF NoneLost
  <2> QED
    BY <1>2, <2>1, <2>2 DEF NoneLost, Begun
<1> QED
  BY <1>4, <1>5, <1>6, <1>8

\* The calls and the loop around the jobs.
LEMMA CallKeepsResults ==
  ASSUME JobsTypeOK, ResultsInv,
         \/ \E t \in Names : ConfigureTarget(t) \/ ExecuteOne(t)
         \/ ExecuteAll \/ SkipTarget \/ Finish \/ UNCHANGED jobsVars
  PROVE  ResultsInv'
<1> USE DEF JobsTypeOK, ResultsInv
<1>1. ASSUME NEW t \in Names, ConfigureTarget(t) PROVE ResultsInv'
  <2>1. call = "none" /\ UNCHANGED <<call, todo, threads, job, results, seen>>
    BY <1>1 DEF ConfigureTarget, appends
  <2> QED
    BY <2>1 DEF CallShape, LoopAlone, NoneInvented, NoneLost, Collected, Sufficient, Begun, Busy
<1>2. ASSUME NEW t \in Names, ExecuteOne(t) PROVE ResultsInv'
  <2>1. /\ call = "none" /\ call' = "one" /\ UNCHANGED <<todo, threads, results, seen>>
        /\ \A u \in Names : job'[u] = IF u = t THEN "begun" ELSE job[u]
    BY <1>2 DEF ExecuteOne, BeginJob, appends
  <2>2. /\ \A u \in Names : job[u] = "none"
        /\ todo = <<>> /\ results = <<>> /\ threads = {} /\ ToSet(<<>>) = {}
    BY <2>1, EmptyFacts DEF CallShape, Idle
  <2>3. CallShape'
    BY <2>1, <2>2 DEF CallShape
  <2>4. LoopAlone'
    BY <2>1, <2>2 DEF LoopAlone, Busy
  <2>5. NoneInvented' /\ NoneLost'
    BY <2>1, <2>2, EmptyFacts DEF NoneInvented, NoneLost, Collected, Sufficient
  <2> QED
    BY <2>3, <2>4, <2>5
<1>3. CASE ExecuteAll
  <2>1. /\ call = "none" /\ call' \in {"serial", "parallel"} /\ todo' = Targets
        /\ results' = <<>> /\ UNCHANGED <<threads, job, seen>> /\ Enabled' = Enabled
    BY <1>3 DEF ExecuteAll, Enabled
  <2>2. \A u \in Names : job[u] = "none"
    BY <2>1 DEF CallShape, Idle
  <2>3. threads = {} /\ ToSet(<<>>) = {} /\ IsInjective(<<>>) /\ IsInjective(Targets)
    BY <2>1, EmptyFacts, JobsAssumption DEF CallShape
  <2>4. Enabled \subseteq ToSet(Targets) /\ ToSet(Targets) = Names
    BY DEF Enabled, Names
  <2> QED
    BY <2>1, <2>2, <2>3, <2>4
       DEF CallShape, LoopAlone, NoneInvented, NoneLost, Collected, Sufficient, Begun, Busy
<1>4. CASE SkipTarget
  <2>1. /\ ToSet(todo) = ToSet(Tail(todo)) \cup {Head(todo)} /\ IsInjective(Tail(todo))
    BY <1>4, TailFacts DEF SkipTarget, CallShape
  <2>2. /\ todo' = Tail(todo) /\ Head(todo) \notin Enabled /\ Enabled' = Enabled
        /\ UNCHANGED <<call, threads, job, results, seen>> /\ todo # <<>>
    BY <1>4 DEF SkipTarget, appends, Enabled
  <2>3. CallShape'
    BY <2>1, <2>2 DEF CallShape, Begun
  <2>4. LoopAlone' /\ NoneInvented'
    BY <2>2 DEF LoopAlone, NoneInvented, Collected, Busy
  <2>5. NoneLost'
    BY <2>2 DEF NoneLost, Sufficient, Begun
  <2> QED
    BY <2>3, <2>4, <2>5
<1>5. CASE Finish
  <2>1. /\ call' = "none" /\ threads' = {} /\ job' = Idle /\ results' = <<>> /\ todo' = <<>>
    BY <1>5 DEF Finish, Joined
  <2>2. ToSet(<<>>) = {} /\ IsInjective(<<>>) /\ \A u \in Names : Idle[u] = "none"
    BY EmptyFacts DEF Idle
  <2> QED
    BY <2>1, <2>2
       DEF CallShape, LoopAlone, NoneInvented, NoneLost, Collected, Sufficient, Begun, Busy
<1>6. CASE UNCHANGED jobsVars
  <2>1. UNCHANGED <<targets, call, todo, threads, job, results, seen>> /\ Enabled' = Enabled
    BY <1>6 DEF jobsVars, control, appends, Enabled
  <2> QED
    BY <2>1 DEF CallShape, LoopAlone, NoneInvented, NoneLost, Collected, Sufficient, Begun, Busy
<1> QED
  BY <1>1, <1>2, <1>3, <1>4, <1>5, <1>6

\* Where threads suffice, the mutex, or the loop being alone, keeps appends apart.
LEMMA AppendKeepsResults ==
  ASSUME JobsTypeOK, ResultsInv, NEW t \in Names, AppendLoad(t) \/ AppendStore(t)
  PROVE  ResultsInv'
<1> USE DEF JobsTypeOK, ResultsInv
<1>1. UNCHANGED <<targets, call, todo, threads>> /\ Enabled' = Enabled
  BY DEF AppendLoad, AppendStore, control, Enabled
<1>2. CASE AppendLoad(t)
  <2>1. /\ job[t] = "recorded" /\ results' = results /\ MayAppend(t)
        /\ \A u \in Names : job'[u] = IF u = t THEN "appending" ELSE job[u]
        /\ \A u \in Names : seen'[u] = IF u = t THEN results ELSE seen[u]
    BY <1>2 DEF AppendLoad
  <2>2. call \notin {"none", "one"}
    BY <2>1 DEF CallShape, Idle
  <2>3. CallShape'
    BY <1>1, <2>1, <2>2, ShapeKept
  <2>4. LoopAlone'
    BY <1>1, <2>1 DEF LoopAlone, Busy
  <2>5. NoneInvented'
    BY <2>1, ElementsAreNames DEF NoneInvented, Collected
  <2>6. NoneLost'
    <3> SUFFICES ASSUME Sufficient PROVE NoneLost'
      BY <1>1 DEF NoneLost, Sufficient
    <3>1. \A u \in Names : job[u] # "appending"
      <4>1. CASE call = "serial"
        BY <2>1, <4>1 DEF CallShape, LoopAlone, Busy
      <4>2. CASE call = "parallel"
        BY <2>1, <4>2 DEF NoneLost, MayAppend, Begun
      <4> QED
        BY <4>1, <4>2 DEF Sufficient
    <3> QED
      BY <1>1, <2>1, <3>1 DEF NoneLost, Begun
  <2> QED
    BY <2>3, <2>4, <2>5, <2>6
<1>3. CASE AppendStore(t)
  <2>1. /\ job[t] = "appending" /\ results' = Append(seen[t], t)
        /\ \A u \in Names : job'[u] = IF u = t THEN "done" ELSE job[u]
        /\ \A u \in Names : seen'[u] = IF u = t THEN <<>> ELSE seen[u]
    BY <1>3 DEF AppendStore
  <2>2. call \notin {"none", "one"}
    BY <2>1 DEF CallShape, Idle
  <2>3. Collected(seen[t]) /\ t \notin ToSet(seen[t])
    BY <2>1 DEF NoneInvented, Collected
  <2>4. ToSet(results') = ToSet(seen[t]) \cup {t} /\ IsInjective(results')
    BY <2>1, <2>3, AppendFacts DEF Collected
  <2>5. CallShape'
    BY <1>1, <2>1, <2>2, ShapeKept
  <2>6. LoopAlone'
    BY <1>1, <2>1 DEF LoopAlone, Busy
  <2>7. \A u \in Names : job[u] = "done" => job'[u] = "done"
    BY <2>1
  <2>8. ToSet(results') \subseteq Names
    BY <2>4, ElementsAreNames
  <2>9. NoneInvented'
    <3>1. Collected(results)'
      BY <2>1, <2>3, <2>4, <2>7, <2>8 DEF Collected
    <3>2. ASSUME NEW u \in Names, job'[u] = "appending" PROVE Collected(seen[u])'
      <4>1. u # t /\ job[u] = "appending" /\ seen'[u] = seen[u] /\ Collected(seen[u])
        BY <2>1, <3>2 DEF NoneInvented
      <4> QED
        BY <2>7, <4>1, ElementsAreNames DEF Collected
    <3> QED
      BY <3>1, <3>2 DEF NoneInvented
  <2>10. NoneLost'
    <3> SUFFICES ASSUME Sufficient PROVE NoneLost'
      BY <1>1 DEF NoneLost, Sufficient
    <3>1. seen[t] = results /\ \A u \in Names : job'[u] # "appending"
      BY <2>1 DEF NoneLost
    <3> QED
      BY <1>1, <2>1, <2>4, <3>1 DEF NoneLost, Begun
  <2> QED
    BY <2>5, <2>6, <2>9, <2>10
<1> QED
  BY <1>2, <1>3

LEMMA ResultsStep == JobsTypeOK /\ ResultsInv /\ [JobsNext]_jobsVars => ResultsInv'
<1> SUFFICES ASSUME JobsTypeOK, ResultsInv, [JobsNext]_jobsVars PROVE ResultsInv'
  OBVIOUS
<1>1. ASSUME NEW t \in Names, Run(t) PROVE ResultsInv'
  BY <1>1, WorkKeepsResults, AppendKeepsResults DEF Run, Work
<1> QED
  BY <1>1, LaunchKeepsResults, CallKeepsResults DEF JobsNext

LEMMA ResultsInit == JobsInit => ResultsInv
BY EmptyFacts
   DEF JobsInit, ResultsInv, CallShape, LoopAlone, NoneInvented, NoneLost, Collected, Sufficient,
       Begun, Busy, Idle

\* Every call returns each result once, and all of them when it runs its jobs one
\* by one or has a thread for each: however the jobs interleave.
THEOREM ResultsAreComplete == JobsSpec => []ResultsComplete
<1>1. JobsTypeOK /\ ResultsInv => ResultsComplete
  <2> SUFFICES ASSUME JobsTypeOK, ResultsInv, Joined, call # "one"
               PROVE  /\ IsInjective(results) /\ ToSet(results) \subseteq Enabled
                      /\ Sufficient => ToSet(results) = Enabled
    BY DEF ResultsComplete, Sufficient, Joined, JobsTypeOK
  <2> USE DEF JobsTypeOK, ResultsInv
  <2>1. call \in {"serial", "parallel"} /\ todo = <<>> /\ ToSet(todo) = {}
        /\ \A t \in Names : job[t] \in {"none", "done"}
    BY EmptyFacts DEF Joined
  <2>2. ToSet(results) \subseteq Names
    BY ElementsAreNames
  <2>3. IsInjective(results) /\ \A t \in ToSet(results) : job[t] = "done"
    BY DEF NoneInvented, Collected
  <2>4. \A t \in Names : job[t] = "done" <=> t \in Enabled
    BY <2>1 DEF CallShape, Begun, Enabled
  <2> QED
    BY <2>2, <2>3, <2>4 DEF NoneLost, Enabled
<1> QED
  BY <1>1, JobsInitType, JobsTypeStep, ResultsInit, ResultsStep, PTL DEF JobsSpec

-----------------------------------------------------------------------------
(* The jobs: the bound on backups. *)

\* Unfinished jobs are those at work.
LEMMA UnfinishedAreWorking == JobsTypeOK => Unfinished = {t \in Names : job[t] \in Working}
BY DEF JobsTypeOK, Unfinished, Stages, Working

LEMMA RemainingFinite ==
  ASSUME JobsTypeOK
  PROVE  /\ IsFiniteSet(Remaining) /\ Cardinality(Remaining) \in Nat
         /\ Remaining # {} => Cardinality(Remaining) >= 1
<1>1. Remaining \in SUBSET Names
  BY ElementsAreNames DEF Remaining, Unfinished
<1>2. IsFiniteSet(Remaining)
  BY <1>1, NamesFinite, FS_Subset
<1>3. Cardinality(Remaining) \in Nat /\ (Cardinality(Remaining) = 0 <=> Remaining = {})
  BY <1>2, FS_CardinalityType, FS_EmptySet
<1> QED
  BY <1>2, <1>3

\* A job counts against the bound from the call that will run it until its
\* result is recorded.
LEMMA BoundStep ==
  JobsTypeOK /\ ResultsInv /\ WithinBound /\ [JobsNext]_jobsVars => WithinBound'
<1> SUFFICES ASSUME JobsTypeOK, ResultsInv, WithinBound, [JobsNext]_jobsVars PROVE WithinBound'
  OBVIOUS
<1> USE DEF ResultsInv
<1>1. Len(ended) \in Nat /\ Cardinality(Remaining) \in Nat /\ MaxBackups \in Nat
  BY RemainingFinite, JobsAssumption DEF JobsTypeOK
<1>2. ASSUME Remaining' = Remaining \/ Remaining' = {}, ended' = ended PROVE WithinBound'
  BY <1>1, <1>2, FS_EmptySet DEF WithinBound
<1>3. ASSUME call = "none" PROVE Remaining = {} /\ Unfinished = {}
  BY <1>3, EmptyFacts DEF Remaining, Unfinished, CallShape, Idle
<1>4. ASSUME NEW t \in Names, ConfigureTarget(t) PROVE WithinBound'
  <2>1. UNCHANGED <<todo, job, ended>> /\ call = "none"
    BY <1>4 DEF ConfigureTarget, ghosts
  <2>2. todo' = <<>> /\ Unfinished' = {}
    BY <1>3, <2>1 DEF CallShape, Unfinished
  <2>3. Remaining' = {}
    BY <2>2, EmptyFacts DEF Remaining
  <2> QED
    BY <1>2, <2>1, <2>3
<1>5. ASSUME NEW t \in Names, ExecuteOne(t) PROVE WithinBound'
  <2>1. /\ call = "none" /\ UNCHANGED <<todo, ended>> /\ Len(ended) < MaxBackups
        /\ \A u \in Names : job'[u] = IF u = t THEN "begun" ELSE job[u]
    BY <1>5 DEF ExecuteOne, BeginJob, JobsTypeOK
  <2>2. todo' = <<>> /\ Unfinished' = {t}
    BY <1>3, <2>1 DEF CallShape, Unfinished
  <2>3. Remaining' = {t}
    BY <2>2, EmptyFacts DEF Remaining
  <2>4. Cardinality(Remaining') = 1
    <3>1. Cardinality({t}) = 1
      BY FS_Singleton
    <3> QED
      BY <2>3, <3>1
  <2> QED
    BY <1>1, <2>1, <2>4 DEF WithinBound
<1>6. CASE ExecuteAll
  <2>1. /\ call = "none" /\ UNCHANGED <<targets, job, ended>> /\ todo' = Targets
        /\ Len(ended) + Cardinality(Enabled) <= MaxBackups
    BY <1>6 DEF ExecuteAll, ghosts
  <2>2. Remaining' = Enabled
    BY <1>3, <2>1 DEF Remaining, Unfinished, Enabled, Names
  <2> QED
    BY <2>1, <2>2 DEF WithinBound
<1>7. CASE SkipTarget
  <2>1. ToSet(todo) = ToSet(Tail(todo)) \cup {Head(todo)}
    BY <1>7, TailFacts DEF SkipTarget, JobsTypeOK
  <2> QED
    BY <1>2, <1>7, <2>1 DEF SkipTarget, ghosts, Remaining, Unfinished, Enabled
<1>8. CASE Launch
  <2> DEFINE h == Head(todo)
  <2>1. ToSet(todo) = ToSet(Tail(todo)) \cup {h} /\ h \in Names
    BY <1>8, TailFacts DEF Launch, JobsTypeOK
  <2> HIDE DEF h
  <2>2. /\ UNCHANGED <<targets, ended>> /\ todo' = Tail(todo) /\ h \in Enabled
        /\ Enabled' = Enabled
        /\ \A u \in Names : job'[u] = IF u = h THEN "begun" ELSE job[u]
    BY <1>8 DEF Launch, BeginJob, h, JobsTypeOK, Enabled
  <2>3. Unfinished' = Unfinished \cup {h}
    BY <2>1, <2>2 DEF Unfinished
  <2> QED
    BY <1>2, <2>1, <2>2, <2>3 DEF Remaining
<1>9. CASE Finish
  <2>1. Remaining' = {} /\ ended' = ended
    BY <1>9, EmptyFacts DEF Finish, Joined, ghosts, Remaining, Unfinished, Idle
  <2> QED
    BY <1>2, <2>1
<1>10. ASSUME NEW t \in Names, Run(t) PROVE WithinBound'
  <2>1. UNCHANGED <<targets, todo>> /\ Enabled' = Enabled
    BY <1>10 DEF Run, Enter, Settle, Count, Measure, Leave, Left, Record, AppendLoad,
                 AppendStore, control, Enabled
  <2>2. CASE Record(t)
    <3>1. /\ job[t] = "left" /\ Len(ended') = Len(ended) + 1
          /\ \A u \in Names : u # t => job'[u] = job[u]
          /\ job'[t] \in {"recorded", "done"}
      BY <2>2 DEF Record, JobsTypeOK
    <3>2. t \in Remaining /\ t \notin ToSet(todo) /\ Unfinished' = Unfinished \ {t}
      BY <3>1 DEF Remaining, Unfinished, CallShape, Begun
    <3>3. Remaining' = Remaining \ {t}
      BY <2>1, <3>2 DEF Remaining
    <3>4. Cardinality(Remaining') = Cardinality(Remaining) - 1
      BY <3>2, <3>3, RemainingFinite, FS_RemoveElement
    <3> QED
      BY <1>1, <3>1, <3>4 DEF WithinBound
  <2>3. CASE ~Record(t)
    <3>1. /\ ended' = ended /\ \A u \in Names : u # t => job'[u] = job[u]
          /\ \/ job[t] \in Working /\ job'[t] \in Working
             \/ job[t] \notin Working /\ job'[t] \notin Working
      BY <1>10, <2>3 DEF Run, Enter, Settle, Count, Measure, Leave, Left, AppendLoad,
                         AppendStore, ghosts, Working, JobsTypeOK
    <3>2. Unfinished' = {u \in Names : job'[u] \in Working}
      BY JobsTypeStep DEF JobsTypeOK, Unfinished, Stages, Working
    <3>3. Unfinished' = Unfinished
      BY <3>1, <3>2, UnfinishedAreWorking
    <3> QED
      BY <1>2, <2>1, <3>1, <3>3 DEF Remaining
  <2> QED
    BY <2>2, <2>3
<1>11. CASE UNCHANGED jobsVars
  BY <1>2, <1>11 DEF jobsVars, control, ghosts, Remaining, Unfinished, Enabled
<1> QED
  BY <1>4, <1>5, <1>6, <1>7, <1>8, <1>9, <1>10, <1>11 DEF JobsNext

-----------------------------------------------------------------------------
(* The jobs: the history. *)

\* The last m elements of a sequence, one by one.
LEMMA SuffixFacts ==
  ASSUME NEW S, NEW s \in Seq(S), NEW h \in Seq(S), Len(h) <= Len(s)
  PROVE  h = SubSeq(s, Len(s) - Len(h) + 1, Len(s))
           <=> \A i \in 1 .. Len(h) : h[i] = s[Len(s) - Len(h) + i]
<1> DEFINE m == Len(h)
           k == Len(s) - m
<1>1. m \in Nat /\ k \in Nat /\ Len(s) = k + m /\ h \in [1 .. m -> S]
  OBVIOUS
<1>2. SubSeq(s, k + 1, k + m) = [i \in 1 .. m |-> s[k + i]]
  <2>1. SubSeq(s, k + 1, k + m) = [i \in 1 .. (k + m - (k + 1) + 1) |-> s[i + (k + 1) - 1]]
    BY <1>1
  <2>2. k + m - (k + 1) + 1 = m /\ \A i \in Nat : i + (k + 1) - 1 = k + i
    BY <1>1
  <2> QED
    BY <2>1, <2>2
<1> HIDE DEF m, k
<1>3. h = [i \in 1 .. m |-> s[k + i]] <=> \A i \in 1 .. m : h[i] = s[k + i]
  BY <1>1
<1> QED
  BY <1>1, <1>2, <1>3 DEF m, k

\* Recording appends and drops the oldest entry beyond the limit.
LEMMA HistoryStep ==
  JobsTypeOK /\ HistoryIsRecent /\ [JobsNext]_jobsVars => HistoryIsRecent'
<1> SUFFICES ASSUME JobsTypeOK, HistoryIsRecent, [JobsNext]_jobsVars PROVE HistoryIsRecent'
  OBVIOUS
<1>1. CASE UNCHANGED <<history, ended>>
  BY <1>1 DEF HistoryIsRecent
<1>2. ASSUME NEW t \in Names, Record(t) PROVE HistoryIsRecent'
  <2> DEFINE e == <<t, success[t]>>
             longer == Append(history, e)
             n == Len(ended)
             m == Len(history)
  <2>1. /\ e \in Outcomes /\ ended \in Seq(Outcomes) /\ history \in Seq(Outcomes)
        /\ n \in Nat /\ m \in Nat /\ HistoryLimit \in Nat \ {0}
    BY JobsAssumption DEF JobsTypeOK, Outcomes
  <2>2. /\ ended' = Append(ended, e)
        /\ history' = IF Len(longer) > HistoryLimit THEN Tail(longer) ELSE longer
    BY <1>2 DEF Record
  <2> HIDE DEF e
  <2>3. m = (IF n > HistoryLimit THEN HistoryLimit ELSE n) /\ m <= n
    BY <2>1 DEF HistoryIsRecent
  <2>4. \A i \in 1 .. m : history[i] = ended[n - m + i]
    BY <2>1, <2>3, SuffixFacts DEF HistoryIsRecent
  <2>5. /\ longer \in Seq(Outcomes) /\ Len(longer) = m + 1 /\ longer[m + 1] = e
        /\ \A i \in 1 .. m : longer[i] = history[i]
    BY <2>1
  <2>6. /\ ended' \in Seq(Outcomes) /\ Len(ended') = n + 1 /\ ended'[n + 1] = e
        /\ \A i \in 1 .. n : ended'[i] = ended[i]
    BY <2>1, <2>2
  <2>7. \A i \in 1 .. m + 1 : longer[i] = ended'[n - m + i]
    <3> SUFFICES ASSUME NEW i \in 1 .. m + 1 PROVE longer[i] = ended'[n - m + i]
      OBVIOUS
    <3>1. CASE i = m + 1
      BY <2>1, <2>3, <2>5, <2>6, <3>1
    <3>2. CASE i # m + 1
      <4>1. i \in 1 .. m /\ n - m + i \in 1 .. n
        BY <2>1, <2>3, <3>2
      <4> QED
        BY <2>4, <2>5, <2>6, <4>1
    <3> QED
      BY <3>1, <3>2
  <2> HIDE DEF n, m, longer
  <2>8. /\ history' \in Seq(Outcomes) /\ Len(history') <= Len(ended')
        /\ Len(history') = IF n + 1 > HistoryLimit THEN HistoryLimit ELSE n + 1
        /\ \A i \in 1 .. Len(history') : history'[i] = ended'[Len(ended') - Len(history') + i]
    <3>1. CASE m + 1 > HistoryLimit
      <4>1. history' = Tail(longer) /\ m = HistoryLimit /\ longer # <<>> /\ n >= HistoryLimit
        BY <2>1, <2>2, <2>3, <2>5, <3>1
      <4>2. /\ history' \in Seq(Outcomes) /\ Len(history') = m
            /\ \A i \in 1 .. m : history'[i] = longer[i + 1]
        BY <2>1, <2>5, <4>1
      <4>3. \A i \in 1 .. m : i + 1 \in 1 .. m + 1 /\ n - m + (i + 1) = (n + 1) - m + i
        BY <2>1
      <4>4. Len(ended') = n + 1 /\ (n + 1) - m \in Int /\ m <= n + 1
        BY <2>1, <2>3, <2>6
      <4>5. \A i \in 1 .. m : history'[i] = ended'[(n + 1) - m + i]
        BY <2>7, <4>2, <4>3
      <4>6. \A i \in 1 .. Len(history') : history'[i] = ended'[Len(ended') - Len(history') + i]
        BY <4>2, <4>4, <4>5
      <4>7. Len(history') = IF n + 1 > HistoryLimit THEN HistoryLimit ELSE n + 1
        BY <2>1, <4>1, <4>2
      <4>8. Len(history') <= Len(ended')
        BY <4>2, <4>4
      <4> QED
        BY <4>2, <4>6, <4>7, <4>8
    <3>2. CASE ~(m + 1 > HistoryLimit)
      <4>1. history' = longer /\ m = n /\ n + 1 <= HistoryLimit
        BY <2>1, <2>2, <2>3, <2>5, <3>2
      <4> QED
        BY <2>1, <2>5, <2>6, <2>7, <4>1
    <3> QED
      BY <3>1, <3>2
  <2>9. history' = SubSeq(ended', Len(ended') - Len(history') + 1, Len(ended'))
    BY <2>6, <2>8, SuffixFacts
  <2> QED
    BY <2>6, <2>8, <2>9 DEF HistoryIsRecent
<1>3. ASSUME NEW t \in Names, Run(t) PROVE HistoryIsRecent'
  <2>1. Record(t) \/ UNCHANGED <<history, ended>>
    BY <1>3 DEF Run, Enter, Settle, Count, Measure, Leave, Left, AppendLoad, AppendStore,
                metrics, ghosts
  <2> QED
    BY <1>1, <1>2, <2>1
<1>4. ASSUME ~\E t \in Names : Run(t) PROVE UNCHANGED <<history, ended>>
  BY <1>4 DEF JobsNext, ConfigureTarget, ExecuteOne, ExecuteAll, SkipTarget, Launch, Finish,
              BeginJob, jobsVars, metrics, ghosts
<1> QED
  BY <1>1, <1>3, <1>4

-----------------------------------------------------------------------------
(* The jobs: the metrics. *)

\* Successes and failures are among the backups that ended.
LEMMA OutcomesCounted ==
  ASSUME JobsTypeOK
  PROVE  /\ IsFiniteSet(Successes) /\ IsFiniteSet(Failures)
         /\ Cardinality(Successes) \in Nat /\ Cardinality(Successes) <= Len(ended)
         /\ Cardinality(Failures) \in Nat /\ Cardinality(Failures) <= Len(ended)
         /\ ended # <<>> /\ ended[1][2] => Cardinality(Successes) >= 1
<1>1. Len(ended) \in Nat /\ DOMAIN ended = 1 .. Len(ended)
  BY DEF JobsTypeOK
<1> DEFINE n == Len(ended)
           I == 1 .. n
<1>2. n \in Nat
  BY <1>1
<1> HIDE DEF n
<1>3. IsFiniteSet(I) /\ Cardinality(I) = IF 1 > n THEN 0 ELSE n - 1 + 1
  BY <1>2, FS_Interval
<1>4. IsFiniteSet(I) /\ Cardinality(I) = n
  BY <1>2, <1>3
<1>5. Successes \in SUBSET I /\ Failures \in SUBSET I
  BY <1>1 DEF Successes, Failures, n
<1> HIDE DEF I
<1>6. ASSUME NEW T \in SUBSET I PROVE IsFiniteSet(T) /\ Cardinality(T) <= n
  BY <1>4, <1>6, FS_Subset
<1>7. /\ IsFiniteSet(Successes) /\ Cardinality(Successes) <= Len(ended)
      /\ IsFiniteSet(Failures) /\ Cardinality(Failures) <= Len(ended)
  BY <1>5, <1>6 DEF n
<1>8. Cardinality(Successes) \in Nat /\ Cardinality(Failures) \in Nat
  BY <1>7, FS_CardinalityType
<1>9. ASSUME ended # <<>>, ended[1][2] PROVE Cardinality(Successes) >= 1
  <2>1. 1 \in Successes
    BY <1>9 DEF Successes, JobsTypeOK
  <2>2. Cardinality(Successes) # 0
    BY <1>7, <2>1, FS_EmptySet
  <2> QED
    BY <1>8, <2>2
<1> QED
  BY <1>7, <1>8, <1>9

\* Recording an outcome counts it on one side.
LEMMA OutcomeRecorded ==
  ASSUME JobsTypeOK, NEW t \in Names, NEW b \in BOOLEAN, ended' = Append(ended, <<t, b>>)
  PROVE  /\ Cardinality(Successes)' = Cardinality(Successes) + One(b)
         /\ Cardinality(Failures)' = Cardinality(Failures) + One(~b)
         /\ FirstSucceeded' <=> IF ended = <<>> THEN b ELSE ended[1][2]
<1> DEFINE n == Len(ended)
<1>1. /\ n \in Nat /\ DOMAIN ended = 1 .. n /\ DOMAIN ended' = 1 .. n + 1
      /\ ended'[n + 1] = <<t, b>> /\ \A i \in 1 .. n : ended'[i] = ended[i]
      /\ ended' # <<>> /\ (ended = <<>> <=> n = 0)
  <2>1. ended \in Seq(Outcomes) /\ <<t, b>> \in Outcomes
    BY DEF JobsTypeOK, Outcomes
  <2>2. ended' \in Seq(Outcomes) /\ Len(ended') = n + 1
    BY <2>1
  <2> QED
    BY <2>1, <2>2
<1> HIDE DEF n
<1>2. /\ \A i \in 1 .. n + 1 : i \in 1 .. n \/ i = n + 1
      /\ \A i \in 1 .. n : i \in 1 .. n + 1 /\ i # n + 1
      /\ n + 1 \in 1 .. n + 1 /\ n + 1 \notin 1 .. n
  BY <1>1
<1>3. /\ Successes' = IF b THEN Successes \cup {n + 1} ELSE Successes
      /\ Failures' = IF b THEN Failures ELSE Failures \cup {n + 1}
  BY <1>1, <1>2 DEF Successes, Failures
<1>4. n + 1 \notin Successes /\ n + 1 \notin Failures
  BY <1>1, <1>2 DEF Successes, Failures
<1>5. /\ Cardinality(Successes)' = Cardinality(Successes) + One(b)
      /\ Cardinality(Failures)' = Cardinality(Failures) + One(~b)
  <2>1. /\ Cardinality(Successes \cup {n + 1}) = Cardinality(Successes) + 1
        /\ Cardinality(Failures \cup {n + 1}) = Cardinality(Failures) + 1
    BY <1>4, OutcomesCounted, FS_AddElement
  <2>2. Cardinality(Successes) \in Nat /\ Cardinality(Failures) \in Nat
    BY OutcomesCounted
  <2>3. CASE b
    <3>1. One(b) = 1 /\ One(~b) = 0
      BY <2>3 DEF One
    <3>2. Successes' = Successes \cup {n + 1} /\ Failures' = Failures
      BY <1>3, <2>3
    <3> QED
      BY <2>1, <2>2, <3>1, <3>2
  <2>4. CASE ~b
    <3>1. One(b) = 0 /\ One(~b) = 1
      BY <2>4 DEF One
    <3>2. Successes' = Successes /\ Failures' = Failures \cup {n + 1}
      BY <1>3, <2>4
    <3> QED
      BY <2>1, <2>2, <3>1, <3>2
  <2> QED
    BY <2>3, <2>4
<1>6. FirstSucceeded' <=> IF ended = <<>> THEN b ELSE ended[1][2]
  <2>1. CASE n = 0
    BY <1>1, <2>1 DEF FirstSucceeded
  <2>2. CASE n # 0
    <3>1. 1 \in 1 .. n /\ ended'[1] = ended[1]
      BY <1>1, <2>2
    <3> QED
      BY <1>1, <2>2, <3>1 DEF FirstSucceeded
  <2> QED
    BY <2>1, <2>2
<1> QED
  BY <1>5, <1>6

\* Within the bound the counters do not wrap while a job is under way.
LEMMA NoWrap ==
  ASSUME JobsTypeOK, WithinBound, NEW t \in Unfinished
  PROVE  /\ Wrap(Cardinality(Successes) + 1) = Cardinality(Successes) + 1
         /\ Wrap(Cardinality(Failures) + 1) = Cardinality(Failures) + 1
         /\ Wrap(0 + 1) = 1 /\ Wrap(1 - 1) = 0
<1>1. Remaining # {}
  BY DEF Remaining
<1>2. Len(ended) \in Nat /\ Len(ended) + 1 < SizeMod /\ SizeMod \in Nat
  BY <1>1, RemainingFinite, JobsAssumption DEF WithinBound, JobsTypeOK
<1>3. \A k \in Nat : k < SizeMod => k % SizeMod = k
  BY <1>2
<1>4. /\ Cardinality(Successes) + 1 \in Nat /\ Cardinality(Successes) + 1 < SizeMod
      /\ Cardinality(Failures) + 1 \in Nat /\ Cardinality(Failures) + 1 < SizeMod
  BY <1>2, OutcomesCounted
<1> QED
  BY <1>2, <1>3, <1>4 DEF Wrap

\* A job alone begins with the books at rest.
LEMMA BeginMetrics ==
  ASSUME JobsTypeOK, MetricsExact, NEW t \in Names, BeginJob(t)
  PROVE  MetricsExact'
<1> SUFFICES ASSUME ~overlapped' PROVE MetricsExact'
  BY DEF MetricsExact
<1>1. ~overlapped /\ Unfinished = {} /\ MetricsAtRest
  BY DEF BeginJob, MetricsExact
<1>2. /\ UNCHANGED <<active, completed, failed, finite, ended>>
      /\ job'[t] = "begun" /\ loaded'[t] = active
      /\ \A u \in Names : u # t => job'[u] = job[u]
  BY DEF BeginJob, metrics, JobsTypeOK
<1>3. Unfinished' = {t}
  BY <1>1, <1>2 DEF Unfinished
<1>4. Successes' = Successes /\ Failures' = Failures /\ FirstSucceeded' = FirstSucceeded
  BY <1>2 DEF Successes, Failures, FirstSucceeded
<1>5. MetricsOf(t)'
  BY <1>1, <1>2, <1>4, OutcomesCounted DEF MetricsOf, MetricsAtRest, One
<1> QED
  BY <1>3, <1>5 DEF MetricsExact

\* What the job that is alone does, step by step.
LEMMA WorkMetrics ==
  ASSUME JobsTypeOK, WithinBound, MetricsExact, NEW t \in Names, Work(t)
  PROVE  MetricsExact'
<1> SUFFICES ASSUME ~overlapped' PROVE MetricsExact'
  BY DEF MetricsExact
<1>1. ~overlapped
  BY DEF Work, Enter, Settle, Count, Measure, Leave, Left, Record, ghosts
<1>2. job[t] \in Working /\ t \in Unfinished
  BY WorkStep DEF Working, Unfinished
<1>3. MetricsOf(t) /\ \A u \in Names : u # t => u \notin Unfinished
  BY <1>1, <1>2 DEF MetricsExact
<1>4. \A u \in Names : u # t => job'[u] = job[u]
  BY WorkStep DEF JobsTypeOK
<1>5. ASSUME ~Record(t)
      PROVE  /\ UNCHANGED <<ended, Successes, Failures, FirstSucceeded>>
             /\ job'[t] \in {"running", "settled", "counted", "measured", "leaving", "left"}
             /\ Unfinished' = {t}
  <2>1. /\ ended' = ended
        /\ job'[t] \in {"running", "settled", "counted", "measured", "leaving", "left"}
    BY <1>5 DEF Work, Enter, Settle, Count, Measure, Leave, Left, ghosts, JobsTypeOK
  <2> QED
    BY <1>3, <1>4, <2>1 DEF Successes, Failures, FirstSucceeded, Unfinished
<1>6. /\ Cardinality(Successes) \in Nat /\ Cardinality(Failures) \in Nat
      /\ success[t] \in BOOLEAN /\ finite \in BOOLEAN
  BY OutcomesCounted DEF JobsTypeOK
<1>7. ASSUME ~Record(t), MetricsOf(t)' PROVE MetricsExact'
  BY <1>5, <1>7 DEF MetricsExact
<1>8. CASE Enter(t)
  <2>1. /\ job[t] = "begun" /\ job'[t] = "running" /\ active' = Wrap(loaded[t] + 1)
        /\ UNCHANGED <<success, completed, failed, finite>>
    BY <1>8 DEF Enter, JobsTypeOK
  <2>2. active' = 1 /\ ~Record(t)
    BY <1>2, <1>3, <2>1, NoWrap DEF MetricsOf, Record
  <2> QED
    BY <1>3, <1>5, <1>7, <2>1, <2>2 DEF MetricsOf, One
<1>9. CASE Settle(t)
  <2>1. /\ job[t] = "running" /\ job'[t] = "settled"
        /\ loaded'[t] = IF success'[t] THEN completed ELSE failed
        /\ UNCHANGED <<active, completed, failed, finite>>
    BY <1>9 DEF Settle, metrics, JobsTypeOK
  <2>2. ~Record(t)
    BY <2>1 DEF Record
  <2> QED
    BY <1>3, <1>5, <1>7, <2>1, <2>2 DEF MetricsOf, One
<1>10. CASE Count(t)
  <2>1. /\ job[t] = "settled" /\ job'[t] = "counted" /\ UNCHANGED <<active, success, finite>>
        /\ completed' = IF success[t] THEN Wrap(loaded[t] + 1) ELSE completed
        /\ failed' = IF success[t] THEN failed ELSE Wrap(loaded[t] + 1)
    BY <1>10 DEF Count, JobsTypeOK
  <2>2. /\ ~Record(t) /\ completed = Cardinality(Successes) /\ failed = Cardinality(Failures)
        /\ loaded[t] = IF success[t] THEN completed ELSE failed
    BY <1>3, <1>6, <2>1 DEF MetricsOf, One, Record
  <2>3. /\ completed' = Cardinality(Successes) + One(success[t])
        /\ failed' = Cardinality(Failures) + One(~success[t])
    BY <1>2, <1>6, <2>1, <2>2, NoWrap DEF One
  <2> QED
    BY <1>3, <1>5, <1>6, <1>7, <2>1, <2>2, <2>3 DEF MetricsOf, One
<1>11. CASE Measure(t)
  <2>1. /\ job[t] = "counted" /\ job'[t] = "measured"
        /\ UNCHANGED <<active, success, completed, failed>>
        /\ finite' <=> finite /\ completed # 0
    BY <1>11 DEF Measure, JobsTypeOK
  <2>2. /\ ~Record(t) /\ completed = Cardinality(Successes) + One(success[t])
        /\ finite <=> FirstSucceeded
    <3>1. ~Record(t)
      BY <2>1 DEF Record
    <3>2. completed = Cardinality(Successes) + One(success[t])
      BY <1>3, <1>6, <2>1 DEF MetricsOf, One
    <3>3. finite <=> FirstSucceeded
      BY <1>3, <2>1 DEF MetricsOf
    <3> QED
      BY <3>1, <3>2, <3>3
  <2>3. finite' <=> IF ended = <<>> THEN success[t] ELSE FirstSucceeded
    <3>1. CASE ended = <<>>
      <4>1. Cardinality(Successes) = 0 /\ FirstSucceeded
        BY <3>1, FS_EmptySet DEF Successes, FirstSucceeded
      <4> QED
        BY <1>6, <2>1, <2>2, <3>1, <4>1 DEF One
    <3>2. CASE ended # <<>>
      <4>1. FirstSucceeded => Cardinality(Successes) >= 1
        BY <3>2, OutcomesCounted DEF FirstSucceeded
      <4> QED
        BY <1>6, <2>1, <2>2, <3>2, <4>1 DEF One
    <3> QED
      BY <3>1, <3>2
  <2> QED
    BY <1>3, <1>5, <1>7, <2>1, <2>2, <2>3 DEF MetricsOf, One
<1>12. CASE Leave(t)
  <2>1. /\ job[t] = "measured" /\ job'[t] = "leaving" /\ loaded'[t] = active
        /\ UNCHANGED <<active, success, completed, failed, finite>>
    BY <1>12 DEF Leave, metrics, JobsTypeOK
  <2>2. ~Record(t)
    BY <2>1 DEF Record
  <2> QED
    BY <1>3, <1>5, <1>7, <2>1, <2>2 DEF MetricsOf, One
<1>13. CASE Left(t)
  <2>1. /\ job[t] = "leaving" /\ job'[t] = "left" /\ active' = Wrap(loaded[t] - 1)
        /\ UNCHANGED <<success, completed, failed, finite>>
    BY <1>13 DEF Left, JobsTypeOK
  <2>2. active' = 0 /\ ~Record(t)
    BY <1>2, <1>3, <2>1, NoWrap DEF MetricsOf, Record
  <2> QED
    BY <1>3, <1>5, <1>7, <2>1, <2>2 DEF MetricsOf, One
<1>14. CASE Record(t)
  <2>1. /\ job[t] = "left" /\ job'[t] \in {"recorded", "done"}
        /\ ended' = Append(ended, <<t, success[t]>>)
        /\ UNCHANGED <<active, completed, failed, finite>>
    BY <1>14 DEF Record, metrics, JobsTypeOK
  <2>2. Unfinished' = {}
    BY <1>3, <1>4, <2>1 DEF Unfinished
  <2>3. /\ active = 0 /\ completed = Cardinality(Successes) + One(success[t])
        /\ failed = Cardinality(Failures) + One(~success[t])
        /\ finite <=> IF ended = <<>> THEN success[t] ELSE FirstSucceeded
    BY <1>3, <2>1 DEF MetricsOf, One
  <2>4. MetricsAtRest'
    BY <1>6, <2>1, <2>3, OutcomeRecorded DEF MetricsAtRest, FirstSucceeded
  <2> QED
    BY <2>2, <2>4 DEF MetricsExact
<1> QED
  BY <1>8, <1>9, <1>10, <1>11, <1>12, <1>13, <1>14 DEF Work

LEMMA MetricsStep ==
  JobsTypeOK /\ WithinBound /\ MetricsExact /\ [JobsNext]_jobsVars => MetricsExact'
<1> SUFFICES ASSUME JobsTypeOK, WithinBound, MetricsExact, [JobsNext]_jobsVars
             PROVE  MetricsExact'
  OBVIOUS
<1>1. ASSUME UNCHANGED <<success, loaded, metrics, ghosts>>, Unfinished' = Unfinished,
             \A t \in Unfinished : job'[t] = job[t]
      PROVE  MetricsExact'
  <2>1. /\ UNCHANGED <<active, completed, failed, finite, overlapped, success, loaded>>
        /\ UNCHANGED <<ended, Successes, Failures, FirstSucceeded>>
    BY <1>1 DEF metrics, ghosts, Successes, Failures, FirstSucceeded
  <2>2. MetricsAtRest' <=> MetricsAtRest
    BY <2>1 DEF MetricsAtRest
  <2>3. \A t \in Unfinished : MetricsOf(t)' <=> MetricsOf(t)
    BY <1>1, <2>1 DEF MetricsOf
  <2> QED
    BY <1>1, <2>1, <2>2, <2>3 DEF MetricsExact
<1>2. ASSUME UNCHANGED <<job, success, loaded, metrics, ghosts>> PROVE MetricsExact'
  BY <1>1, <1>2 DEF Unfinished
<1>3. ASSUME NEW t \in Names, ConfigureTarget(t) \/ ExecuteOne(t) PROVE MetricsExact'
  BY <1>2, <1>3, BeginMetrics DEF ConfigureTarget, ExecuteOne
<1>4. CASE ExecuteAll \/ SkipTarget
  BY <1>2, <1>4 DEF ExecuteAll, SkipTarget
<1>5. CASE Launch
  BY <1>5, BeginMetrics, TailFacts DEF Launch, JobsTypeOK
<1>6. CASE Finish
  <2>1. Unfinished = {} /\ Unfinished' = {} /\ UNCHANGED <<success, loaded, metrics, ghosts>>
    BY <1>6 DEF Finish, Joined, Unfinished, Idle
  <2> QED
    BY <1>1, <2>1
<1>7. ASSUME NEW t \in Names, AppendLoad(t) \/ AppendStore(t) PROVE MetricsExact'
  <2>1. /\ UNCHANGED <<success, loaded, metrics, ghosts>>
        /\ job[t] \in {"recorded", "appending"} /\ job'[t] \in {"appending", "done"}
        /\ \A u \in Names : u # t => job'[u] = job[u]
    BY <1>7 DEF AppendLoad, AppendStore, JobsTypeOK
  <2>2. Unfinished' = Unfinished /\ t \notin Unfinished /\ Unfinished \subseteq Names
    BY <2>1 DEF Unfinished
  <2> QED
    BY <1>1, <2>1, <2>2
<1>8. CASE UNCHANGED jobsVars
  BY <1>2, <1>8 DEF jobsVars
<1>9. ASSUME NEW t \in Names, Run(t) PROVE MetricsExact'
  BY <1>7, <1>9, WorkMetrics DEF Run, Work
<1> QED
  BY <1>3, <1>4, <1>5, <1>6, <1>8, <1>9 DEF JobsNext

\* The history is the latest backups in the order they ended, whatever runs beside
\* what; counters and average are those of the backups that ended as long as no two
\* jobs overlapped, over any number of calls below 2^64 backups.
THEOREM BooksAlwaysBalance == JobsSpec => []BooksBalance
<1>1. JobsInit => BooksInv
  <2> SUFFICES ASSUME JobsInit PROVE BooksInv
    OBVIOUS
  <2>1. Unfinished = {} /\ Remaining = {} /\ Successes = {} /\ Failures = {} /\ FirstSucceeded
    BY EmptyFacts
       DEF JobsInit, Unfinished, Remaining, Idle, Successes, Failures, FirstSucceeded
  <2>2. WithinBound
    BY <2>1, FS_EmptySet, JobsAssumption DEF WithinBound, JobsInit
  <2>3. HistoryIsRecent
    BY JobsAssumption DEF HistoryIsRecent, JobsInit
  <2>4. MetricsExact
    BY <2>1, FS_EmptySet DEF MetricsExact, MetricsAtRest, JobsInit
  <2> QED
    BY <2>2, <2>3, <2>4 DEF BooksInv
<1>2. JobsTypeOK /\ ResultsInv /\ BooksInv /\ [JobsNext]_jobsVars => BooksInv'
  BY BoundStep, HistoryStep, MetricsStep DEF BooksInv
<1>3. BooksInv => BooksBalance
  BY DEF BooksInv, BooksBalance, HistoryIsRecent, MetricsExact, MetricsAtRest, Successes,
         Failures, FirstSucceeded
<1> QED
  BY <1>1, <1>2, <1>3, JobsInitType, JobsTypeStep, ResultsInit, ResultsStep, PTL DEF JobsSpec

-----------------------------------------------------------------------------
(* The scheduler. *)

\* stop() has a thread to join, and has told it to end.
StopAsOwned ==
  /\ owner \in {"free", "notifying", "joining"}
  /\ owner # "free" => running /\ shutdown

\* The deadline is right as soon as it is computed.
DeadlineIsEarliest == pc \in {"locking", "waiting"} /\ ~overtaken => deadline = Earliest

SchedulerInv == StopAsOwned /\ DeadlineIsEarliest /\ SleepsTowardsEarliest

\* The earliest run depends on the schedules alone.
LEMMA EarliestOfSchedules == UNCHANGED schedules => UNCHANGED Earliest
BY DEF Earliest

\* A notification wakes a waiting thread and no other.
LEMMA NotifiedState ==
  ASSUME pc \in ThreadStates
  PROVE  /\ Notified \in ThreadStates /\ Notified # "waiting"
         /\ pc # "waiting" => Notified = pc
         /\ pc = "waiting" => Notified \in {"testing", "executing"}
BY DEF ThreadStates, Notified, Awake

-----------------------------------------------------------------------------

\* The engine has no thread at first.
LEMMA SchedulerInitInv == SchedulerInit => SchedulerInv
BY DEF SchedulerInit, SchedulerInv, StopAsOwned, DeadlineIsEarliest, SleepsTowardsEarliest,
       ThreadStates

\* configure_backup_schedule(): the thread computes a new deadline, unless it
\* has one it has not begun to wait for.
LEMMA ConfigureInv ==
  ASSUME SchedulerInv, NEW i \in Ids, NEW next, ConfigureSchedule(i, next)
  PROVE  SchedulerInv'
<1> USE DEF SchedulerInv
<1>1. pc \in ThreadStates
  BY DEF SleepsTowardsEarliest
<1>2. StopAsOwned'
  BY DEF StopAsOwned, ConfigureSchedule
<1>3. pc' # "waiting" /\ (pc' = "locking" => overtaken')
  BY <1>1, NotifiedState DEF ConfigureSchedule
<1>4. DeadlineIsEarliest'
  BY <1>3 DEF DeadlineIsEarliest
<1>5. /\ pc' \in ThreadStates /\ (running' <=> pc' # "none")
      /\ pc' = "ended" => shutdown'
  BY <1>1, NotifiedState DEF SleepsTowardsEarliest, ConfigureSchedule
<1>6. SleepsTowardsEarliest'
  BY <1>3, <1>5 DEF SleepsTowardsEarliest
<1> QED BY <1>2, <1>4, <1>6

\* start() and stop().
LEMMA OwnerInv ==
  ASSUME SchedulerInv, Start \/ Stop \/ StopNotify \/ StopJoin
  PROVE  SchedulerInv'
<1> USE DEF SchedulerInv
<1>1. pc \in ThreadStates /\ Earliest' = Earliest
  BY EarliestOfSchedules DEF SleepsTowardsEarliest, Start, Stop, StopNotify, StopJoin
<1>2. StopAsOwned'
  BY DEF StopAsOwned, Start, Stop, StopNotify, StopJoin
<1>3. CASE Start
  BY <1>1, <1>2, <1>3 DEF Start, DeadlineIsEarliest, SleepsTowardsEarliest, ThreadStates
<1>4. CASE Stop
  BY <1>1, <1>2, <1>4 DEF Stop, DeadlineIsEarliest, SleepsTowardsEarliest
<1>5. CASE StopNotify
  <2>1. /\ pc' \in ThreadStates /\ pc' # "waiting"
        /\ (pc # "waiting" => pc' = pc) /\ (pc = "waiting" => pc' \in {"testing", "executing"})
    BY <1>1, <1>5, NotifiedState DEF StopNotify
  <2>2. UNCHANGED <<running, shutdown, deadline, overtaken>>
    BY <1>5 DEF StopNotify
  <2> QED
    BY <1>1, <1>2, <2>1, <2>2 DEF DeadlineIsEarliest, SleepsTowardsEarliest
<1>6. CASE StopJoin
  BY <1>1, <1>2, <1>6 DEF StopJoin, DeadlineIsEarliest, SleepsTowardsEarliest, ThreadStates
<1> QED BY <1>3, <1>4, <1>5, <1>6

\* scheduler_worker(), the clock, and steps of others.
LEMMA WorkerInv ==
  ASSUME SchedulerInv, Worker \/ SpuriousWakeup \/ Tick \/ UNCHANGED schedulerVars
  PROVE  SchedulerInv'
<1> USE DEF SchedulerInv
<1>1. UNCHANGED <<schedules, running, shutdown, owner>> /\ Earliest' = Earliest
  BY EarliestOfSchedules
     DEF Worker, Test, Read, BeginWait, Timeout, Execute, SpuriousWakeup, Tick, schedulerVars
<1>2. StopAsOwned'
  BY <1>1 DEF StopAsOwned
<1>3. /\ pc' \in ThreadStates /\ (pc' = "none" <=> pc = "none")
      /\ pc' = "ended" => pc = "ended" \/ shutdown
  BY DEF SleepsTowardsEarliest, ThreadStates, Worker, Test, Read, BeginWait, Timeout, Execute,
         SpuriousWakeup, Tick, Awake, schedulerVars
<1>4. DeadlineIsEarliest'
  BY <1>1 DEF DeadlineIsEarliest, Worker, Test, Read, BeginWait, Timeout, Execute,
              SpuriousWakeup, Tick, Awake, schedulerVars
<1>5. SleepsTowardsEarliest'
  BY <1>1, <1>3, <1>4 DEF SleepsTowardsEarliest, DeadlineIsEarliest
<1> QED BY <1>2, <1>4, <1>5

\* Every step keeps the invariant.
LEMMA SchedulerStepInv == SchedulerInv /\ [SchedulerNext]_schedulerVars => SchedulerInv'
BY ConfigureInv, OwnerInv, WorkerInv DEF SchedulerNext

\* However schedules change and the engine starts and stops, the thread of
\* scheduler_worker() exists while the engine runs, ends only when stop() told it
\* to, and sleeps towards the earliest run, but for a change between its reading
\* of the schedules and its wait.
THEOREM SleepIsRight == SchedulerSpec => []SleepsTowardsEarliest
<1>1. SchedulerInv => SleepsTowardsEarliest
  BY DEF SchedulerInv
<1> QED BY <1>1, SchedulerInitInv, SchedulerStepInv, PTL DEF SchedulerSpec

\* stop() never joins a thread that was not told to end.
THEOREM StopTellsTheThread == SchedulerSpec => []StopAsOwned
<1>1. SchedulerInv => StopAsOwned
  BY DEF SchedulerInv
<1> QED BY <1>1, SchedulerInitInv, SchedulerStepInv, PTL DEF SchedulerSpec
=============================================================================
