------------------------------ MODULE BackupJobs ------------------------------
(***************************************************************************)
(* The backups of class BackupAutomationEngine.  A call of execute_backup  *)
(* or execute_all_backups holds targets_mutex_ from its first step to its  *)
(* last, so there is one call at a time and at most one job per target;    *)
(* the jobs of one call run beside each other.  Counters in metrics_ are   *)
(* plain integers: an increment is a load and a store.  A push_back that   *)
(* overlaps another loses one of the two results here; the build may also  *)
(* crash.                                                                  *)
(***************************************************************************)
EXTENDS Integers, SequencesExt

CONSTANTS
  Targets,       \* the names of targets, in the order of the map
  MaxJobs,       \* metrics_.max_concurrent_jobs, 4
  HistoryLimit,  \* entries backup_history_ keeps, 10000
  SizeMod,       \* 2^64, the modulus of std::size_t
  MaxBackups     \* bound: backups of a behaviour

ASSUME JobsAssumption ==
  /\ Targets \in Seq(ToSet(Targets)) /\ IsInjective(Targets)
  /\ MaxJobs \in Nat \ {0} /\ HistoryLimit \in Nat \ {0}
  /\ MaxBackups \in Nat /\ SizeMod \in Nat /\ MaxBackups < SizeMod

VARIABLES
  targets,   \* backup_targets_: which are configured and enabled
  call,      \* "none", or who holds targets_mutex_: "one", "serial", "parallel"
  todo,      \* targets the loop of the call has not come to
  threads,   \* targets with a thread of their own
  job,       \* job[t]: how far execute_backup_internal has come for t
  success,   \* success[t]: the outcome of the job
  loaded,    \* loaded[t]: the counter it is about to write back
  active, completed, failed, finite,  \* metrics_; is the average a number?
  history,   \* backup_history_
  results,   \* the vector execute_all_backups fills
  seen,      \* seen[t]: the vector as the append for t found it
  ended,     \* all jobs that ended
  overlapped \* whether two jobs ever ran at a time

control == <<targets, call, todo, threads>>
metrics == <<active, completed, failed, finite>>
appends == <<results, seen>>
ghosts == <<ended, overlapped>>
jobsVars == <<control, job, success, loaded, metrics, history, appends, ghosts>>

Names == ToSet(Targets)
Enabled == {t \in Names : targets[t] = "enabled"}
Idle == [t \in Names |-> "none"]
Unfinished == {t \in Names : job[t] \notin {"none", "recorded", "appending", "done"}}

JobsInit ==
  /\ targets = [t \in Names |-> "unknown"]
  /\ call = "none" /\ todo = <<>> /\ threads = {}
  /\ job = Idle /\ success = [t \in Names |-> FALSE] /\ loaded = [t \in Names |-> 0]
  /\ active = 0 /\ completed = 0 /\ failed = 0 /\ finite = TRUE
  /\ history = <<>> /\ results = <<>> /\ seen = [t \in Names |-> <<>>]
  /\ ended = <<>> /\ overlapped = FALSE

-----------------------------------------------------------------------------
(* The calls *)

ConfigureTarget(t) ==
  /\ call = "none"
  /\ \E s \in {"disabled", "enabled"} : targets' = [targets EXCEPT ![t] = s]
  /\ UNCHANGED <<call, todo, threads, job, success, loaded, metrics, history, appends, ghosts>>

\* The job of target t begins: the load of ++active_jobs.
BeginJob(t) ==
  /\ job' = [job EXCEPT ![t] = "begun"]
  /\ loaded' = [loaded EXCEPT ![t] = active]
  /\ overlapped' = (overlapped \/ Unfinished # {})
  /\ UNCHANGED <<success, metrics, history, ended>>

ExecuteOne(t) ==
  /\ call = "none" /\ Len(ended) < MaxBackups
  /\ targets[t] # "unknown"
  /\ call' = "one"
  /\ BeginJob(t)
  /\ UNCHANGED <<targets, todo, threads, appends>>

ExecuteAll ==
  /\ call = "none" /\ Len(ended) + Cardinality(Enabled) <= MaxBackups
  /\ call' \in {"serial", "parallel"}
  /\ todo' = Targets /\ results' = <<>>
  /\ UNCHANGED <<targets, threads, job, success, loaded, metrics, history, seen, ghosts>>

\* The loop goes on when the job it runs itself, if any, has ended.
LoopIsFree == \A t \in Names \ threads : job[t] \in {"none", "done"}

SkipTarget ==
  /\ todo # <<>> /\ LoopIsFree /\ Head(todo) \notin Enabled
  /\ todo' = Tail(todo)
  /\ UNCHANGED <<targets, call, threads, job, success, loaded, metrics, history, appends, ghosts>>

\* Variant: one thread less, so that the loop itself runs one job of a full set.
LaunchFewer ==
  /\ todo # <<>> /\ LoopIsFree /\ Head(todo) \in Enabled
  /\ todo' = Tail(todo)
  /\ threads' = IF call = "parallel" /\ Cardinality(threads) + 1 < MaxJobs
                THEN threads \cup {Head(todo)} ELSE threads
  /\ BeginJob(Head(todo))
  /\ UNCHANGED <<targets, call, appends>>

Launch ==
  /\ todo # <<>> /\ LoopIsFree /\ Head(todo) \in Enabled
  /\ todo' = Tail(todo)
  /\ threads' = IF call = "parallel" /\ Cardinality(threads) < MaxJobs
                THEN threads \cup {Head(todo)} ELSE threads
  /\ BeginJob(Head(todo))
  /\ UNCHANGED <<targets, call, appends>>

\* Every job is done and every thread joined.
Joined ==
  /\ call # "none" /\ todo = <<>>
  /\ \A t \in Names : job[t] \in {"none", "done"}

Finish ==
  /\ Joined
  /\ call' = "none" /\ threads' = {} /\ job' = Idle
  /\ results' = <<>>
  /\ UNCHANGED <<targets, todo, success, loaded, metrics, history, seen, ghosts>>

-----------------------------------------------------------------------------
(* execute_backup_internal *)

Wrap(n) == n % SizeMod

\* The store of ++active_jobs.
Enter(t) ==
  /\ job[t] = "begun" /\ job' = [job EXCEPT ![t] = "running"]
  /\ active' = Wrap(loaded[t] + 1) /\ loaded' = [loaded EXCEPT ![t] = 0]
  /\ UNCHANGED <<control, success, completed, failed, finite, history, appends, ghosts>>

\* The backup succeeds or fails, by its result or an exception.
Settle(t) ==
  /\ job[t] = "running" /\ job' = [job EXCEPT ![t] = "settled"]
  /\ \E ok \in BOOLEAN :
       /\ success' = [success EXCEPT ![t] = ok]
       /\ loaded' = [loaded EXCEPT ![t] = IF ok THEN completed ELSE failed]
  /\ UNCHANGED <<control, metrics, history, appends, ghosts>>

\* Variant: a failed backup is counted as a completed one.
CountFailed(t) ==
  /\ job[t] = "settled" /\ job' = [job EXCEPT ![t] = "counted"]
  /\ completed' = Wrap(loaded[t] + 1) /\ UNCHANGED failed
  /\ loaded' = [loaded EXCEPT ![t] = 0]
  /\ UNCHANGED <<control, success, active, finite, history, appends, ghosts>>

Count(t) ==
  /\ job[t] = "settled" /\ job' = [job EXCEPT ![t] = "counted"]
  /\ IF success[t]
     THEN completed' = Wrap(loaded[t] + 1) /\ UNCHANGED failed
     ELSE failed' = Wrap(loaded[t] + 1) /\ UNCHANGED completed
  /\ loaded' = [loaded EXCEPT ![t] = 0]
  /\ UNCHANGED <<control, success, active, finite, history, appends, ghosts>>

\* The average is divided by the number of completed backups, whatever the
\* outcome; once it is infinite or not a number it stays so.
Measure(t) ==
  /\ job[t] = "counted" /\ job' = [job EXCEPT ![t] = "measured"]
  /\ finite' = (finite /\ completed # 0)
  /\ UNCHANGED <<control, success, loaded, active, completed, failed, history, appends, ghosts>>

\* --active_jobs
Leave(t) ==
  /\ job[t] = "measured" /\ job' = [job EXCEPT ![t] = "leaving"]
  /\ loaded' = [loaded EXCEPT ![t] = active]
  /\ UNCHANGED <<control, success, metrics, history, appends, ghosts>>

Left(t) ==
  /\ job[t] = "leaving" /\ job' = [job EXCEPT ![t] = "left"]
  /\ active' = Wrap(loaded[t] - 1) /\ loaded' = [loaded EXCEPT ![t] = 0]
  /\ UNCHANGED <<control, success, completed, failed, finite, history, appends, ghosts>>

\* Under results_mutex_.
Record(t) ==
  /\ job[t] = "left"
  /\ job' = [job EXCEPT ![t] = IF call = "one" THEN "done" ELSE "recorded"]
  /\ LET longer == Append(history, <<t, success[t]>>)
     IN history' = IF Len(longer) > HistoryLimit THEN Tail(longer) ELSE longer
  /\ ended' = Append(ended, <<t, success[t]>>)
  /\ success' = [success EXCEPT ![t] = FALSE]
  /\ UNCHANGED <<control, loaded, metrics, appends, overlapped>>

-----------------------------------------------------------------------------
(* results.push_back(result) *)

\* Threads append under a mutex; the loop appends without it.
MayAppend(t) == t \in threads => \A u \in threads : job[u] # "appending"

AppendLoad(t) ==
  /\ job[t] = "recorded" /\ MayAppend(t)
  /\ job' = [job EXCEPT ![t] = "appending"]
  /\ seen' = [seen EXCEPT ![t] = results]
  /\ UNCHANGED <<control, success, loaded, metrics, history, results, ghosts>>

AppendStore(t) ==
  /\ job[t] = "appending" /\ job' = [job EXCEPT ![t] = "done"]
  /\ results' = Append(seen[t], t) /\ seen' = [seen EXCEPT ![t] = <<>>]
  /\ UNCHANGED <<control, success, loaded, metrics, history, ghosts>>

Run(t) ==
  \/ Enter(t) \/ Settle(t) \/ Count(t) \/ Measure(t) \/ Leave(t) \/ Left(t)
  \/ Record(t) \/ AppendLoad(t) \/ AppendStore(t)

JobsNext ==
  \/ \E t \in Names : ConfigureTarget(t) \/ ExecuteOne(t) \/ Run(t)
  \/ ExecuteAll \/ SkipTarget \/ Launch \/ Finish

JobsSpec == JobsInit /\ [][JobsNext]_jobsVars

-----------------------------------------------------------------------------
(* Properties *)

\* execute_all_backups returns one result per enabled target when it runs
\* serially, or in parallel with no more targets than threads: beyond that the
\* loop appends beside its threads.  Never is a result invented or repeated.
ResultsComplete ==
  Joined /\ call # "one" =>
    /\ IsInjective(results) /\ ToSet(results) \subseteq Enabled
    /\ call = "serial" \/ Cardinality(Enabled) <= MaxJobs => ToSet(results) = Enabled

\* The history is the latest backups in the order they ended, however they ran.
\* The metrics are those of the backups that ended, as long as no two ran at a
\* time; the average then is a number exactly if the first backup succeeded.
BooksBalance ==
  /\ history = SubSeq(ended, Len(ended) - Len(history) + 1, Len(ended))
  /\ Len(history) = IF Len(ended) > HistoryLimit THEN HistoryLimit ELSE Len(ended)
  /\ Unfinished = {} /\ ~overlapped =>
       /\ active = 0
       /\ completed = Cardinality({i \in DOMAIN ended : ended[i][2]})
       /\ failed = Cardinality({i \in DOMAIN ended : ~ended[i][2]})
       /\ finite <=> ended = <<>> \/ ended[1][2]
=============================================================================
