---------------------------- MODULE BackupScheduler ----------------------------
(***************************************************************************)
(* The scheduler thread of class BackupAutomationEngine, start() and stop()*)
(* by the thread that owns the engine, and configure_backup_schedule() by  *)
(* any thread.  Every critical section under schedules_mutex_ is one step. *)
(* The thread computes its deadline before it takes the mutex; a read that *)
(* races with a change of the map sees the map before or after it here.    *)
(***************************************************************************)
EXTENDS Integers, FiniteSetsExt

CONSTANTS
  Ids,      \* schedules
  MaxTime,  \* bound: the last moment of the clock
  Never     \* time_point::max()

ASSUME SchedulerAssumption == MaxTime \in Nat /\ Never \notin Int

VARIABLES
  schedules,  \* backup_schedules_[id]: when it runs next, Never if disabled or unknown
  running,    \* engine_running_
  shutdown,   \* shutdown_requested_
  owner,      \* the owner: "free", or where it is in stop()
  pc,         \* the scheduler thread
  deadline,   \* next_run_time
  clock,
  overtaken   \* a schedule was configured after the deadline was computed

schedulerVars == <<schedules, running, shutdown, owner, pc, deadline, clock, overtaken>>

Moments == 0 .. MaxTime
ThreadStates == {"none", "testing", "reading", "locking", "waiting", "executing", "ended"}

SchedulerInit ==
  /\ schedules \in [Ids -> Moments \cup {Never}]
  /\ running = FALSE /\ shutdown = FALSE /\ owner = "free"
  /\ pc = "none" /\ deadline = Never /\ clock = 0 /\ overtaken = FALSE

\* calculate_next_scheduled_run()
Earliest ==
  LET runs == {schedules[i] : i \in Ids} \ {Never}
  IN IF runs = {} THEN Never ELSE Min(runs)

-----------------------------------------------------------------------------
(* Other threads *)

\* start() does nothing while the engine runs.
Start ==
  /\ owner = "free" /\ ~running
  /\ running' = TRUE /\ shutdown' = FALSE /\ pc' = "testing"
  /\ UNCHANGED <<schedules, owner, deadline, clock, overtaken>>

\* stop() sets the flag without the mutex ...
Stop ==
  /\ owner = "free" /\ running
  /\ shutdown' = TRUE /\ owner' = "notifying"
  /\ UNCHANGED <<schedules, running, pc, deadline, clock, overtaken>>

Past(moment) == moment \in 0 .. clock

\* Variant: compared with no_timeout.
AwakeSwapped == IF Past(deadline) THEN "testing" ELSE "executing"

\* A notification reaches the thread only while it waits; wait_until()
\* reports a timeout whenever the deadline is past.
Awake == IF Past(deadline) THEN "executing" ELSE "testing"

Notified == IF pc = "waiting" THEN Awake ELSE pc

\* ... notifies ...
StopNotify ==
  /\ owner = "notifying" /\ owner' = "joining"
  /\ pc' = Notified
  /\ UNCHANGED <<schedules, running, shutdown, deadline, clock, overtaken>>

\* ... and joins.
StopJoin ==
  /\ owner = "joining" /\ pc = "ended"
  /\ owner' = "free" /\ pc' = "none" /\ running' = FALSE
  /\ UNCHANGED <<schedules, shutdown, deadline, clock, overtaken>>

\* Variant: only a schedule that was there before wakes the thread.
ConfigureScheduleQuietly(i, next) ==
  /\ schedules' = [schedules EXCEPT ![i] = next]
  /\ pc' = IF schedules[i] = Never THEN pc ELSE Notified
  /\ overtaken' = (overtaken \/ pc = "locking")
  /\ UNCHANGED <<running, shutdown, owner, deadline, clock>>

ConfigureSchedule(i, next) ==
  /\ schedules' = [schedules EXCEPT ![i] = next]
  /\ pc' = Notified
  /\ overtaken' = (overtaken \/ pc = "locking")
  /\ UNCHANGED <<running, shutdown, owner, deadline, clock>>

Tick ==
  /\ clock < MaxTime /\ clock' = clock + 1
  /\ UNCHANGED <<schedules, running, shutdown, owner, pc, deadline, overtaken>>

-----------------------------------------------------------------------------
(* scheduler_worker() *)

Test ==
  /\ pc = "testing" /\ pc' = IF shutdown THEN "ended" ELSE "reading"
  /\ UNCHANGED <<schedules, running, shutdown, owner, deadline, clock, overtaken>>

Read ==
  /\ pc = "reading" /\ pc' = "locking"
  /\ deadline' = Earliest /\ overtaken' = FALSE
  /\ UNCHANGED <<schedules, running, shutdown, owner, clock>>

\* Locking the mutex and waiting, which releases it, is one step.
BeginWait ==
  /\ pc = "locking" /\ pc' = "waiting"
  /\ UNCHANGED <<schedules, running, shutdown, owner, deadline, clock, overtaken>>

\* Variant: without schedules the thread waits for ever.
TimeoutDue ==
  /\ pc = "waiting" /\ Past(deadline)
  /\ pc' = "executing"
  /\ UNCHANGED <<schedules, running, shutdown, owner, deadline, clock, overtaken>>

\* The deadline passes or, without schedules, five minutes do.
Timeout ==
  /\ pc = "waiting" /\ (deadline = Never \/ Past(deadline))
  /\ pc' = Awake
  /\ UNCHANGED <<schedules, running, shutdown, owner, deadline, clock, overtaken>>

SpuriousWakeup ==
  /\ pc = "waiting" /\ pc' = Awake
  /\ UNCHANGED <<schedules, running, shutdown, owner, deadline, clock, overtaken>>

\* execute_scheduled_backups() leaves next_run as it is: the next round of the
\* loop finds the same deadline.
Execute ==
  /\ pc = "executing" /\ pc' = "testing"
  /\ UNCHANGED <<schedules, running, shutdown, owner, deadline, clock, overtaken>>

Worker == Test \/ Read \/ BeginWait \/ Timeout \/ Execute

SchedulerNext ==
  \/ Start \/ Stop \/ StopNotify \/ StopJoin
  \/ \E i \in Ids, next \in Moments \cup {Never} : ConfigureSchedule(i, next)
  \/ Tick \/ Worker \/ SpuriousWakeup

SchedulerSpec == SchedulerInit /\ [][SchedulerNext]_schedulerVars

\* The clock, the scheduler thread and a stop() that began go on.
FairSchedulerSpec ==
  SchedulerSpec /\ WF_schedulerVars(Worker) /\ WF_schedulerVars(Tick)
    /\ WF_schedulerVars(StopNotify \/ StopJoin)

-----------------------------------------------------------------------------
(* Properties *)

\* The thread exists exactly while the engine runs, has ended only if it was
\* told to, and sleeps towards the earliest run of an enabled schedule,
\* however the schedules change: configure_backup_schedule() wakes it "to
\* recalculate next run".  Only a change between its reading of the
\* schedules and its wait goes unnoticed.
SleepsTowardsEarliest ==
  /\ pc \in ThreadStates /\ (running <=> pc # "none")
  /\ pc = "ended" => shutdown
  /\ pc = "waiting" /\ ~overtaken => deadline = Earliest

\* A run that is due happens, even if its schedule was overlooked at first, unless
\* the engine is stopped or the schedule put off.
DueRunHappens ==
  \A i \in Ids :
    running /\ Past(schedules[i]) ~> pc = "executing" \/ shutdown \/ ~Past(schedules[i])

\* stop() returns, also when its notification falls between the thread's test of
\* the flag and its wait: every wait has an end.
StopReturns == owner # "free" ~> owner = "free"
=============================================================================
