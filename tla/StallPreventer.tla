---------------------------- MODULE StallPreventer ----------------------------
(***************************************************************************)
(* Class StallPreventerAgent: a thread that checks once in an interval     *)
(* which agents have been silent for longer than a threshold and then      *)
(* tries to wake them all.  Time is relative: ages in seconds, which need  *)
(* not be told apart beyond the threshold.  The configuration is loaded    *)
(* while the thread does not run.                                          *)
(***************************************************************************)
EXTENDS Integers, FiniteSets

CONSTANTS
  Agents,
  Threshold,  \* stall_threshold_seconds
  Interval    \* interval_seconds

ASSUME StallAssumption == Threshold \in Nat /\ Interval \in Nat

VARIABLES
  known,     \* the keys of m_agentLastActivity
  age,       \* age[a]: seconds since the last activity of a
  running,   \* m_running
  owner,     \* the owner: "free", or "joining" in Stop()
  pc,        \* the monitoring thread; "recovering" holds m_activityMutex
  pause,     \* what is left of its sleep
  suspects,  \* agents that were silent too long at the time "now" it read
  quiet      \* seconds since the last recovery

stallVars == <<known, age, running, owner, pc, pause, suspects, quiet>>

Ages == 0 .. Threshold + 1
Older(n) == IF n > Threshold THEN n ELSE n + 1
Silent == {a \in known : age[a] > Threshold}

StallInit ==
  /\ known = {} /\ age = [a \in Agents |-> 0]
  /\ running = FALSE /\ owner = "free" /\ pc = "none" /\ pause = 0
  /\ suspects = {} /\ quiet = Threshold + 1

MutexFree == pc # "recovering"

\* Activities of these agents, now: later than the time a check in progress read.
Refresh(agents) ==
  /\ known' = known \cup agents
  /\ age' = [a \in Agents |-> IF a \in agents THEN 0 ELSE age[a]]

\* Variant: the suspicion stays.
RegisterSuspected(a) ==
  /\ MutexFree /\ Refresh({a})
  /\ UNCHANGED <<running, owner, pc, pause, suspects, quiet>>

RegisterAgentActivity(a) ==
  /\ MutexFree /\ Refresh({a})
  /\ suspects' = suspects \ {a}
  /\ UNCHANGED <<running, owner, pc, pause, quiet>>

\* The monitored agents of the configuration.
Initialize ==
  /\ ~running /\ owner = "free"
  /\ \E agents \in SUBSET Agents : Refresh(agents)
  /\ UNCHANGED <<running, owner, pc, pause, suspects, quiet>>

Start ==
  /\ owner = "free" /\ ~running
  /\ running' = TRUE /\ pc' = "testing"
  /\ UNCHANGED <<known, age, owner, pause, suspects, quiet>>

Stop ==
  /\ owner = "free" /\ running
  /\ running' = FALSE /\ owner' = "joining"
  /\ UNCHANGED <<known, age, pc, pause, suspects, quiet>>

StopJoin ==
  /\ owner = "joining" /\ pc = "ended"
  /\ owner' = "free" /\ pc' = "none"
  /\ UNCHANGED <<known, age, running, pause, suspects, quiet>>

Tick ==
  /\ age' = [a \in Agents |-> IF a \in known THEN Older(age[a]) ELSE age[a]]
  /\ quiet' = Older(quiet)
  /\ pause' = IF pc = "sleeping" /\ pause > 0 THEN pause - 1 ELSE pause
  /\ UNCHANGED <<known, running, owner, pc, suspects>>

-----------------------------------------------------------------------------
(* The monitoring thread *)

Test ==
  /\ pc = "testing" /\ pc' = IF running THEN "reading" ELSE "ended"
  /\ UNCHANGED <<known, age, running, owner, pause, suspects, quiet>>

\* Variant: a stall is one of all agents.
ReadTimeOfAll ==
  /\ pc = "reading" /\ pc' = "locking"
  /\ suspects' = IF Silent = known THEN Silent ELSE {}
  /\ UNCHANGED <<known, age, running, owner, pause, quiet>>

\* CheckForStalls() reads the time before it locks the mutex ...
ReadTime ==
  /\ pc = "reading" /\ pc' = "locking"
  /\ suspects' = Silent
  /\ UNCHANGED <<known, age, running, owner, pause, quiet>>

Sleep == pc' = "sleeping" /\ pause' = Interval /\ suspects' = {}

\* ... and compares it with the last activities under the mutex.
NoStall ==
  /\ pc = "locking" /\ suspects = {}
  /\ Sleep
  /\ UNCHANGED <<known, age, running, owner, quiet>>

Stall ==
  /\ pc = "locking" /\ suspects # {}
  /\ pc' = "recovering"
  /\ UNCHANGED <<known, age, running, owner, pause, suspects, quiet>>

\* Key press and notification are over; all timers start anew.
Recover ==
  /\ pc = "recovering"
  /\ Sleep /\ quiet' = 0
  /\ Refresh(known)
  /\ UNCHANGED <<running, owner>>

Wake ==
  /\ pc = "sleeping" /\ pause = 0
  /\ pc' = "testing"
  /\ UNCHANGED <<known, age, running, owner, pause, suspects, quiet>>

Monitor == Test \/ ReadTime \/ NoStall \/ Stall \/ Recover \/ Wake

StallNext ==
  \/ \E a \in Agents : RegisterAgentActivity(a)
  \/ Initialize \/ Start \/ Stop \/ StopJoin \/ Tick
  \/ Monitor

StallSpec == StallInit /\ [][StallNext]_stallVars

\* Time passes and the monitoring thread goes on.
FairStallSpec ==
  StallSpec /\ WF_stallVars(Tick) /\ WF_stallVars(Monitor)

-----------------------------------------------------------------------------
(* Properties *)

StallTypeOK ==
  /\ known \subseteq Agents /\ age \in [Agents -> Ages]
  /\ running \in BOOLEAN /\ owner \in {"free", "joining"}
  /\ pc \in {"none", "testing", "reading", "locking", "recovering", "sleeping", "ended"}
  /\ pause \in 0 .. Interval /\ suspects \subseteq Agents /\ quiet \in Ages

\* A recovery starts only for an agent that is silent at that moment, although
\* the time was read earlier, and not before the threshold has passed since
\* the last one: "Reset timers to avoid repeated firing immediately".
AlarmsAreJustified ==
  [][pc' = "recovering" => pc = "recovering" \/ (Silent # {} /\ quiet > Threshold)]_stallVars

\* While the thread runs, an agent that stays silent is met by a recovery.
SilenceIsMet ==
  \A a \in Agents : running /\ age[a] > Threshold ~> age[a] <= Threshold \/ ~running
=============================================================================
