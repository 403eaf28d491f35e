---------------------------- MODULE DiscordEvents ----------------------------
(***************************************************************************)
(* The event queue of class MedusaDiscordEngine: any thread emits, event   *)
(* handlers included; one thread handles; the owner of the engine starts   *)
(* and stops it.  The gateway connection is a step of start() and of       *)
(* stop().  Handlers are registered before start() and do not stop the     *)
(* engine.                                                                 *)
(***************************************************************************)
EXTENDS Integers, SequencesExt

CONSTANT MaxEvents  \* bound: events emitted; they are numbered

ASSUME EventsAssumption == MaxEvents \in Nat

VARIABLES
  running,
  queue,    \* event_queue
  emitted,  \* how many events were emitted
  handled,  \* what the handlers were given, in order
  current,  \* the event being handled, in a sequence
  pc,       \* the event thread
  owner,    \* the owner: "free", or where it is in start() or stop()
  missed    \* stop() notified while the thread was about to wait

eventVars == <<running, queue, emitted, handled, current, pc, owner, missed>>

EventsInit ==
  /\ running = FALSE /\ queue = <<>> /\ emitted = 0 /\ handled = <<>> /\ current = <<>>
  /\ pc = "none" /\ owner = "free" /\ missed = FALSE

\* The event thread holds event_mutex while it decides to wait and between two
\* events.
MutexFree == pc \notin {"deciding", "draining"}

\* A thread that waits evaluates its condition again.
Notified == IF pc = "waiting" THEN "locking" ELSE pc

\* Variant: the queue is not locked.
EmitUnlocked ==
  /\ emitted < MaxEvents
  /\ emitted' = emitted + 1 /\ queue' = Append(queue, emitted')
  /\ pc' = Notified
  /\ UNCHANGED <<running, handled, current, owner, missed>>

Emit ==
  /\ emitted < MaxEvents /\ MutexFree
  /\ emitted' = emitted + 1 /\ queue' = Append(queue, emitted')
  /\ pc' = Notified
  /\ UNCHANGED <<running, handled, current, owner, missed>>

-----------------------------------------------------------------------------
(* start() and stop() *)

Start ==
  /\ owner = "free" /\ ~running
  /\ running' = TRUE /\ owner' = "connecting"
  /\ UNCHANGED <<queue, emitted, handled, current, pc, missed>>

\* The thread is started whether or not the gateway answered.
StartThread ==
  /\ owner = "connecting" /\ owner' = "free"
  /\ pc' = "testing" /\ missed' = FALSE
  /\ UNCHANGED <<running, queue, emitted, handled, current>>

Stop ==
  /\ owner = "free" /\ running
  /\ running' = FALSE /\ owner' = "disconnecting"
  /\ UNCHANGED <<queue, emitted, handled, current, pc, missed>>

\* The connection is closed, then the event thread notified, without its mutex.
StopNotify ==
  /\ owner = "disconnecting" /\ owner' = "joining"
  /\ pc' = Notified /\ missed' = (pc = "deciding")
  /\ UNCHANGED <<running, queue, emitted, handled, current>>

StopJoin ==
  /\ owner = "joining" /\ pc = "ended"
  /\ owner' = "free" /\ pc' = "none"
  /\ UNCHANGED <<running, queue, emitted, handled, current, missed>>

-----------------------------------------------------------------------------
(* process_events() *)

Move(from, to) ==
  /\ pc = from /\ pc' = to
  /\ UNCHANGED <<running, queue, emitted, owner, missed>>

Test == Move("testing", IF running THEN "locking" ELSE "ended") /\ UNCHANGED <<handled, current>>

\* Variant: the condition does not mention running.
DecideByQueue ==
  /\ Move("locking", IF queue # <<>> THEN "draining" ELSE "deciding")
  /\ UNCHANGED <<handled, current>>

\* The condition of the wait, under the mutex ...
Decide ==
  /\ Move("locking", IF queue # <<>> \/ ~running THEN "draining" ELSE "deciding")
  /\ UNCHANGED <<handled, current>>

\* ... and the wait, which releases it.
Wait == Move("deciding", "waiting") /\ UNCHANGED <<handled, current>>

SpuriousWakeup == Move("waiting", "locking") /\ UNCHANGED <<handled, current>>

\* Variant: the event stays in the queue until it was handled.
TakeFront ==
  /\ pc = "draining" /\ queue # <<>>
  /\ pc' = "handling" /\ current' = <<Head(queue)>>
  /\ UNCHANGED <<running, queue, emitted, handled, owner, missed>>

\* The mutex is released for the handlers.
Take ==
  /\ pc = "draining" /\ queue # <<>>
  /\ pc' = "handling" /\ current' = <<Head(queue)>> /\ queue' = Tail(queue)
  /\ UNCHANGED <<running, emitted, handled, owner, missed>>

Handle ==
  /\ Move("handling", "draining")
  /\ handled' = handled \o current /\ current' = <<>>

Drained == queue = <<>> /\ Move("draining", "testing") /\ UNCHANGED <<handled, current>>

EventThread == Test \/ Decide \/ Wait \/ Take \/ Handle \/ Drained

EventsNext ==
  \/ Emit \/ Start \/ StartThread \/ Stop \/ StopNotify \/ StopJoin
  \/ EventThread \/ SpuriousWakeup

EventsSpec == EventsInit /\ [][EventsNext]_eventVars

\* The event thread goes on, and so does a start() or stop() that began.
FairEventsSpec ==
  EventsSpec /\ WF_eventVars(EventThread)
    /\ WF_eventVars(StartThread \/ StopNotify \/ StopJoin)

-----------------------------------------------------------------------------
(* Properties *)

\* Every event reaches the handlers once and in the order of the emit_event()
\* calls, also those a stop() left in the queue for the next start().
HandledInOrder == handled \o current \o queue = [i \in 1 .. emitted |-> i]

\* While the engine runs, every event is handled: no emit_event() falls between
\* the thread's look at the queue and its wait.
EventsAreHandled ==
  \A e \in 1 .. MaxEvents :
    running /\ Contains(queue, e) ~> Contains(handled, e) \/ ~running

\* stop() returns, unless its notification fell between the thread's look at
\* running and its wait; it then waits for an event.
StopReturns ==
  owner \in {"disconnecting", "joining"} ~> owner = "free" \/ (pc = "waiting" /\ missed)
=============================================================================
