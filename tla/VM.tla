---------------------------------- MODULE VM ----------------------------------
(***************************************************************************)
(* Class VM of module lamia.runtime: an ExecutionEngine behind a gate.     *)
(* execute_bytecode loads and runs in one call and never resumes a         *)
(* program, so a run starts from nothing.                                  *)
(***************************************************************************)
EXTENDS ExecutionEngine

VARIABLES
  initialized,
  phase,   \* where execute_bytecode is: see Phases
  watched, \* history: any one program, chosen at the start
  memo     \* history: what the completed executions of watched left

history == <<watched, memo>>
vmVars == <<engineVars, initialized, phase, history>>

\* "idle": outside, or inside engine_.run(); "loaded": between load and run;
\* "rejected": the last call found the VM not initialized.
Phases == {"idle", "loaded", "rejected"}

Outcome == [call : {"ok", "error"}, stack : Seq(Int64), locals : Seq(Int64)]

VMTypeOK ==
  /\ EngineTypeOK
  /\ initialized \in BOOLEAN
  /\ phase \in Phases
  /\ watched \in Programs
  /\ memo \subseteq Outcome

VMInit ==
  /\ EngineInit
  /\ initialized = FALSE /\ phase = "idle"
  /\ watched \in Programs /\ memo = {}

VMAtHost == AtHost /\ phase # "loaded"

Initialize ==
  /\ VMAtHost
  /\ initialized' = TRUE
  /\ UNCHANGED <<engineVars, phase, history>>

\* Variant: code that is loaded already is not loaded again.
ExecuteLoadCached(code) ==
  /\ VMAtHost /\ initialized
  /\ IF code = program THEN UNCHANGED engineVars ELSE LoadProgram(code)
  /\ phase' = "loaded"
  /\ UNCHANGED <<initialized, history>>

\* execute_bytecode, first half; load() cannot fail.
ExecuteLoad(code) ==
  /\ VMAtHost /\ initialized
  /\ LoadProgram(code)
  /\ phase' = "loaded"
  /\ UNCHANGED <<initialized, history>>

ExecuteRun ==
  /\ phase = "loaded" /\ Run
  /\ phase' = "idle"
  /\ UNCHANGED <<initialized, history>>

ExecuteRejected ==
  /\ VMAtHost /\ ~initialized
  /\ phase' = "rejected"
  /\ UNCHANGED <<engineVars, initialized, history>>

Executing ==
  /\ Step
  /\ memo' = IF program = watched /\ call' \in {"ok", "error"}
             THEN memo \cup {[call |-> call', stack |-> stack', locals |-> locals']}
             ELSE memo
  /\ UNCHANGED <<initialized, phase, watched>>

\* Variant: shutdown rewinds the engine and keeps its operand stack.
ShutdownRewinds ==
  /\ VMAtHost
  /\ program' = <<>> /\ pc' = 0 /\ status' = "idle" /\ call' = "none"
  /\ torn' = FALSE
  /\ UNCHANGED <<stack, locals, initialized, phase, history>>

\* shutdown() resets the engine and leaves the VM initialized.
Shutdown ==
  /\ VMAtHost /\ Reset
  /\ UNCHANGED <<initialized, phase, history>>

VMNext ==
  \/ Initialize
  \/ \E code \in Programs : ExecuteLoad(code)
  \/ ExecuteRun
  \/ ExecuteRejected
  \/ Executing
  \/ Shutdown

VMSpec == VMInit /\ [][VMNext]_vmVars

-----------------------------------------------------------------------------
(* Properties *)

\* What execute_bytecode computes depends on the code alone: nothing a former
\* program, error or shutdown left behind shows in its result, its stack or its
\* locals.  (Executions cut short by an exception are not recorded.)
Repeatable == \A a, b \in memo : a = b

\* Code that passes the static check never ends in "stack underflow", also when
\* the execution before it was cut short by an exception.
CheckedCodeNeverFails ==
  \A h \in [0 .. Len(program) -> 0 .. MemoryLimit] :
     Annotates(h, program) => call # "error"
=============================================================================
