--------------------------- MODULE MCExecutionEngine ---------------------------
(***************************************************************************)
(* Small machines for TLC: 4-bit integers, 5-bit sizes, vectors of at most *)
(* three elements.                                                         *)
(***************************************************************************)
EXTENDS ExecutionEngine

I(o, a) == [op |-> o, arg0 |-> a]

\* One instruction of every kind, with the operands that matter: the two ends
\* of the word, the index -1, an index beyond the memory, jumps backward,
\* forward and out of the program.
Menu ==
  {I(o, 0) : o \in {"Call", "Add", "Div", "Halt"}} \cup
  {I("Const", a) : a \in {-8, -1, 0}} \cup
  {I("Load", a) : a \in {-1, 1, 7}} \cup
  {I("Store", a) : a \in {-2, 0}} \cup
  {I("Jump", a) : a \in {-1, 0, 2}} \cup
  {I("JumpIfNot", a) : a \in {0, 2}}

\* Longer programs: the one of the repository's runtime test, and a loop that
\* counts local 0 down to zero.
TestProgram == <<I("Const", 2), I("Const", 3), I("Add", 0), I("Halt", 0)>>
CountDown ==
  <<I("Const", 2), I("Store", 0), I("Load", 0), I("JumpIfNot", -1),
    I("Load", 0), I("Const", -1), I("Add", 0), I("Jump", 1)>>
Loop ==
  <<I("Const", 3), I("Const", 1), I("Sub", 0), I("Const", 2), I("Mul", 0), I("Jump", 1)>>

\* Another program is loaded only after a reset: loading clears the same state,
\* so no reachable state is lost and TLC is spared a transition from every state
\* to every program.
MCNext ==
  \/ \E p \in (IF program = <<>> THEN Programs ELSE {program}) : LoadProgram(p)
  \/ Reset
  \/ Run
  \/ Step
\* run() is a plain loop: the thread that entered it keeps executing.
MCSpec == EngineInit /\ [][MCNext]_engineVars /\ WF_engineVars(Step)

MCPrograms == SeqOf(Menu, 3) \cup {TestProgram, CountDown, Loop}
================================================================================
