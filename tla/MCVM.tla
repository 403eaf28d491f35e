--------------------------------- MODULE MCVM ---------------------------------
(* The programs of an application that keeps one VM and runs them in any order. *)
EXTENDS VM

I(o, a) == [op |-> o, arg0 |-> a]

\* The program of the repository's runtime test.
TestProgram == <<I("Const", 2), I("Const", 3), I("Add", 0), I("Halt", 0)>>
\* Reads a local nobody stored: another program's value would show.
ReadsFresh == <<I("Load", 1), I("JumpIfNot", 3), I("Const", 7)>>
\* Leaves a local and a value behind.
Litters == <<I("Const", 5), I("Store", 1), I("Const", 6), I("Sub", 0), I("Jump", 7)>>
\* Passes the static check and runs out of memory at its fourth push.
Deep == <<I("Const", 1), I("Const", 2), I("Load", 0), I("Const", 4),
          I("Add", 0), I("Add", 0), I("Add", 0)>>
\* Throws at its first instruction; resumed after it, Store would underflow.
CannotLoad == <<I("Load", 7), I("Store", 0)>>
\* The sum does not fit the word.
Overflows == <<I("Const", 7), I("Const", 6), I("Add", 0)>>

Menu == {I("Const", -8), I("Store", 1), I("Load", 1), I("Div", 0), I("JumpIfNot", 0)}

MCPrograms == SeqOf(Menu, 2) \cup {TestProgram, ReadsFresh, Litters, Deep, CannotLoad, Overflows}
================================================================================
