--------------------------- MODULE ExecutionEngine ---------------------------
(***************************************************************************)
(* The bytecode interpreter of module lamia.runtime (class                 *)
(* ExecutionEngine).  One instruction is one step of run(); the host may   *)
(* load, run and reset in any order between two calls of run().            *)
(*                                                                         *)
(* Machine integers are cut down by the constants: std::int64_t is         *)
(* -Half..Half-1, std::int32_t is -ArgHalf..ArgHalf-1 and std::size_t is   *)
(* 0..SizeMod-1.  A std::vector cannot grow beyond MemoryLimit elements:   *)
(* push_back and resize then throw out of run().                           *)
(***************************************************************************)
EXTENDS Integers, SequencesExt

CONSTANTS
  Half,         \* 2^63
  ArgHalf,      \* 2^31
  SizeMod,      \* 2^64
  MemoryLimit,  \* the most elements a vector of the engine can hold
  Programs      \* the instruction sequences the host may load

Opcode == {"Nop", "Const", "Add", "Sub", "Mul", "Div", "Load", "Store",
           "Call", "Ret", "Jump", "JumpIfNot", "Halt"}
Int64 == -Half .. Half - 1
Int32 == -ArgHalf .. ArgHalf - 1

\* arg1 is left out: no instruction reads it.
Instruction == [op : Opcode, arg0 : Int32]

ASSUME MachineAssumption ==
  /\ Half \in Nat \ {0} /\ ArgHalf \in Nat \ {0} /\ ArgHalf <= Half
  /\ MemoryLimit \in Nat /\ SizeMod \in Nat /\ MemoryLimit + ArgHalf < SizeMod
ASSUME ProgramsAssumption ==
  /\ Programs \subseteq Seq(Instruction)
  /\ \A p \in Programs : Len(p) + ArgHalf < SizeMod

VARIABLES
  program, stack, locals, pc, status,
  call,   \* how the last run() stands: see Calls
  torn    \* history: an instruction of this program has thrown

engineVars == <<program, stack, locals, pc, status, call, torn>>

\* "none": run() was not called since the program changed; "running": inside
\* run(); then its result, the exception it let through, or "undefined" once
\* the C++ program has no defined behaviour.
Calls == {"none", "running", "ok", "error", "thrown", "undefined"}

EngineTypeOK ==
  /\ program \in Programs \cup {<<>>}
  /\ stack \in Seq(Int64) /\ Len(stack) <= MemoryLimit
  /\ locals \in Seq(Int64) /\ Len(locals) <= MemoryLimit
  /\ pc \in 0 .. SizeMod - 1
  /\ status \in {"idle", "loaded", "running", "halted"}
  /\ call \in Calls
  /\ torn \in BOOLEAN

EngineInit ==
  /\ program = <<>> /\ stack = <<>> /\ locals = <<>> /\ pc = 0
  /\ status = "idle" /\ call = "none" /\ torn = FALSE

-----------------------------------------------------------------------------
(* Host calls *)

AtHost == call \notin {"running", "undefined"}

Replace(p, s) ==
  /\ AtHost
  /\ program' = p /\ stack' = <<>> /\ locals' = <<>> /\ pc' = 0
  /\ status' = s /\ call' = "none" /\ torn' = FALSE

LoadProgram(p) == Replace(p, "loaded")

Reset == Replace(<<>>, "idle")

\* run() neither clears the stack nor rewinds pc: it resumes where the last
\* call left the program, after an error too.
Run ==
  /\ AtHost
  /\ call' = "running" /\ status' = "running"
  /\ UNCHANGED <<program, stack, locals, pc, torn>>

-----------------------------------------------------------------------------
(* Instructions *)

Ins == program[pc + 1]

\* static_cast<std::size_t>
AsSize(a) == IF a < 0 THEN a + SizeMod ELSE a

\* Variant: the sum is kept as computed.
NoWrap(x) == x

\* What two's complement hardware leaves of an overflowing result.
Wrap(x) == ((x + Half) % (2 * Half)) - Half

Magnitude(x) == IF x < 0 THEN -x ELSE x
TruncDiv(a, b) ==
  LET q == Magnitude(a) \div Magnitude(b)
  IN  IF (a < 0) = (b < 0) THEN q ELSE -q

Compute(op, a, b) ==
  CASE op = "Add" -> Wrap(a + b)
    [] op = "Sub" -> Wrap(a - b)
    [] op = "Mul" -> Wrap(a * b)
    [] op = "Div" -> IF b = 0 THEN 0 ELSE Wrap(TruncDiv(a, b))

At(ops) ==
  /\ call = "running" /\ pc < Len(program) /\ Ins.op \in ops
  /\ UNCHANGED program

\* The fetch of an instruction: pc moves on before anything can fail.
Fetch(ops) == At(ops) /\ pc' = pc + 1

Stay == UNCHANGED <<stack, locals, status, call, torn>>

\* Variant: the error path reports the program as halted.
UnderflowHalts ==
  /\ call' = "error" /\ status' = "halted"
  /\ UNCHANGED <<stack, locals, torn>>

\* "stack underflow": run() returns and status_ stays "running".
Underflow ==
  /\ call' = "error"
  /\ UNCHANGED <<stack, locals, status, torn>>

\* std::bad_alloc or std::length_error leaves run() the same way.
Throw ==
  /\ call' = "thrown" /\ torn' = TRUE
  /\ UNCHANGED <<stack, status>>

Undefined == call' = "undefined" /\ UNCHANGED <<stack, status, torn>>

Push(v) ==
  \/ /\ Len(stack) < MemoryLimit
     /\ stack' = Append(stack, v)
     /\ UNCHANGED <<status, call, torn>>
  \/ Len(stack) >= MemoryLimit /\ Throw

ExecNop == Fetch({"Nop", "Call", "Ret"}) /\ Stay

ExecConst == Fetch({"Const"}) /\ Push(Ins.arg0) /\ UNCHANGED locals

ExecArith ==
  /\ Fetch({"Add", "Sub", "Mul", "Div"})
  /\ \/ Len(stack) < 2 /\ Underflow
     \/ /\ Len(stack) >= 2
        /\ LET b == Last(stack)
               a == stack[Len(stack) - 1]
           IN  stack' = Append(Front(Front(stack)), Compute(Ins.op, a, b))
        /\ UNCHANGED <<locals, status, call, torn>>

\* INT64_MIN / -1 traps on some targets and wraps on the others: ExecArith is
\* the second outcome.
TrapDiv ==
  /\ Fetch({"Div"}) /\ Len(stack) >= 2
  /\ Last(stack) = -1 /\ stack[Len(stack) - 1] = -Half
  /\ Undefined /\ UNCHANGED locals

\* Variant: resize without the comparison of the sizes.
GrownUnchecked(i) ==
  [j \in 1 .. i + 1 |-> IF j <= Len(locals) THEN locals[j] ELSE 0]

\* locals_ after the resize that makes index i valid.
Grown(i) ==
  [j \in 1 .. (IF i < Len(locals) THEN Len(locals) ELSE i + 1) |->
     IF j <= Len(locals) THEN locals[j] ELSE 0]

\* The index wraps to 0 when one is added to std::size_t(-1): resize(0), then
\* an access outside the vector.
OutOfRange == Ins.arg0 = -1 /\ locals' = <<>> /\ Undefined

CannotGrow ==
  /\ Ins.arg0 # -1 /\ AsSize(Ins.arg0) >= MemoryLimit
  /\ Throw /\ UNCHANGED locals

Addressable == AsSize(Ins.arg0) < MemoryLimit

ExecLoad ==
  /\ Fetch({"Load"})
  /\ \/ OutOfRange
     \/ CannotGrow
     \/ /\ Addressable
        /\ locals' = Grown(Ins.arg0)
        /\ Push(Grown(Ins.arg0)[Ins.arg0 + 1])

ExecStore ==
  /\ Fetch({"Store"})
  /\ \/ Len(stack) = 0 /\ Underflow
     \/ Len(stack) > 0 /\ (OutOfRange \/ CannotGrow)
     \/ /\ Len(stack) > 0 /\ Addressable
        /\ locals' = [Grown(Ins.arg0) EXCEPT ![Ins.arg0 + 1] = Last(stack)]
        /\ stack' = Front(stack)
        /\ UNCHANGED <<status, call, torn>>

\* Variant: targets counted from one.
ExecJumpOneBased == At({"Jump"}) /\ pc' = AsSize(Ins.arg0 - 1) /\ Stay

\* No bound on the target: at or beyond the end it stops the program.
ExecJump == At({"Jump"}) /\ pc' = AsSize(Ins.arg0) /\ Stay

\* Variant: the condition is popped on the fall-through path only.
ExecJumpIfNotKeeps ==
  /\ At({"JumpIfNot"})
  /\ \/ Len(stack) = 0 /\ pc' = pc + 1 /\ Underflow
     \/ /\ Len(stack) > 0
        /\ pc' = IF Last(stack) = 0 THEN AsSize(Ins.arg0) ELSE pc + 1
        /\ stack' = IF Last(stack) = 0 THEN stack ELSE Front(stack)
        /\ UNCHANGED <<locals, status, call, torn>>

ExecJumpIfNot ==
  /\ At({"JumpIfNot"})
  /\ \/ Len(stack) = 0 /\ pc' = pc + 1 /\ Underflow
     \/ /\ Len(stack) > 0
        /\ pc' = IF Last(stack) = 0 THEN AsSize(Ins.arg0) ELSE pc + 1
        /\ stack' = Front(stack)
        /\ UNCHANGED <<locals, status, call, torn>>

ExecHalt ==
  /\ Fetch({"Halt"})
  /\ status' = "halted" /\ call' = "ok"
  /\ UNCHANGED <<stack, locals, torn>>

RunOffEnd ==
  /\ call = "running" /\ pc >= Len(program)
  /\ status' = "halted" /\ call' = "ok"
  /\ UNCHANGED <<program, stack, locals, pc, torn>>

Step ==
  \/ ExecNop \/ ExecConst \/ ExecArith \/ TrapDiv \/ ExecLoad \/ ExecStore
  \/ ExecJump \/ ExecJumpIfNot \/ ExecHalt \/ RunOffEnd

EngineNext ==
  \/ \E p \in Programs : LoadProgram(p)
  \/ Reset
  \/ Run
  \/ Step

EngineSpec == EngineInit /\ [][EngineNext]_engineVars

-----------------------------------------------------------------------------
(* Properties *)

\* How many operands an instruction needs, and what it adds to the stack.
Needs(op) ==
  CASE op \in {"Add", "Sub", "Mul", "Div"} -> 2
    [] op \in {"Store", "JumpIfNot"} -> 1
    [] OTHER -> 0
Effect(op) ==
  CASE op \in {"Const", "Load"} -> 1
    [] op \in {"Add", "Sub", "Mul", "Div", "Store", "JumpIfNot"} -> -1
    [] OTHER -> 0

\* h gives every instruction of p (and the end of p) one stack height that all
\* the ways of reaching it agree on.
Annotates(h, p) ==
  /\ h \in [0 .. Len(p) -> Nat] /\ h[0] = 0
  /\ \A i \in 0 .. Len(p) - 1 :
       LET ins == p[i + 1]
           next == h[i] + Effect(ins.op)
       IN  /\ h[i] >= Needs(ins.op)
           /\ ins.op # "Jump" => h[i + 1] = next
           /\ /\ ins.op \in {"Jump", "JumpIfNot"}
              /\ AsSize(ins.arg0) <= Len(p)
              => h[AsSize(ins.arg0)] = next

\* A program that passes the static check runs with the height the check
\* computed at every instruction, whatever the values and however often run()
\* is resumed, until an instruction throws (pc has then moved past an
\* instruction that did not execute).
HeightAsAnnotated ==
  \A h \in [0 .. Len(program) -> 0 .. MemoryLimit] :
     Annotates(h, program) /\ ~torn /\ call # "undefined" /\ pc <= Len(program)
       => call # "error" /\ Len(stack) = h[pc]

\* "halted" is only reported at a Halt or past the end of the program, never
\* for a run that stopped in the middle.
HaltedIsTheEnd ==
  status = "halted" =>
    \/ pc >= Len(program)
    \/ pc > 0 /\ program[pc].op = "Halt"

\* An execution step forgets no local and changes at most the one its Store
\* addresses (growing the vector never shrinks it), unless the operand is -1.
LocalsSurvive ==
  [][AtHost \/ call' = "undefined" \/
     \A i \in DOMAIN locals :
        /\ i \in DOMAIN locals'
        /\ locals'[i] # locals[i] => Ins.op = "Store" /\ i = Ins.arg0 + 1]_engineVars

\* A program without backward jumps comes back from every run().
ForwardOnly(p) ==
  \A i \in DOMAIN p :
     p[i].op \in {"Jump", "JumpIfNot"} => AsSize(p[i].arg0) >= i
RunReturns == (call = "running" /\ ForwardOnly(program)) ~> call # "running"
=============================================================================
