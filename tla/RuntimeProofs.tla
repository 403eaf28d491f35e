----------------------------- MODULE RuntimeProofs -----------------------------
(***************************************************************************)
(* Proofs about lamia.runtime: the bytecode interpreter and the VM around  *)
(* it, for every word size, memory limit and set of programs; and          *)
(* shared_library, for every number of threads, objects and images, every  *)
(* depth of finalisers and any number of failing dlclose().                *)
(***************************************************************************)
EXTENDS VM, SharedLibrary, FiniteSetTheorems, TLAPS

(* Arithmetic of the machine: results stay in the word. *)

\* Two's complement reduction lands in the 64-bit word.
LEMMA WrapInWord == ASSUME NEW x \in Int PROVE Wrap(x) \in Int64
  <1>1. 2 * Half \in Nat \ {0}
    BY MachineAssumption
  <1>2. (x + Half) % (2 * Half) \in 0 .. 2 * Half - 1
    BY <1>1, MachineAssumption
  <1> QED
    BY <1>2, MachineAssumption DEF Wrap, Int64

\* The quotient C++ computes is an integer whenever the divisor is not zero.
LEMMA QuotientInt ==
  ASSUME NEW a \in Int, NEW b \in Int \ {0}
  PROVE  TruncDiv(a, b) \in Int
  <1>1. Magnitude(a) \in Int /\ Magnitude(b) \in Nat \ {0}
    BY DEF Magnitude
  <1>2. Magnitude(a) \div Magnitude(b) \in Int
    BY <1>1
  <1> QED
    BY <1>2 DEF TruncDiv

\* Every arithmetic instruction leaves a 64-bit word.
LEMMA ComputeInWord ==
  ASSUME NEW op \in {"Add", "Sub", "Mul", "Div"}, NEW a \in Int64, NEW b \in Int64
  PROVE  Compute(op, a, b) \in Int64
  <1>1. a \in Int /\ b \in Int /\ 0 \in Int64
    BY MachineAssumption DEF Int64
  <1>2. CASE op = "Add"
    BY <1>1, <1>2, WrapInWord DEF Compute
  <1>3. CASE op = "Sub"
    BY <1>1, <1>3, WrapInWord DEF Compute
  <1>4. CASE op = "Mul"
    <2>1. a * b \in Int
      BY <1>1
    <2> QED
      BY <2>1, <1>4, WrapInWord DEF Compute
  <1>5. CASE op = "Div"
    BY <1>1, <1>5, WrapInWord, QuotientInt DEF Compute
  <1> QED
    BY <1>2, <1>3, <1>4, <1>5

-----------------------------------------------------------------------------
(* Type correctness. *)

\* What an instruction about to be executed looks like.
LEMMA InsType ==
  ASSUME EngineTypeOK, pc < Len(program)
  PROVE  /\ program \in Seq(Instruction)
         /\ Ins \in Instruction /\ Ins.op \in Opcode /\ Ins.arg0 \in Int32
         /\ AsSize(Ins.arg0) \in 0 .. SizeMod - 1
         /\ pc + 1 \in 0 .. SizeMod - 1
  <1>1. program \in Programs /\ pc \in Nat
    BY MachineAssumption DEF EngineTypeOK
  <1>2. program \in Seq(Instruction) /\ Len(program) + ArgHalf < SizeMod
    BY <1>1, ProgramsAssumption
  <1>3. Ins \in Instruction
    <2>1. pc + 1 \in 1 .. Len(program)
      BY <1>1, <1>2
    <2> QED
      BY <2>1, <1>2 DEF Ins
  <1>4. Ins.op \in Opcode /\ Ins.arg0 \in Int32
    BY <1>3 DEF Instruction
  <1>5. AsSize(Ins.arg0) \in 0 .. SizeMod - 1
    BY <1>4, MachineAssumption DEF AsSize, Int32
  <1>6. pc + 1 \in 0 .. SizeMod - 1
    BY <1>1, <1>2, MachineAssumption
  <1> QED
    BY <1>2, <1>3, <1>4, <1>5, <1>6

\* An index the memory can hold is the operand itself, and growing locals for
\* it yields a vector that has it.
LEMMA GrownType ==
  ASSUME EngineTypeOK, pc < Len(program), Addressable
  PROVE  /\ Ins.arg0 \in Nat /\ Ins.arg0 < MemoryLimit
         /\ Grown(Ins.arg0) \in Seq(Int64)
         /\ Len(Grown(Ins.arg0)) <= MemoryLimit
         /\ Ins.arg0 + 1 \in 1 .. Len(Grown(Ins.arg0))
         /\ Len(locals) <= Len(Grown(Ins.arg0))
         /\ \A j \in 1 .. Len(locals) : Grown(Ins.arg0)[j] = locals[j]
  <1> DEFINE a == Ins.arg0
             n == IF a < Len(locals) THEN Len(locals) ELSE a + 1
  <1>1. a \in Int32
    BY InsType
  <1>2. a \in Nat /\ a < MemoryLimit
    BY <1>1, MachineAssumption DEF Addressable, AsSize, Int32
  <1>3. locals \in Seq(Int64) /\ Len(locals) \in Nat /\ Len(locals) <= MemoryLimit
    BY DEF EngineTypeOK
  <1>4. n \in Nat /\ n <= MemoryLimit /\ a + 1 \in 1 .. n /\ Len(locals) <= n
    BY <1>2, <1>3, MachineAssumption
  <1>5. 0 \in Int64
    BY MachineAssumption DEF Int64
  <1>6. \A j \in 1 .. n : (IF j <= Len(locals) THEN locals[j] ELSE 0) \in Int64
    BY <1>3, <1>4, <1>5
  <1>7. Grown(a) = [j \in 1 .. n |-> IF j <= Len(locals) THEN locals[j] ELSE 0]
    BY DEF Grown
  <1>8. Grown(a) \in Seq(Int64) /\ Len(Grown(a)) = n
    BY <1>4, <1>6, <1>7
  <1>9. \A j \in 1 .. Len(locals) : Grown(a)[j] = locals[j]
    BY <1>3, <1>4, <1>7
  <1> QED
    BY <1>2, <1>4, <1>8, <1>9

\* Pushing a word keeps the stack a stack of words within the memory.
LEMMA PushType ==
  ASSUME EngineTypeOK, NEW v \in Int64, Push(v)
  PROVE  /\ stack' \in Seq(Int64) /\ Len(stack') <= MemoryLimit
         /\ status' = status /\ call' \in Calls /\ torn' \in BOOLEAN
  <1>1. stack \in Seq(Int64) /\ Len(stack) <= MemoryLimit /\ MemoryLimit \in Nat
    BY MachineAssumption DEF EngineTypeOK
  <1>2. CASE Len(stack) < MemoryLimit
    <2>1. /\ stack' = Append(stack, v)
          /\ UNCHANGED <<status, call, torn>>
      BY <1>1, <1>2 DEF Push
    <2> QED
      BY <1>1, <1>2, <2>1 DEF EngineTypeOK
  <1>3. CASE Len(stack) >= MemoryLimit
    <2>1. Throw
      BY <1>1, <1>3 DEF Push
    <2> QED
      BY <2>1, <1>1 DEF Throw, Calls
  <1> QED
    BY <1>1, <1>2, <1>3

\* The stack below its top two operands, and below its top.
LEMMA PopType ==
  ASSUME NEW s \in Seq(Int64), Len(s) > 0
  PROVE  /\ Front(s) \in Seq(Int64) /\ Len(Front(s)) = Len(s) - 1
         /\ Last(s) \in Int64
         /\ Len(s) >= 2 => s[Len(s) - 1] \in Int64
  <1>1. Len(s) \in Nat /\ \A i \in 1 .. Len(s) : s[i] \in Int64
    OBVIOUS
  <1>2. Len(s) \in 1 .. Len(s) /\ Len(s) - 1 \in Nat /\ Len(s) - 1 <= Len(s)
    BY <1>1
  <1>3. SubSeq(s, 1, Len(s) - 1) = [i \in 1 .. Len(s) - 1 |-> s[i]]
    BY <1>1, <1>2
  <1>4. Front(s) \in Seq(Int64) /\ Len(Front(s)) = Len(s) - 1
    <2> DEFINE n == Len(s) - 1
               f == [i \in 1 .. n |-> s[i]]
    <2>1. n \in Nat /\ \A i \in 1 .. n : s[i] \in Int64
      BY <1>1, <1>2
    <2> HIDE DEF n
    <2>2. f \in Seq(Int64) /\ Len(f) = n
      BY <2>1
    <2>3. Front(s) = f
      BY <1>3 DEF Front, n
    <2> QED
      BY <2>2, <2>3 DEF n
  <1>5. Last(s) \in Int64 /\ (Len(s) >= 2 => s[Len(s) - 1] \in Int64)
    BY <1>1, <1>2 DEF Last
  <1> QED
    BY <1>4, <1>5

\* Every operation of the engine keeps the types.
LEMMA TypeStep == EngineTypeOK /\ [EngineNext]_engineVars => EngineTypeOK'
  <1> SUFFICES ASSUME EngineTypeOK, [EngineNext]_engineVars PROVE EngineTypeOK'
    OBVIOUS
  <1>0. /\ program \in Programs \cup {<<>>}
        /\ stack \in Seq(Int64) /\ Len(stack) \in Nat /\ Len(stack) <= MemoryLimit
        /\ locals \in Seq(Int64) /\ Len(locals) <= MemoryLimit
        /\ pc \in 0 .. SizeMod - 1 /\ status \in {"idle", "loaded", "running", "halted"}
        /\ call \in Calls /\ torn \in BOOLEAN /\ MemoryLimit \in Nat
        /\ 0 \in 0 .. SizeMod - 1 /\ <<>> \in Seq(Int64) /\ Len(<<>>) = 0
    BY MachineAssumption DEF EngineTypeOK
  <1>1. ASSUME NEW p \in Programs \cup {<<>>}, NEW s \in {"idle", "loaded"}, Replace(p, s)
        PROVE  EngineTypeOK'
    <2>1. torn' \in BOOLEAN
      BY <1>1 DEF Replace
    <2>2. /\ program' = p /\ stack' = <<>> /\ locals' = <<>> /\ pc' = 0
          /\ status' = s /\ call' = "none"
      BY <1>1 DEF Replace
    <2>3. call' \in Calls
      BY <2>2 DEF Calls
    <2>4. Len(stack') <= MemoryLimit /\ Len(locals') <= MemoryLimit
      BY <1>0, <2>2
    <2>5. /\ program' \in Programs \cup {<<>>} /\ pc' \in 0 .. SizeMod - 1
          /\ status' \in {"idle", "loaded", "running", "halted"}
          /\ stack' \in Seq(Int64) /\ locals' \in Seq(Int64)
      BY <1>0, <2>2
    <2> QED
      BY <2>1, <2>3, <2>4, <2>5 DEF EngineTypeOK
  <1>2. CASE Run
    BY <1>0, <1>2 DEF Run, EngineTypeOK, Calls
  <1>3. CASE ExecNop
    BY <1>0, <1>3, InsType DEF ExecNop, Fetch, At, Stay, EngineTypeOK
  <1>4. CASE ExecConst
    <2>1. Ins.arg0 \in Int64 /\ pc + 1 \in 0 .. SizeMod - 1
      BY <1>4, InsType, MachineAssumption DEF ExecConst, Fetch, At, Int32, Int64
    <2>2. Push(Ins.arg0)
      BY <1>4 DEF ExecConst
    <2> QED
      BY <1>0, <1>4, <2>1, <2>2, PushType DEF ExecConst, Fetch, At, EngineTypeOK
  <1>5. CASE ExecArith
    <2>1. /\ pc < Len(program) /\ Ins.op \in {"Add", "Sub", "Mul", "Div"}
          /\ program' = program /\ pc' = pc + 1
      BY <1>5 DEF ExecArith, Fetch, At
    <2>2. pc' \in 0 .. SizeMod - 1
      BY <2>1, InsType
    <2>3. CASE Len(stack) < 2 /\ Underflow
      BY <1>0, <2>1, <2>2, <2>3 DEF Underflow, EngineTypeOK, Calls
    <2>4. CASE Len(stack) >= 2
      <3> DEFINE c == Compute(Ins.op, stack[Len(stack) - 1], Last(stack))
                 r == Front(Front(stack))
      <3>1. c \in Int64
        BY <1>0, <2>1, <2>4, PopType, ComputeInWord
      <3>2. Front(stack) \in Seq(Int64) /\ Len(Front(stack)) = Len(stack) - 1
        BY <1>0, <2>4, PopType
      <3>3. r \in Seq(Int64) /\ Len(r) = Len(stack) - 2
        BY <1>0, <2>4, <3>2, PopType
      <3>4. stack' = Append(r, c) /\ UNCHANGED <<locals, status, call, torn>>
        BY <1>0, <1>5, <2>4 DEF ExecArith
      <3> HIDE DEF c, r
      <3>5. stack' \in Seq(Int64) /\ Len(stack') <= MemoryLimit
        BY <1>0, <2>4, <3>1, <3>3, <3>4
      <3> QED
        BY <1>0, <2>1, <2>2, <3>4, <3>5 DEF EngineTypeOK
    <2> QED
      BY <1>0, <1>5, <2>3, <2>4 DEF ExecArith
  <1>6. CASE TrapDiv
    BY <1>0, <1>6, InsType DEF TrapDiv, Fetch, At, Undefined, EngineTypeOK, Calls
  <1>7. CASE ExecLoad
    <2>1. /\ pc < Len(program) /\ program' = program /\ pc' = pc + 1
      BY <1>7 DEF ExecLoad, Fetch, At
    <2>2. pc' \in 0 .. SizeMod - 1
      BY <2>1, InsType
    <2>3. CASE OutOfRange
      BY <1>0, <2>1, <2>2, <2>3 DEF OutOfRange, Undefined, EngineTypeOK, Calls
    <2>4. CASE CannotGrow
      BY <1>0, <2>1, <2>2, <2>4 DEF CannotGrow, Throw, EngineTypeOK, Calls
    <2>5. CASE /\ Addressable /\ locals' = Grown(Ins.arg0)
               /\ Push(Grown(Ins.arg0)[Ins.arg0 + 1])
      <3>1. Grown(Ins.arg0)[Ins.arg0 + 1] \in Int64
        BY <2>1, <2>5, GrownType
      <3> QED
        BY <1>0, <2>1, <2>2, <2>5, <3>1, GrownType, PushType DEF EngineTypeOK
    <2> QED
      BY <1>7, <2>3, <2>4, <2>5 DEF ExecLoad
  <1>8. CASE ExecStore
    <2>1. /\ pc < Len(program) /\ program' = program /\ pc' = pc + 1
      BY <1>8 DEF ExecStore, Fetch, At
    <2>2. pc' \in 0 .. SizeMod - 1
      BY <2>1, InsType
    <2>3. CASE OutOfRange
      BY <1>0, <2>1, <2>2, <2>3 DEF OutOfRange, Undefined, EngineTypeOK, Calls
    <2>4. CASE CannotGrow
      BY <1>0, <2>1, <2>2, <2>4 DEF CannotGrow, Throw, EngineTypeOK, Calls
    <2>5. CASE Len(stack) = 0 /\ Underflow
      BY <1>0, <2>1, <2>2, <2>5 DEF Underflow, EngineTypeOK, Calls
    <2>6. CASE /\ Len(stack) > 0 /\ Addressable
               /\ locals' = [Grown(Ins.arg0) EXCEPT ![Ins.arg0 + 1] = Last(stack)]
               /\ stack' = Front(stack) /\ UNCHANGED <<status, call, torn>>
      <3>1. locals' \in Seq(Int64) /\ Len(locals') <= MemoryLimit
        BY <1>0, <2>1, <2>6, GrownType, PopType
      <3>2. stack' \in Seq(Int64) /\ Len(stack') <= MemoryLimit
        BY <1>0, <2>6, PopType
      <3> QED
        BY <1>0, <2>1, <2>2, <2>6, <3>1, <3>2 DEF EngineTypeOK
    <2> QED
      BY <1>8, <2>3, <2>4, <2>5, <2>6 DEF ExecStore
  <1>9. CASE ExecJump
    BY <1>0, <1>9, InsType DEF ExecJump, At, Stay, EngineTypeOK
  <1>10. CASE ExecJumpIfNot
    <2>1. /\ pc < Len(program) /\ program' = program
          /\ pc' = pc + 1 \/ pc' = AsSize(Ins.arg0)
      BY <1>10 DEF ExecJumpIfNot, At
    <2>2. pc' \in 0 .. SizeMod - 1
      BY <2>1, InsType
    <2>3. CASE Underflow
      BY <1>0, <2>1, <2>2, <2>3 DEF Underflow, EngineTypeOK, Calls
    <2>4. CASE /\ Len(stack) > 0 /\ stack' = Front(stack)
               /\ UNCHANGED <<locals, status, call, torn>>
      <3>1. stack' \in Seq(Int64) /\ Len(stack') <= MemoryLimit
        BY <1>0, <2>4, PopType
      <3> QED
        BY <1>0, <2>1, <2>2, <2>4, <3>1 DEF EngineTypeOK
    <2> QED
      BY <1>10, <2>3, <2>4 DEF ExecJumpIfNot
  <1>11. CASE ExecHalt
    BY <1>0, <1>11, InsType DEF ExecHalt, Fetch, At, EngineTypeOK, Calls
  <1>12. CASE RunOffEnd
    BY <1>0, <1>12 DEF RunOffEnd, EngineTypeOK, Calls
  <1>13. CASE UNCHANGED engineVars
    BY <1>0, <1>13 DEF engineVars, EngineTypeOK
  <1> QED
    BY <1>1, <1>2, <1>3, <1>4, <1>5, <1>6, <1>7, <1>8, <1>9, <1>10, <1>11, <1>12, <1>13
    DEF EngineNext, LoadProgram, Reset, Step

\* The interpreter keeps its stack and locals vectors of 64-bit words within
\* the memory and its counter a std::size_t, whatever programs it is given.
THEOREM EngineTypeCorrect == EngineSpec => []EngineTypeOK
  <1>1. EngineInit => EngineTypeOK
    <2> SUFFICES ASSUME EngineInit PROVE EngineTypeOK
      OBVIOUS
    <2>1. torn \in BOOLEAN
      BY DEF EngineInit
    <2>2. program = <<>> /\ stack = <<>> /\ locals = <<>> /\ pc = 0
      BY DEF EngineInit
    <2>3. status \in {"idle", "loaded", "running", "halted"} /\ call \in Calls
      BY DEF EngineInit, Calls
    <2>4. Len(stack) <= MemoryLimit /\ Len(locals) <= MemoryLimit
      BY <2>2, MachineAssumption
    <2>5. /\ program \in Programs \cup {<<>>} /\ pc \in 0 .. SizeMod - 1
          /\ stack \in Seq(Int64) /\ locals \in Seq(Int64)
      BY <2>2, MachineAssumption
    <2> QED
      BY <2>1, <2>3, <2>4, <2>5 DEF EngineTypeOK
  <1> QED
    BY <1>1, TypeStep, PTL DEF EngineSpec

-----------------------------------------------------------------------------
(* Soundness of the static stack check. *)

\* The check, read at the instruction about to be executed.
LEMMA AnnotatedHere ==
  ASSUME EngineTypeOK, pc < Len(program), NEW h, Annotates(h, program)
  PROVE  /\ h[pc] \in Nat
         /\ h[pc] >= Needs(Ins.op)
         /\ Ins.op # "Jump" => h[pc + 1] = h[pc] + Effect(Ins.op)
         /\ /\ Ins.op \in {"Jump", "JumpIfNot"}
            /\ AsSize(Ins.arg0) <= Len(program)
            => h[AsSize(Ins.arg0)] = h[pc] + Effect(Ins.op)
  <1>1. pc \in 0 .. Len(program) - 1 /\ pc \in 0 .. Len(program)
    BY InsType, MachineAssumption DEF EngineTypeOK
  <1>2. h[pc] \in Nat
    BY <1>1 DEF Annotates
  <1> QED
    BY <1>1, <1>2 DEF Annotates, Ins

\* A step that leaves the program alone, does not fail and moves to the next
\* instruction with the height this instruction is annotated with.
LEMMA HeightStep ==
  ASSUME EngineTypeOK, HeightAsAnnotated, [EngineNext]_engineVars,
         NEW h \in [0 .. Len(program') -> 0 .. MemoryLimit],
         Annotates(h, program'), ~torn', call' # "undefined", pc' <= Len(program')
  PROVE  call' # "error" /\ Len(stack') = h[pc']
  <1>0. stack \in Seq(Int64) /\ Len(stack) \in Nat
    BY DEF EngineTypeOK
  <1>1. ASSUME program' = program, ~torn, call # "undefined", pc <= Len(program)
        PROVE  call # "error" /\ Len(stack) = h[pc]
    BY <1>1 DEF HeightAsAnnotated
  <1>2. ASSUME NEW ops, At(ops), UNCHANGED torn
        PROVE  /\ Ins.op \in ops /\ Len(stack) = h[pc] /\ h[pc] \in Nat
               /\ h[pc] >= Needs(Ins.op)
               /\ Ins.op # "Jump" => h[pc + 1] = h[pc] + Effect(Ins.op)
               /\ /\ Ins.op \in {"Jump", "JumpIfNot"}
                  /\ AsSize(Ins.arg0) <= Len(program)
                  => h[AsSize(Ins.arg0)] = h[pc] + Effect(Ins.op)
               /\ call = "running"
    <2>1. /\ program' = program /\ pc < Len(program) /\ call = "running"
          /\ Ins.op \in ops /\ ~torn /\ pc <= Len(program)
      BY <1>2, MachineAssumption DEF At, EngineTypeOK
    <2> QED
      BY <2>1, <1>1, AnnotatedHere
  <1>3. ASSUME NEW p, NEW s, Replace(p, s)
        PROVE  call' # "error" /\ Len(stack') = h[pc']
    BY <1>3 DEF Replace, Annotates
  <1>4. CASE Run
    BY <1>1, <1>4 DEF Run, AtHost
  <1>5. CASE ExecNop
    BY <1>2, <1>5 DEF ExecNop, Fetch, Stay, Effect
  <1>6. ASSUME NEW v, NEW ops, ops \in {{"Const"}, {"Load"}}, Fetch(ops), Push(v)
        PROVE  call' # "error" /\ Len(stack') = h[pc']
    <2>1. stack' = Append(stack, v) /\ UNCHANGED <<status, call, torn>>
      BY <1>6 DEF Push, Throw
    <2>2. At(ops) /\ pc' = pc + 1
      BY <1>6 DEF Fetch
    <2>3. Ins.op \in {"Const", "Load"} /\ Effect(Ins.op) = 1
      BY <1>2, <1>6, <2>1, <2>2 DEF Effect
    <2> QED
      BY <1>0, <1>2, <2>1, <2>2, <2>3
  <1>7. CASE ExecArith
    <2>1. At({"Add", "Sub", "Mul", "Div"}) /\ pc' = pc + 1 /\ UNCHANGED torn
      BY <1>7 DEF ExecArith, Fetch, Underflow
    <2>2. Needs(Ins.op) = 2 /\ Effect(Ins.op) = -1
      BY <1>2, <2>1 DEF Needs, Effect
    <2>3. Len(stack) >= 2
      BY <1>2, <2>1, <2>2
    <2>4. Len(stack') = Len(stack) - 1 /\ call' = call
      <3> DEFINE c == Compute(Ins.op, stack[Len(stack) - 1], Last(stack))
                 r == Front(Front(stack))
      <3>1. stack' = Append(r, c) /\ call' = call
        BY <1>0, <1>7, <2>3 DEF ExecArith
      <3>2. Front(stack) \in Seq(Int64) /\ Len(Front(stack)) = Len(stack) - 1
        BY <1>0, <2>3, PopType
      <3>3. r \in Seq(Int64) /\ Len(r) = Len(stack) - 2
        BY <1>0, <2>3, <3>2, PopType
      <3> HIDE DEF c, r
      <3> QED
        BY <1>0, <3>1, <3>3
    <2> QED
      BY <1>2, <2>1, <2>2, <2>4
  <1>8. CASE ExecLoad
    <2>1. Push(Grown(Ins.arg0)[Ins.arg0 + 1]) /\ Fetch({"Load"})
      BY <1>8 DEF ExecLoad, OutOfRange, Undefined, CannotGrow, Throw
    <2> QED
      BY <1>6, <2>1
  <1>9. CASE ExecStore
    <2>1. At({"Store"}) /\ pc' = pc + 1 /\ UNCHANGED torn
      BY <1>9 DEF ExecStore, Fetch, OutOfRange, Undefined, CannotGrow, Throw, Underflow
    <2>2. Needs(Ins.op) = 1 /\ Effect(Ins.op) = -1
      BY <1>2, <2>1 DEF Needs, Effect
    <2>3. Len(stack) > 0
      BY <1>2, <2>1, <2>2
    <2>4. stack' = Front(stack) /\ call' = call
      BY <1>9, <2>3 DEF ExecStore, OutOfRange, Undefined, CannotGrow, Throw
    <2> QED
      BY <1>0, <1>2, <2>1, <2>2, <2>3, <2>4, PopType
  <1>10. CASE ExecJump
    <2>1. At({"Jump"}) /\ pc' = AsSize(Ins.arg0) /\ Stay /\ program' = program
      BY <1>10 DEF ExecJump, At
    <2>2. Effect(Ins.op) = 0 /\ Ins.op = "Jump" /\ UNCHANGED torn
      BY <1>2, <2>1 DEF Effect, Stay
    <2> QED
      BY <1>2, <2>1, <2>2 DEF Stay
  <1>11. CASE ExecJumpIfNot
    <2>1. At({"JumpIfNot"}) /\ UNCHANGED torn /\ program' = program
      BY <1>11 DEF ExecJumpIfNot, At, Underflow
    <2>2. Needs(Ins.op) = 1 /\ Effect(Ins.op) = -1 /\ Ins.op = "JumpIfNot"
      BY <1>2, <2>1 DEF Needs, Effect
    <2>3. Len(stack) > 0
      BY <1>2, <2>1, <2>2
    <2>4. /\ stack' = Front(stack) /\ call' = call
          /\ pc' = AsSize(Ins.arg0) \/ pc' = pc + 1
      BY <1>11, <2>3 DEF ExecJumpIfNot
    <2> QED
      BY <1>0, <1>2, <2>1, <2>2, <2>3, <2>4, PopType
  <1>12. CASE ExecHalt
    BY <1>2, <1>12 DEF ExecHalt, Fetch, Effect
  <1>13. CASE RunOffEnd
    BY <1>1, <1>13 DEF RunOffEnd
  <1>14. CASE UNCHANGED engineVars
    BY <1>1, <1>14 DEF engineVars
  <1>15. CASE ExecConst
    BY <1>6, <1>15 DEF ExecConst
  <1>16. CASE TrapDiv
    BY <1>16 DEF TrapDiv, Undefined
  <1> QED
    BY <1>3, <1>4, <1>5, <1>7, <1>8, <1>9, <1>10, <1>11, <1>12, <1>13, <1>14, <1>15, <1>16
    DEF EngineNext, LoadProgram, Reset, Step

\* A program whose instructions can all be given one stack height never fails
\* with "stack underflow" and always runs at that height, as long as nothing
\* threw: the static check is sound for every program and every input.
THEOREM StackCheckSound == EngineSpec => []HeightAsAnnotated
  <1>1. EngineInit => HeightAsAnnotated
    BY DEF EngineInit, HeightAsAnnotated, Annotates
  <1>2. EngineTypeOK /\ HeightAsAnnotated /\ [EngineNext]_engineVars => HeightAsAnnotated'
    BY HeightStep DEF HeightAsAnnotated
  <1> QED
    BY <1>1, <1>2, EngineTypeCorrect, PTL DEF EngineSpec

-----------------------------------------------------------------------------
(* What "halted" reports. *)

\* run() writes "running" before it executes anything and never leaves the loop
\* silently: without this, a step could move pc under a "halted" program.
RunningIsReported == call = "running" => status = "running"

HaltedInv == RunningIsReported /\ HaltedIsTheEnd

\* A program is reported as halted exactly where a Halt or its end stopped it.
THEOREM HaltedReported == EngineSpec => []HaltedIsTheEnd
  <1>1. EngineInit => HaltedInv
    BY DEF EngineInit, HaltedInv, RunningIsReported, HaltedIsTheEnd
  <1>2. EngineTypeOK /\ HaltedInv /\ [EngineNext]_engineVars => HaltedInv'
    <2> SUFFICES ASSUME EngineTypeOK, HaltedInv, [EngineNext]_engineVars
                 PROVE  HaltedInv'
      OBVIOUS
    <2> USE DEF HaltedInv, RunningIsReported, HaltedIsTheEnd
    <2>1. ASSUME NEW p, NEW s \in {"idle", "loaded"}, Replace(p, s) PROVE HaltedInv'
      BY <2>1 DEF Replace
    <2>2. CASE Run
      BY <2>2 DEF Run
    <2>3. CASE call = "running" /\ UNCHANGED status
      BY <2>3
    <2>4. ASSUME NEW ops, Fetch(ops), status' = status PROVE HaltedInv'
      BY <2>3, <2>4 DEF Fetch, At
    <2>5. CASE ExecNop \/ ExecArith \/ TrapDiv \/ ExecConst
      BY <2>4, <2>5
      DEF ExecNop, Stay, ExecArith, Underflow, TrapDiv, Undefined, ExecConst, Push, Throw
    <2>6. CASE ExecLoad \/ ExecStore
      BY <2>4, <2>6
      DEF ExecLoad, ExecStore, OutOfRange, CannotGrow, Push, Throw, Undefined, Underflow
    <2>7. CASE ExecJump \/ ExecJumpIfNot
      BY <2>3, <2>7 DEF ExecJump, ExecJumpIfNot, At, Stay, Underflow
    <2>8. CASE ExecHalt
      <3>1. /\ program' = program /\ pc' = pc + 1 /\ pc + 1 > 0
            /\ program[pc + 1].op = "Halt" /\ status' = "halted" /\ call' = "ok"
        BY <2>8, MachineAssumption DEF ExecHalt, Fetch, At, Ins, EngineTypeOK
      <3> QED
        BY <3>1
    <2>9. CASE RunOffEnd
      BY <2>9 DEF RunOffEnd
    <2>10. CASE UNCHANGED engineVars
      BY <2>10 DEF engineVars
    <2> QED
      BY <2>1, <2>2, <2>5, <2>6, <2>7, <2>8, <2>9, <2>10
      DEF EngineNext, LoadProgram, Reset, Step
  <1>3. HaltedInv => HaltedIsTheEnd
    BY DEF HaltedInv
  <1> QED
    BY <1>1, <1>2, <1>3, EngineTypeCorrect, PTL DEF EngineSpec

-----------------------------------------------------------------------------
(* What an instruction may do to the locals. *)

\* No instruction forgets a local or changes one it does not address.
THEOREM LocalsAreKept == EngineSpec => LocalsSurvive
  <1> DEFINE Kept ==
        \A i \in DOMAIN locals :
          /\ i \in DOMAIN locals'
          /\ locals'[i] # locals[i] => Ins.op = "Store" /\ i = Ins.arg0 + 1
  <1>1. EngineTypeOK /\ [EngineNext]_engineVars
          => [AtHost \/ call' = "undefined" \/ Kept]_engineVars
    <2> SUFFICES ASSUME EngineTypeOK, EngineNext, ~AtHost, call' # "undefined"
                 PROVE  Kept
      OBVIOUS
    <2>0. locals \in Seq(Int64) /\ DOMAIN locals = 1 .. Len(locals) /\ Len(locals) \in Nat
      BY DEF EngineTypeOK
    <2>1. CASE UNCHANGED locals
      BY <2>1
    <2>2. CASE /\ Addressable /\ locals' = Grown(Ins.arg0) /\ pc < Len(program)
      BY <2>0, <2>2, GrownType
    <2>3. CASE /\ Addressable /\ pc < Len(program) /\ Ins.op = "Store"
               /\ locals' = [Grown(Ins.arg0) EXCEPT ![Ins.arg0 + 1] = Last(stack)]
      <3> DEFINE g == Grown(Ins.arg0)
                 k == Ins.arg0 + 1
      <3>1. /\ g \in Seq(Int64) /\ k \in 1 .. Len(g) /\ Len(locals) <= Len(g)
            /\ \A j \in 1 .. Len(locals) : g[j] = locals[j]
        BY <2>3, GrownType
      <3>2. locals' = [g EXCEPT ![k] = Last(stack)]
        BY <2>3
      <3> HIDE DEF g
      <3>3. \A i \in 1 .. Len(locals) :
              i \in DOMAIN locals' /\ (i # k => locals'[i] = locals[i])
        BY <2>0, <3>1, <3>2
      <3> QED
        BY <2>0, <2>3, <3>3
    <2>4. CASE ExecNop \/ ExecConst \/ ExecArith \/ TrapDiv \/ ExecJump \/ ExecJumpIfNot
               \/ ExecHalt \/ RunOffEnd
      BY <2>1, <2>4
      DEF ExecNop, ExecConst, ExecArith, TrapDiv, ExecJump, ExecJumpIfNot, ExecHalt,
          RunOffEnd, Stay, Underflow
    <2>5. CASE ExecLoad
      BY <2>1, <2>2, <2>5 DEF ExecLoad, OutOfRange, CannotGrow, Undefined, Fetch, At
    <2>6. CASE ExecStore
      BY <2>1, <2>3, <2>6
      DEF ExecStore, OutOfRange, CannotGrow, Undefined, Underflow, Fetch, At
    <2> QED
      BY <2>4, <2>5, <2>6 DEF EngineNext, LoadProgram, Reset, Replace, Run, Step
  <1> QED
    BY <1>1, EngineTypeCorrect, PTL DEF EngineSpec, LocalsSurvive

-----------------------------------------------------------------------------
(* The VM. *)

\* Every call of the VM is a sequence of engine calls: the VM never touches the
\* engine's state behind the back of its operations.
THEOREM VMUsesTheEngine == VMSpec => EngineSpec
  <1>1. VMInit => EngineInit
    BY DEF VMInit
  <1>2. [VMNext]_vmVars => [EngineNext]_engineVars
    BY DEF VMNext, vmVars, Initialize, ExecuteLoad, ExecuteRun, ExecuteRejected,
           Executing, Shutdown, EngineNext
  <1> QED
    BY <1>1, <1>2, PTL DEF VMSpec, EngineSpec

\* execute_bytecode runs no program an exception has torn: it reloads first.
NeverResumesTorn ==
  /\ call = "running" => ~torn /\ phase # "loaded"
  /\ phase = "loaded" => ~torn

CheckedInv == NeverResumesTorn /\ CheckedCodeNeverFails

\* In a VM the static check needs no proviso: checked code never ends in "stack
\* underflow", whatever happened to the executions before.
THEOREM CheckedCodeIsSafe == VMSpec => []CheckedCodeNeverFails
  <1>1. VMInit => CheckedInv
    BY DEF VMInit, EngineInit, CheckedInv, NeverResumesTorn, CheckedCodeNeverFails
  <1>2. /\ EngineTypeOK /\ HeightAsAnnotated /\ HeightAsAnnotated'
        /\ CheckedInv /\ [VMNext]_vmVars
        => CheckedInv'
    <2> SUFFICES ASSUME EngineTypeOK, HeightAsAnnotated, HeightAsAnnotated',
                        CheckedInv, [VMNext]_vmVars
                 PROVE  CheckedInv'
      OBVIOUS
    <2> USE DEF CheckedInv, NeverResumesTorn, CheckedCodeNeverFails
    <2>1. ASSUME NEW p, NEW s, Replace(p, s) PROVE CheckedInv'
      BY <2>1 DEF Replace
    <2>2. CASE ExecuteRun
      BY <2>2 DEF ExecuteRun, Run
    <2>3. CASE Executing
      <3>1. /\ Step /\ call = "running" /\ ~torn /\ program' = program
            /\ phase' = phase /\ phase # "loaded"
        BY <2>3 DEF Executing, Step, ExecNop, ExecConst, ExecArith, TrapDiv, ExecLoad,
                    ExecStore, ExecJump, ExecJumpIfNot, ExecHalt, RunOffEnd, Fetch, At
      <3>2. call' = "running" => ~torn'
        BY <3>1 DEF Step, ExecNop, ExecConst, ExecArith, TrapDiv, ExecLoad, ExecStore,
                    ExecJump, ExecJumpIfNot, ExecHalt, RunOffEnd, Stay, Push, Throw,
                    Underflow, Undefined, OutOfRange, CannotGrow
      <3>3. call' = "error" => ~torn' /\ pc' <= Len(program')
        <4> SUFFICES ASSUME call' = "error" PROVE ~torn' /\ pc' <= Len(program')
          OBVIOUS
        <4>1. Underflow /\ pc < Len(program) /\ pc' = pc + 1
          BY <3>1 DEF Step, ExecNop, ExecConst, ExecArith, TrapDiv, ExecLoad, ExecStore,
                      ExecJump, ExecJumpIfNot, ExecHalt, RunOffEnd, Stay, Push, Throw,
                      Undefined, OutOfRange, CannotGrow, Fetch, At
        <4> QED
          BY <3>1, <4>1, InsType, MachineAssumption DEF Underflow, EngineTypeOK
      <3>4. CheckedCodeNeverFails'
        BY <3>3 DEF HeightAsAnnotated
      <3> QED
        BY <3>1, <3>2, <3>4
    <2>4. CASE Initialize \/ ExecuteRejected \/ UNCHANGED vmVars
      BY <2>4 DEF Initialize, ExecuteRejected, vmVars, engineVars
    <2> QED
      BY <2>1, <2>2, <2>3, <2>4
      DEF VMNext, ExecuteLoad, LoadProgram, Shutdown, Reset
  <1>3. CheckedInv => CheckedCodeNeverFails
    BY DEF CheckedInv
  <1> QED
    BY <1>1, <1>2, <1>3, VMUsesTheEngine, EngineTypeCorrect, StackCheckSound, PTL
    DEF VMSpec

-----------------------------------------------------------------------------
(* Executions repeat. *)

\* What the VM's types add to the engine's; the recorded outcomes hold words.
THEOREM VMTypeCorrect == VMSpec => []VMTypeOK
  <1>1. EngineTypeOK /\ VMInit => VMTypeOK
    BY DEF VMInit, VMTypeOK, Phases
  <1>2. EngineTypeOK /\ EngineTypeOK' /\ VMTypeOK /\ [VMNext]_vmVars => VMTypeOK'
    <2> SUFFICES ASSUME EngineTypeOK', VMTypeOK, [VMNext]_vmVars PROVE VMTypeOK'
      OBVIOUS
    <2>1. stack' \in Seq(Int64) /\ locals' \in Seq(Int64)
      BY DEF EngineTypeOK
    <2>2. memo' \subseteq Outcome
      BY <2>1 DEF VMTypeOK, Outcome, VMNext, Initialize, ExecuteLoad, ExecuteRun,
                  ExecuteRejected, Executing, Shutdown, vmVars, history
    <2>3. initialized' \in BOOLEAN /\ phase' \in Phases /\ watched' \in Programs
      BY DEF VMTypeOK, Phases, VMNext, Initialize, ExecuteLoad, ExecuteRun,
             ExecuteRejected, Executing, Shutdown, vmVars, history
    <2> QED
      BY <2>2, <2>3 DEF VMTypeOK
  <1> QED
    BY <1>1, <1>2, VMUsesTheEngine, EngineTypeCorrect, PTL DEF VMSpec

\* The state of a run, without the program and what only the host sees.
Here == <<call, stack, locals, pc>>
Start == <<"running", <<>>, <<>>, 0>>

\* The vector l with room for index i.
Extended(l, i) ==
  [j \in 1 .. (IF i < Len(l) THEN Len(l) ELSE i + 1) |-> IF j <= Len(l) THEN l[j] ELSE 0]

\* The interpreter as a function: where p is one instruction after c, if that
\* instruction neither throws nor is undefined.
Successor(p, c) ==
  LET s    == c[2]
      l    == c[3]
      i    == p[c[4] + 1]
      a    == i.arg0
      next == c[4] + 1
      wide == Extended(l, a)
      To(st, lo, target) == <<"running", st, lo, target>>
      Failed == <<"error", s, l, next>>
  IN  IF c[4] >= Len(p) THEN <<"ok", s, l, c[4]>>
      ELSE IF i.op = "Halt" THEN <<"ok", s, l, next>>
      ELSE IF i.op = "Jump" THEN To(s, l, AsSize(a))
      ELSE IF i.op = "Const" THEN To(Append(s, a), l, next)
      ELSE IF i.op = "Load" THEN To(Append(s, wide[a + 1]), wide, next)
      ELSE IF i.op \in {"Add", "Sub", "Mul", "Div"}
           THEN IF Len(s) < 2 THEN Failed
                ELSE To(Append(Front(Front(s)), Compute(i.op, s[Len(s) - 1], Last(s))), l, next)
      ELSE IF i.op = "Store"
           THEN IF Len(s) = 0 THEN Failed
                ELSE To(Front(s), [wide EXCEPT ![a + 1] = Last(s)], next)
      ELSE IF i.op = "JumpIfNot"
           THEN IF Len(s) = 0 THEN Failed
                ELSE To(Front(s), l, IF Last(s) = 0 THEN AsSize(a) ELSE next)
      ELSE To(s, l, next)

\* A step that goes on or returns from run() is the one the function computes:
\* the choices of the machine (a vector that cannot grow, a trapping division,
\* an access out of range) all end the run without a result.
LEMMA StepIsSuccessor ==
  ASSUME EngineTypeOK, Step, call' \in {"running", "ok", "error"}
  PROVE  Here' = Successor(program, Here) /\ program' = program /\ call = "running"
  <1> USE DEF Here
  <1>0. /\ pc \in Nat /\ Len(program) \in Nat /\ Len(stack) \in Nat
        /\ MemoryLimit \in Nat
    BY MachineAssumption, ProgramsAssumption DEF EngineTypeOK
  <1>1. ASSUME NEW ops, At(ops)
        PROVE  /\ Ins = program[pc + 1] /\ Ins.op \in ops /\ ~(pc >= Len(program))
               /\ call = "running" /\ program' = program
    BY <1>0, <1>1 DEF At, Ins
  <1>2. CASE ExecNop
    <2>1. Ins.op \notin {"Halt", "Jump", "Const", "Load", "Store", "JumpIfNot"}
          /\ Ins.op \notin {"Add", "Sub", "Mul", "Div"}
      BY <1>1, <1>2 DEF ExecNop, Fetch
    <2> QED
      BY <1>1, <1>2, <2>1 DEF ExecNop, Fetch, Stay, Successor
  <1>3. CASE ExecConst
    <2>1. stack' = Append(stack, Ins.arg0) /\ UNCHANGED call
      BY <1>1, <1>3 DEF ExecConst, Fetch, Push, Throw
    <2> QED
      BY <1>1, <1>3, <2>1 DEF ExecConst, Fetch, Successor
  <1>4. CASE ExecArith
    <2>1. /\ Ins = program[pc + 1] /\ ~(pc >= Len(program)) /\ call = "running"
          /\ program' = program /\ pc' = pc + 1 /\ Ins.op \in {"Add", "Sub", "Mul", "Div"}
      BY <1>1, <1>4 DEF ExecArith, Fetch
    <2>2. Ins.op \notin {"Halt", "Jump", "Const", "Load"}
      BY <2>1
    <2>3. CASE Len(stack) < 2
      BY <1>0, <1>4, <2>1, <2>2, <2>3 DEF ExecArith, Underflow, Successor
    <2>4. CASE Len(stack) >= 2
      <3>1. /\ UNCHANGED <<locals, call>>
            /\ stack' = Append(Front(Front(stack)),
                               Compute(Ins.op, stack[Len(stack) - 1], Last(stack)))
        BY <1>0, <1>4, <2>4 DEF ExecArith
      <3> QED
        BY <1>0, <2>1, <2>2, <2>4, <3>1 DEF Successor
    <2> QED
      BY <1>0, <2>3, <2>4
  <1>5. CASE TrapDiv
    BY <1>5 DEF TrapDiv, Undefined
  <1>6. ASSUME NEW i PROVE Grown(i) = Extended(locals, i)
    BY DEF Grown, Extended
  <1>7. CASE ExecLoad
    <2>1. /\ locals' = Grown(Ins.arg0) /\ UNCHANGED call
          /\ stack' = Append(stack, Grown(Ins.arg0)[Ins.arg0 + 1])
      BY <1>1, <1>7
      DEF ExecLoad, Fetch, OutOfRange, Undefined, CannotGrow, Push, Throw
    <2> QED
      BY <1>1, <1>6, <1>7, <2>1 DEF ExecLoad, Fetch, Successor
  <1>8. CASE ExecStore
    <2>1. CASE Len(stack) = 0
      BY <1>0, <1>1, <1>8, <2>1 DEF ExecStore, Fetch, Underflow, Successor
    <2>2. CASE Len(stack) # 0
      <3>1. /\ locals' = [Grown(Ins.arg0) EXCEPT ![Ins.arg0 + 1] = Last(stack)]
            /\ stack' = Front(stack) /\ UNCHANGED call
        BY <1>1, <1>8, <2>2
        DEF ExecStore, Fetch, OutOfRange, Undefined, CannotGrow, Throw
      <3> QED
        <4>1. Ins.op = "Store" /\ Ins = program[pc + 1] /\ ~(pc >= Len(program))
              /\ call = "running" /\ program' = program /\ pc' = pc + 1
          BY <1>1, <1>8 DEF ExecStore, Fetch
        <4>2. locals' = [Extended(locals, Ins.arg0) EXCEPT ![Ins.arg0 + 1] = Last(stack)]
          BY <1>6, <3>1
        <4> QED
          BY <2>2, <3>1, <4>1, <4>2 DEF Successor
    <2> QED
      BY <2>1, <2>2
  <1>9. CASE ExecJump
    BY <1>1, <1>9 DEF ExecJump, Stay, Successor
  <1>10. CASE ExecJumpIfNot
    BY <1>0, <1>1, <1>10 DEF ExecJumpIfNot, Underflow, Successor
  <1>11. CASE ExecHalt
    BY <1>1, <1>11 DEF ExecHalt, Fetch, Successor
  <1>12. CASE RunOffEnd
    BY <1>12 DEF RunOffEnd, Successor
  <1> QED
    BY <1>2, <1>3, <1>4, <1>5, <1>7, <1>8, <1>9, <1>10, <1>11, <1>12 DEF Step

\* A run of the watched program is on.
Watching == call = "running" /\ program = watched

Recorded(c) == [call |-> c[1], stack |-> c[2], locals |-> c[3]]

\* H is a trail of the watched program: it holds every state from the start to
\* where the runs of it have come, and no other way out of any of them.
Trail(H) ==
  /\ Start \in H
  /\ Watching => Here \in H
  /\ \A c \in H :
       \/ c[1] = "running" /\ Successor(watched, c) \in H
       \/ c[1] = "running" /\ memo = {} /\ Watching /\ c = Here
       \/ c[1] # "running" /\ memo = {Recorded(c)}

RepeatInv ==
  /\ phase \in Phases
  /\ phase = "loaded" => call = "none" /\ stack = <<>> /\ locals = <<>> /\ pc = 0
  /\ (memo = {} /\ ~Watching) \/ \E H : Trail(H)
  /\ Repeatable

\* One instruction of the watched program prolongs the trail, follows it, or
\* ends the run without a result.
LEMMA TrailStep ==
  ASSUME EngineTypeOK, RepeatInv, Executing, Watching
  PROVE  Repeatable' /\ ((memo' = {} /\ ~Watching') \/ \E H : Trail(H)')
  <1>1. Step /\ watched' = watched /\ program = watched /\ call = "running"
    BY DEF Executing, Watching
  <1>2. PICK H : Trail(H)
    BY DEF RepeatInv
  <1>3. CASE call' \notin {"running", "ok", "error"}
    <2>1. memo' = memo /\ ~Watching'
      BY <1>3 DEF Executing, Watching
    <2>2. CASE memo = {}
      BY <2>1, <2>2 DEF Repeatable
    <2>3. CASE memo # {}
      BY <1>1, <1>2, <2>1, <2>3 DEF Trail, RepeatInv, Repeatable
    <2> QED
      BY <2>2, <2>3
  <1>4. CASE call' \in {"running", "ok", "error"}
    <2>1. Here' = Successor(watched, Here) /\ program' = program
      BY <1>1, <1>4, StepIsSuccessor
    <2>2. Here \in H /\ Here[1] = "running" /\ Here'[1] = call'
      BY <1>1, <1>2 DEF Trail, Here, Watching
    <2>3. Recorded(Here') = [call |-> call', stack |-> stack', locals |-> locals']
      BY DEF Here, Recorded
    <2>4. memo' = IF call' \in {"ok", "error"} THEN memo \cup {Recorded(Here')} ELSE memo
      BY <1>1, <2>3 DEF Executing
    <2>5. Watching' <=> call' = "running"
      BY <1>1, <2>1 DEF Watching
    <2>6. CASE memo # {}
      <3>1. Here' \in H
        BY <1>2, <2>1, <2>2, <2>6 DEF Trail
      <3>2. call' \in {"ok", "error"} => memo = {Recorded(Here')}
        BY <1>2, <2>2, <2>6, <3>1 DEF Trail
      <3>3. memo' = memo
        BY <2>4, <3>2
      <3>4. Trail(H)'
        BY <1>1, <1>2, <2>6, <3>1, <3>3 DEF Trail
      <3> QED
        BY <3>3, <3>4 DEF RepeatInv, Repeatable
    <2>7. CASE memo = {}
      <3>0. PICK K : K = H \cup {Here'}
        OBVIOUS
      <3>1. \A c \in H : c[1] = "running" /\ Successor(watched, c) \in K
        BY <1>2, <2>1, <2>7, <3>0 DEF Trail
      <3>2. CASE call' = "running"
        <4>1. memo' = {} /\ Watching'
          BY <2>4, <2>5, <2>7, <3>2
        <4>2. Trail(K)'
          <5>1. \A c \in H : c[1] = "running" /\ Successor(watched', c) \in K
            BY <1>1, <3>1
          <5>2. Here'[1] = "running" /\ Here' \in K /\ Start \in K
            BY <1>2, <2>2, <3>0, <3>2 DEF Trail
          <5>3. \A c \in K : c \in H \/ c = Here'
            BY <3>0
          <5> QED
            BY <4>1, <5>1, <5>2, <5>3 DEF Trail
        <4> QED
          BY <4>1, <4>2 DEF Repeatable
      <3>3. CASE call' # "running"
        <4>1. memo' = {Recorded(Here')} /\ ~Watching'
          BY <1>4, <2>4, <2>5, <2>7, <3>3
        <4>2. Trail(K)'
          <5>1. \A c \in H : c[1] = "running" /\ Successor(watched', c) \in K
            BY <1>1, <3>1
          <5>2. Here'[1] # "running" /\ Start \in K
            BY <1>2, <2>2, <3>0, <3>3 DEF Trail
          <5>3. \A c \in K : c \in H \/ c = Here'
            BY <3>0
          <5> QED
            BY <4>1, <5>1, <5>2, <5>3 DEF Trail
        <4> QED
          BY <4>1, <4>2 DEF Repeatable
      <3> QED
        BY <3>2, <3>3
    <2> QED
      BY <2>6, <2>7
  <1> QED
    BY <1>3, <1>4

\* Whatever a VM executed, shut down or failed at before: any two executions of
\* the same code that return leave the same result, stack and locals.
THEOREM ExecutionsRepeat == VMSpec => []Repeatable
  <1>1. VMInit => RepeatInv
    BY DEF VMInit, EngineInit, RepeatInv, Phases, Watching, Repeatable
  <1>2. EngineTypeOK /\ RepeatInv /\ [VMNext]_vmVars => RepeatInv'
    <2> SUFFICES ASSUME EngineTypeOK, RepeatInv, [VMNext]_vmVars PROVE RepeatInv'
      OBVIOUS
    <2>1. ASSUME UNCHANGED history, ~Watching'
          PROVE  Repeatable' /\ ((memo' = {} /\ ~Watching') \/ \E H : Trail(H)')
      <3>1. CASE memo = {}
        BY <2>1, <3>1 DEF history, Repeatable
      <3>2. CASE memo # {}
        <4>1. PICK H : Trail(H)
          BY <3>2 DEF RepeatInv
        <4>2. Trail(H)'
          BY <2>1, <3>2, <4>1 DEF Trail, history
        <4> QED
          BY <2>1, <4>2 DEF history, RepeatInv, Repeatable
      <3> QED
        BY <3>1, <3>2
    <2>2. ASSUME NEW p, NEW s, Replace(p, s), UNCHANGED history, phase' \in Phases
          PROVE  RepeatInv'
      <3>1. ~Watching'
        BY <2>2 DEF Replace, Watching
      <3> QED
        BY <2>1, <2>2, <3>1 DEF Replace, RepeatInv
    <2>3. CASE ExecuteRun
      <3>1. Here' = Start /\ call' = "running" /\ phase' = "idle" /\ UNCHANGED history
        BY <2>3 DEF ExecuteRun, Run, RepeatInv, Here, Start
      <3>2. CASE ~Watching'
        BY <2>1, <3>1, <3>2 DEF RepeatInv, Phases
      <3>3. CASE Watching' /\ memo = {}
        <4>1. Trail({Start})'
          BY <3>1, <3>3 DEF Trail, history, Start
        <4> QED
          BY <3>1, <3>3, <4>1 DEF RepeatInv, Phases, history, Repeatable
      <3>4. CASE Watching' /\ memo # {}
        <4>1. PICK H : Trail(H)
          BY <3>4 DEF RepeatInv
        <4>2. Trail(H)'
          BY <3>1, <3>4, <4>1 DEF Trail, history
        <4> QED
          BY <3>1, <4>2 DEF RepeatInv, Phases, history, Repeatable
      <3> QED
        BY <3>2, <3>3, <3>4
    <2>4. CASE Executing
      <3>1. phase' = phase /\ phase # "loaded" /\ watched' = watched
        BY <2>4 DEF Executing, RepeatInv, Step, ExecNop, ExecConst, ExecArith, TrapDiv,
                    ExecLoad, ExecStore, ExecJump, ExecJumpIfNot, ExecHalt, RunOffEnd,
                    Fetch, At
      <3>2. CASE Watching
        BY <2>4, <3>1, <3>2, TrailStep DEF RepeatInv
      <3>3. CASE ~Watching
        <4>1. call = "running" /\ program' = program /\ program # watched
          BY <2>4, <3>3 DEF Executing, Watching, Step, ExecNop, ExecConst, ExecArith,
             TrapDiv, ExecLoad, ExecStore, ExecJump, ExecJumpIfNot, ExecHalt, RunOffEnd,
             Fetch, At
        <4>2. ~Watching' /\ UNCHANGED history
          BY <2>4, <3>1, <4>1 DEF Executing, Watching, history
        <4> QED
          BY <2>1, <3>1, <4>2 DEF RepeatInv
      <3> QED
        BY <3>2, <3>3
    <2>5. CASE UNCHANGED <<engineVars, history>> /\ phase' \in Phases
               /\ (phase' = "loaded" => phase = "loaded")
      <3>1. Watching' = Watching /\ Here' = Here /\ memo' = memo /\ watched' = watched
        BY <2>5 DEF engineVars, history, Watching, Here
      <3>2. ASSUME NEW H, Trail(H) PROVE Trail(H)'
        BY <3>1, <3>2 DEF Trail
      <3> QED
        BY <2>5, <3>1, <3>2 DEF RepeatInv, Repeatable, engineVars
    <2>6. CASE Initialize \/ ExecuteRejected \/ UNCHANGED vmVars
      BY <2>5, <2>6 DEF Initialize, ExecuteRejected, vmVars, Phases, RepeatInv
    <2>7. CASE \E code \in Programs : ExecuteLoad(code)
      BY <2>2, <2>7 DEF ExecuteLoad, LoadProgram, Phases
    <2>8. CASE Shutdown
      BY <2>2, <2>8 DEF Shutdown, Reset, RepeatInv
    <2> QED
      BY <2>3, <2>4, <2>6, <2>7, <2>8 DEF VMNext
  <1>3. RepeatInv => Repeatable
    BY DEF RepeatInv
  <1> QED
    BY <1>1, <1>2, <1>3, VMUsesTheEngine, EngineTypeCorrect, PTL DEF VMSpec

-----------------------------------------------------------------------------
(* shared_library: the stack of loader calls. *)

\* What a push leaves: the old calls in their places, the new one on top.
LEMMA PushCalls ==
  ASSUME NEW s \in Seq(Call), NEW c \in Call
  PROVE  /\ Append(s, c) \in Seq(Call) /\ Append(s, c) # <<>>
         /\ Len(s) \in Nat /\ Len(Append(s, c)) = Len(s) + 1
         /\ Append(s, c)[Len(s) + 1] = c /\ Last(Append(s, c)) = c
         /\ \A n \in 1 .. Len(s) : Append(s, c)[n] = s[n]
  BY DEF Last

\* What a pop leaves: all calls but the top.
LEMMA PopCalls ==
  ASSUME NEW s \in Seq(Call), s # <<>>
  PROVE  /\ Front(s) \in Seq(Call)
         /\ Len(s) \in Nat \ {0} /\ Len(Front(s)) = Len(s) - 1
         /\ Last(s) = s[Len(s)] /\ Last(s) \in Call
         /\ \A n \in 1 .. Len(s) - 1 : Front(s)[n] = s[n]
         /\ Front(s) # <<>> => Len(s) - 1 \in 1 .. Len(s) - 1 /\ Last(Front(s)) = s[Len(s) - 1]
  <1> DEFINE n == Len(s) - 1
             f == [i \in 1 .. n |-> s[i]]
  <1>1. Len(s) \in Nat \ {0} /\ n \in Nat /\ Len(s) = n + 1 /\ \A i \in 1 .. n + 1 : s[i] \in Call
    OBVIOUS
  <1>2. Front(s) = f
    BY <1>1 DEF Front
  <1> HIDE DEF n
  <1>3. f \in Seq(Call) /\ Len(f) = n /\ \A i \in 1 .. n : f[i] = s[i]
    BY <1>1
  <1>4. Last(s) = s[n + 1] /\ n + 1 \in 1 .. n + 1
    BY <1>1 DEF Last
  <1>5. f # <<>> => n # 0
    BY <1>1, <1>3
  <1>6. n # 0 => n \in 1 .. n /\ f[n] = s[n]
    BY <1>1, <1>3
  <1>7. f # <<>> => Last(f) = s[n] /\ n \in 1 .. n
    BY <1>3, <1>5, <1>6 DEF Last
  <1>8. Len(s) - 1 = n
    BY <1>1
  <1> QED
    BY <1>1, <1>2, <1>3, <1>4, <1>7, <1>8

-----------------------------------------------------------------------------
(* shared_library: counting owners. *)

USE DEF Owners

\* There are finitely many owners and closers of an image.
LEMMA OwnersFinite ==
  ASSUME NEW i \in Images
  PROVE  /\ IsFiniteSet(Owners(i)) /\ Cardinality(Owners(i)) \in Nat
         /\ IsFiniteSet(Closers(i)) /\ Cardinality(Closers(i)) \in Nat
  <1>1. Owners(i) \subseteq Objects /\ Closers(i) \subseteq Threads
    BY DEF Closers
  <1>2. IsFiniteSet(Owners(i)) /\ IsFiniteSet(Closers(i))
    BY <1>1, FS_Subset, LibraryAssumption
  <1> QED
    BY <1>2, FS_CardinalityType

\* An empty object that receives a handle is one owner more.
LEMMA OwnerGained ==
  ASSUME handle \in [Objects -> Images \cup {None}], NEW o \in Objects, NEW v \in Images,
         handle[o] = None, handle' = [handle EXCEPT ![o] = v], NEW i \in Images
  PROVE  Cardinality(Owners(i))' = Cardinality(Owners(i)) + (IF i = v THEN 1 ELSE 0)
  <1>1. Owners(i)' = IF i = v THEN Owners(i) \cup {o} ELSE Owners(i)
    BY LibraryAssumption
  <1>2. o \notin Owners(i)
    BY LibraryAssumption
  <1> HIDE DEF Owners
  <1>3. IsFiniteSet(Owners(i)) /\ Cardinality(Owners(i)) \in Nat
    BY OwnersFinite
  <1>4. CASE i = v
    BY <1>1, <1>2, <1>3, <1>4, FS_AddElement
  <1>5. CASE i # v
    BY <1>1, <1>3, <1>5
  <1> QED
    BY <1>4, <1>5

\* An object that gives its handle up is one owner less.
LEMMA OwnerLost ==
  ASSUME handle \in [Objects -> Images \cup {None}], NEW o \in Objects, NEW v \in Images,
         handle[o] = v, handle' = [handle EXCEPT ![o] = None], NEW i \in Images
  PROVE  Cardinality(Owners(i)) = Cardinality(Owners(i))' + (IF i = v THEN 1 ELSE 0)
  <1>1. Owners(i)' = IF i = v THEN Owners(i) \ {o} ELSE Owners(i)
    BY LibraryAssumption
  <1>2. i = v => o \in Owners(i)
    OBVIOUS
  <1> HIDE DEF Owners
  <1>3. IsFiniteSet(Owners(i)) /\ Cardinality(Owners(i)) \in Nat
    BY OwnersFinite
  <1>4. CASE i = v
    <2>1. Cardinality(Owners(i) \ {o}) = Cardinality(Owners(i)) - 1
      BY <1>2, <1>3, <1>4, FS_RemoveElement
    <2>2. Owners(i)' = Owners(i) \ {o}
      BY <1>1, <1>4
    <2> QED
      BY <1>3, <1>4, <2>1, <2>2
  <1>5. CASE i # v
    BY <1>1, <1>3, <1>5
  <1> QED
    BY <1>4, <1>5

\* Moving a handle into an empty object changes the owner, not their number.
LEMMA OwnerMoved ==
  ASSUME handle \in [Objects -> Images \cup {None}], NEW o \in Objects, NEW p \in Objects,
         o # p, handle[o] = None, Transfer(o, p), NEW i \in Images
  PROVE  Cardinality(Owners(i))' = Cardinality(Owners(i))
  <1>1. handle' = [handle EXCEPT ![o] = handle[p], ![p] = None]
    BY DEF Transfer
  <1>2. Owners(i)' = IF i = handle[p] THEN (Owners(i) \ {p}) \cup {o} ELSE Owners(i)
    BY <1>1, LibraryAssumption
  <1>3. o \notin Owners(i) /\ (i = handle[p] => p \in Owners(i))
    BY LibraryAssumption
  <1> HIDE DEF Owners
  <1>4. IsFiniteSet(Owners(i)) /\ Cardinality(Owners(i)) \in Nat
    BY OwnersFinite
  <1>5. CASE i = handle[p]
    <2>1. /\ IsFiniteSet(Owners(i) \ {p})
          /\ Cardinality(Owners(i) \ {p}) = Cardinality(Owners(i)) - 1
      BY <1>3, <1>4, <1>5, FS_RemoveElement
    <2>2. Cardinality((Owners(i) \ {p}) \cup {o}) = Cardinality(Owners(i) \ {p}) + 1
      BY <1>3, <2>1, FS_AddElement
    <2> QED
      BY <1>2, <1>4, <1>5, <2>1, <2>2
  <1>6. CASE i # handle[p]
    BY <1>2, <1>6
  <1> QED
    BY <1>5, <1>6

USE DEF Closers
HIDE DEF Owners

\* Threads whose stack stays as it is stay closers, or not, of the same image.
\* A running thread that enters the loader is one closer more of the image.
LEMMA CloserGained ==
  ASSUME NEW t \in Threads, NEW j \in Images, NEW i \in Images,
         \A u \in Threads \ {t} : calls'[u] = calls[u],
         Running(t), ~Running(t)', Last(calls'[t]).image = j
  PROVE  Cardinality(Closers(i))' = Cardinality(Closers(i)) + (IF i = j THEN 1 ELSE 0)
  <1>1. \A u \in Threads \ {t} : Running(u)' = Running(u)
    BY DEF Running
  <1>2. Closers(i)' = IF i = j THEN Closers(i) \cup {t} ELSE Closers(i)
    BY <1>1
  <1>3. t \notin Closers(i)
    OBVIOUS
  <1> HIDE DEF Closers
  <1>4. IsFiniteSet(Closers(i)) /\ Cardinality(Closers(i)) \in Nat
    BY OwnersFinite
  <1>5. CASE i = j
    BY <1>2, <1>3, <1>4, <1>5, FS_AddElement
  <1>6. CASE i # j
    BY <1>2, <1>4, <1>6
  <1> QED
    BY <1>5, <1>6

\* A thread whose loader call goes on is one closer less of the image.
LEMMA CloserLost ==
  ASSUME NEW t \in Threads, NEW j \in Images, NEW i \in Images,
         \A u \in Threads \ {t} : calls'[u] = calls[u],
         ~Running(t), Running(t)', Last(calls[t]).image = j
  PROVE  Cardinality(Closers(i)) = Cardinality(Closers(i))' + (IF i = j THEN 1 ELSE 0)
  <1>1. \A u \in Threads \ {t} : Running(u)' = Running(u)
    BY DEF Running
  <1>2. Closers(i)' = IF i = j THEN Closers(i) \ {t} ELSE Closers(i)
    BY <1>1
  <1>3. i = j => t \in Closers(i)
    OBVIOUS
  <1> HIDE DEF Closers
  <1>4. IsFiniteSet(Closers(i)) /\ Cardinality(Closers(i)) \in Nat
    BY OwnersFinite
  <1>5. CASE i = j
    <2>1. Cardinality(Closers(i) \ {t}) = Cardinality(Closers(i)) - 1
      BY <1>3, <1>4, <1>5, FS_RemoveElement
    <2>2. Closers(i)' = Closers(i) \ {t}
      BY <1>2, <1>5
    <2> QED
      BY <1>4, <1>5, <2>1, <2>2
  <1>6. CASE i # j
    BY <1>2, <1>4, <1>6
  <1> QED
    BY <1>5, <1>6

\* A thread that runs before and after a step changes no set of closers.
LEMMA ClosersSame ==
  ASSUME NEW t \in Threads, NEW i \in Images,
         \A u \in Threads \ {t} : calls'[u] = calls[u],
         Running(t), Running(t)'
  PROVE  Closers(i)' = Closers(i)
  BY DEF Running

HIDE DEF Closers

-----------------------------------------------------------------------------
(* shared_library: the inductive invariant. *)

Objs(c) == {c.this, c.other} \cap Objects

\* Only the innermost call can be about to call the loader.
Nested == \A t \in Threads : \A n \in 1 .. Len(calls[t]) - 1 : calls[t][n].unloading

\* Calls of different threads, and a destructor or assignment and the calls
\* made by the finalisers it runs, have no object in common.
Exclusive ==
  /\ \A t, u \in Threads : t # u =>
       \A n \in 1 .. Len(calls[t]), m \in 1 .. Len(calls[u]) :
          Objs(calls[t][n]) \cap Objs(calls[u][m]) = {}
  /\ \A t \in Threads : \A n, m \in 1 .. Len(calls[t]) :
       n < m /\ calls[t][n].op # "close" => Objs(calls[t][n]) \cap Objs(calls[t][m]) = {}

\* What a destructor or assignment relies on when the loader is done.
Pending ==
  \A t \in Threads : \A n \in 1 .. Len(calls[t]) :
    LET c == calls[t][n]
    IN  c.op # "close" =>
          /\ handle[c.this] = None
          /\ c.op = "assign" => c.this \in alive /\ c.other \in Objects /\ c.this # c.other

DeadAreEmpty == \A o \in Objects \ alive : handle[o] = None

ObjectTypes ==
  /\ handle \in [Objects -> Images \cup {None}] /\ path \in [Objects -> Images \cup {None}]
  /\ alive \subseteq Objects /\ calls \in [Threads -> Seq(Call)]

Shape == ObjectTypes /\ Nested /\ Exclusive /\ Pending /\ DeadAreEmpty

\* Every call on a stack is a call.
LEMMA CallTypes ==
  ASSUME ObjectTypes, NEW t \in Threads, NEW n \in 1 .. Len(calls[t])
  PROVE  /\ calls[t] \in Seq(Call) /\ calls[t][n] \in Call
         /\ calls[t][n].this \in Objects /\ calls[t][n].this \in Objs(calls[t][n])
  <1>1. calls[t] \in Seq(Call)
    BY DEF ObjectTypes
  <1>2. calls[t][n] \in Call
    BY <1>1
  <1> QED
    BY <1>1, <1>2 DEF Call, Objs

\* An object a thread may use is in no unfinished call of its own and in no
\* call of another thread.
LEMMA UsableIsFree ==
  ASSUME ObjectTypes, NEW t \in Threads, NEW o \in Objects, MayUse(t, o)
  PROVE  /\ \A n \in 1 .. Len(calls[t]) : calls[t][n].op # "close" => o \notin Objs(calls[t][n])
         /\ \A u \in Threads \ {t} : \A n \in 1 .. Len(calls[u]) : o \notin Objs(calls[u][n])
         /\ \A u \in Threads : \A n \in 1 .. Len(calls[u]) :
              calls[u][n].op # "close" => o # calls[u][n].this
  <1>1. ASSUME NEW u \in Threads, NEW n \in 1 .. Len(calls[u])
        PROVE  calls[u][n] \in ToSet(calls[u])
    BY DEF ToSet, ObjectTypes
  <1>2. ASSUME NEW n \in 1 .. Len(calls[t]), calls[t][n].op # "close"
        PROVE  o \notin Objs(calls[t][n])
    BY <1>1, <1>2 DEF MayUse, Unfinished, Objs
  <1>3. ASSUME NEW u \in Threads \ {t}, NEW n \in 1 .. Len(calls[u])
        PROVE  o \notin Objs(calls[u][n])
    BY <1>1, <1>3 DEF MayUse, InUse, Objs
  <1>4. ASSUME NEW u \in Threads, NEW n \in 1 .. Len(calls[u]), calls[u][n].op # "close"
        PROVE  o # calls[u][n].this
    <2>1. calls[u][n].this \in Objs(calls[u][n])
      BY CallTypes
    <2> QED
      BY <1>2, <1>3, <1>4, <2>1
  <1> QED
    BY <1>2, <1>3, <1>4

\* Steps that leave the stacks alone and touch no object of an unfinished call.
LEMMA ShapeSameCalls ==
  ASSUME Shape, ObjectTypes', DeadAreEmpty', calls' = calls,
         \A t \in Threads : \A n \in 1 .. Len(calls[t]) :
           LET c == calls[t][n]
           IN  c.op # "close" => /\ handle'[c.this] = handle[c.this]
                                 /\ c.this \in alive => c.this \in alive'
  PROVE  Shape'
  <1>1. Nested' /\ Exclusive'
    BY DEF Shape, Nested, Exclusive, Objs
  <1>2. Pending'
    BY DEF Shape, Pending
  <1> QED
    BY <1>1, <1>2 DEF Shape

\* A call enters the loader with an object it may use, emptied.
LEMMA ShapePush ==
  ASSUME Shape, NEW t \in Threads, NEW op \in {"close", "release", "assign"}, NEW o \in Objects,
         NEW p \in Objects \cup {None}, GiveUp(t, op, o, p), o \in alive,
         MayUse(t, o), p \in Objects => MayUse(t, p),
         op = "assign" => p \in Objects /\ o # p
  PROVE  /\ Shape'
         /\ Running(t) /\ ~Running(t)' /\ Last(calls'[t]).image = handle[o]
         /\ \A u \in Threads \ {t} : calls'[u] = calls[u]
  <1> DEFINE s == calls[t]
             c == [op |-> op, this |-> o, other |-> p, image |-> handle[o], unloading |-> FALSE]
  <1>1. /\ s \in Seq(Call) /\ c \in Call /\ handle[o] \in Images
        /\ calls' = [calls EXCEPT ![t] = Append(s, c)]
        /\ handle' = [handle EXCEPT ![o] = None] /\ path' = [path EXCEPT ![o] = None]
        /\ alive' = alive
    BY DEF Shape, ObjectTypes, GiveUp, Call
  <1>2. /\ c.this = o /\ c.other = p /\ c.op = op /\ c.image = handle[o] /\ c.unloading = FALSE
        /\ Objs(c) \subseteq {o, p}
    BY DEF Objs
  <1> HIDE DEF c
  <1>3. /\ calls'[t] \in Seq(Call) /\ calls'[t] # <<>> /\ Len(s) \in Nat
        /\ Len(calls'[t]) = Len(s) + 1 /\ calls'[t][Len(s) + 1] = c /\ Last(calls'[t]) = c
        /\ \A n \in 1 .. Len(s) : calls'[t][n] = s[n]
    <2>1. calls'[t] = Append(s, c)
      BY <1>1 DEF Shape, ObjectTypes
    <2> QED
      BY <1>1, <2>1, PushCalls
  <1>4. \A u \in Threads \ {t} : calls'[u] = calls[u]
    BY <1>1 DEF Shape, ObjectTypes
  <1>5. \A n \in 1 .. Len(calls'[t]) : n \in 1 .. Len(s) \/ n = Len(s) + 1
    BY <1>3
  <1>6. Running(t) /\ ~Running(t)' /\ Last(calls'[t]).image = handle[o]
    BY <1>2, <1>3 DEF MayUse, Running
  <1>7. ObjectTypes'
    BY <1>1, <1>3, <1>4 DEF Shape, ObjectTypes
  <1>8. Nested'
    <2>1. \A n \in 1 .. Len(s) : s[n].unloading
      <3>1. s # <<>> => Last(s).unloading
        BY DEF MayUse, Running
      <3>2. \A n \in 1 .. Len(s) : n \in 1 .. Len(s) - 1 \/ (n = Len(s) /\ s # <<>>)
        BY <1>1
      <3> QED
        BY <1>1, <3>1, <3>2 DEF Shape, Nested, Last
    <2>2. \A n \in 1 .. Len(calls'[t]) - 1 : calls'[t][n].unloading
      BY <1>3, <2>1
    <2> QED
      BY <1>4, <2>2 DEF Shape, Nested
  <1>9. /\ \A n \in 1 .. Len(s) : s[n].op # "close" => Objs(s[n]) \cap Objs(c) = {}
        /\ \A u \in Threads \ {t} : \A n \in 1 .. Len(calls[u]) : Objs(calls[u][n]) \cap Objs(c) = {}
    <2>1. ASSUME NEW q \in Objs(c)
          PROVE  /\ \A n \in 1 .. Len(s) : s[n].op # "close" => q \notin Objs(s[n])
                 /\ \A u \in Threads \ {t} : \A n \in 1 .. Len(calls[u]) : q \notin Objs(calls[u][n])
      <3>1. q \in Objects /\ MayUse(t, q)
        BY <1>2, <2>1 DEF Objs
      <3> QED
        BY <3>1, UsableIsFree DEF Shape
    <2> QED
      BY <2>1, Zenon
  <1>10. Exclusive'
    <2>1. \A q, r \in Threads : q # r =>
            \A n \in 1 .. Len(calls'[q]), m \in 1 .. Len(calls'[r]) :
               Objs(calls'[q][n]) \cap Objs(calls'[r][m]) = {}
      <3> SUFFICES ASSUME NEW q \in Threads, NEW r \in Threads, q # r,
                          NEW n \in 1 .. Len(calls'[q]), NEW m \in 1 .. Len(calls'[r])
                   PROVE  Objs(calls'[q][n]) \cap Objs(calls'[r][m]) = {}
        OBVIOUS
      <3>1. CASE q = t /\ n = Len(s) + 1
        <4>1. calls'[q][n] = c /\ calls'[r] = calls[r] /\ r \in Threads \ {t}
          BY <1>3, <1>4, <3>1
        <4>2. Objs(calls[r][m]) \cap Objs(c) = {}
          BY <1>9, <4>1
        <4> QED
          BY <4>1, <4>2
      <3>2. CASE r = t /\ m = Len(s) + 1
        <4>1. calls'[r][m] = c /\ calls'[q] = calls[q] /\ q \in Threads \ {t}
          BY <1>3, <1>4, <3>2
        <4>2. Objs(calls[q][n]) \cap Objs(c) = {}
          BY <1>9, <4>1
        <4> QED
          BY <4>1, <4>2
      <3>3. CASE ~(q = t /\ n = Len(s) + 1) /\ ~(r = t /\ m = Len(s) + 1)
        <4>1. n \in 1 .. Len(calls[q]) /\ calls'[q][n] = calls[q][n]
          BY <1>3, <1>4, <1>5, <3>3
        <4>2. m \in 1 .. Len(calls[r]) /\ calls'[r][m] = calls[r][m]
          BY <1>3, <1>4, <1>5, <3>3
        <4> QED
          BY <4>1, <4>2 DEF Shape, Exclusive
      <3> QED
        BY <3>1, <3>2, <3>3
    <2>2. ASSUME NEW q \in Threads, NEW n \in 1 .. Len(calls'[q]), NEW m \in 1 .. Len(calls'[q]),
                 n < m, calls'[q][n].op # "close"
          PROVE  Objs(calls'[q][n]) \cap Objs(calls'[q][m]) = {}
      <3>1. CASE q = t /\ m = Len(s) + 1
        <4>1. n \in 1 .. Len(s) /\ calls'[t][n] = s[n] /\ calls'[t][m] = c
          BY <1>3, <1>5, <2>2, <3>1
        <4> QED
          BY <1>9, <2>2, <3>1, <4>1
      <3>2. CASE ~(q = t /\ m = Len(s) + 1)
        <4>1. /\ n \in 1 .. Len(calls[q]) /\ calls'[q][n] = calls[q][n]
              /\ m \in 1 .. Len(calls[q]) /\ calls'[q][m] = calls[q][m]
          BY <1>3, <1>4, <1>5, <2>2, <3>2
        <4> QED
          BY <2>2, <4>1 DEF Shape, Exclusive
      <3> QED
        BY <3>1, <3>2
    <2> QED
      BY <2>1, <2>2 DEF Exclusive, Objs
  <1>11. DeadAreEmpty'
    BY <1>1 DEF Shape, DeadAreEmpty, ObjectTypes
  <1>12. Pending'
    <2> SUFFICES ASSUME NEW q \in Threads, NEW n \in 1 .. Len(calls'[q]), calls'[q][n].op # "close"
                 PROVE  LET d == calls'[q][n]
                        IN  /\ handle'[d.this] = None
                            /\ d.op = "assign" => /\ d.this \in alive' /\ d.other \in Objects
                                                  /\ d.this # d.other
      BY DEF Pending
    <2>1. CASE q = t /\ n = Len(s) + 1
      BY <1>1, <1>2, <1>3, <2>1 DEF Shape, ObjectTypes
    <2>2. CASE ~(q = t /\ n = Len(s) + 1)
      <3>1. n \in 1 .. Len(calls[q]) /\ calls'[q][n] = calls[q][n]
        BY <1>3, <1>4, <1>5, <2>2
      <3>2. calls[q][n].this \in Objects
        BY <3>1, CallTypes DEF Shape
      <3>3. handle'[calls[q][n].this] = None
        BY <1>1, <3>1, <3>2 DEF Shape, Pending, ObjectTypes
      <3> QED
        BY <1>1, <3>1, <3>3 DEF Shape, Pending
    <2> QED
      BY <2>1, <2>2
  <1> QED
    BY <1>4, <1>6, <1>7, <1>8, <1>10, <1>11, <1>12 DEF Shape

\* The innermost call ends.
LEMMA ShapeReturn ==
  ASSUME Shape, NEW t \in Threads, calls[t] # <<>>, Return(t)
  PROVE  /\ Shape'
         /\ Running(t)'
         /\ \A u \in Threads \ {t} : calls'[u] = calls[u]
         /\ \A i \in Images : Cardinality(Owners(i))' = Cardinality(Owners(i))
  <1> DEFINE s == calls[t]
             L == Len(s)
             c == Last(s)
  <1>1. s \in Seq(Call) /\ s # <<>>
    BY DEF Shape, ObjectTypes
  <1>2. /\ calls' = [calls EXCEPT ![t] = Front(s)]
        /\ alive' = IF c.op = "release" THEN alive \ {c.this} ELSE alive
        /\ IF c.op = "assign" THEN Transfer(c.this, c.other) ELSE UNCHANGED <<handle, path>>
    BY DEF Return
  <1>3. calls'[t] = Front(s) /\ \A u \in Threads \ {t} : calls'[u] = calls[u]
    BY <1>2 DEF Shape, ObjectTypes
  <1>4. /\ Front(s) \in Seq(Call) /\ L \in Nat \ {0} /\ Len(Front(s)) = L - 1
        /\ c = s[L] /\ c \in Call
        /\ \A n \in 1 .. L - 1 : Front(s)[n] = s[n]
        /\ Front(s) # <<>> => L - 1 \in 1 .. L - 1 /\ Last(Front(s)) = s[L - 1]
    BY <1>1, PopCalls
  <1> HIDE DEF c, L
  <1>5. /\ L \in 1 .. Len(s) /\ L = Len(s)
        /\ \A n \in 1 .. L - 1 : n \in 1 .. Len(s) /\ n < L
    BY <1>4 DEF L
  <1>6. Running(t)'
    BY <1>3, <1>4 DEF Running, Shape, Nested, L
  <1>7. /\ c.this \in Objects /\ c.this \in Objs(c)
        /\ c.op # "close" => handle[c.this] = None
        /\ c.op = "assign" =>
             c.this \in alive /\ c.other \in Objects /\ c.this # c.other /\ c.other \in Objs(c)
    BY <1>4, <1>5, CallTypes DEF Shape, Pending, Objs
  <1>8. ObjectTypes'
    <2>1. calls' \in [Threads -> Seq(Call)] /\ alive' \subseteq Objects
      BY <1>2, <1>4 DEF Shape, ObjectTypes
    <2>2. handle' \in [Objects -> Images \cup {None}] /\ path' \in [Objects -> Images \cup {None}]
      BY <1>2, <1>7 DEF Shape, ObjectTypes, Transfer
    <2> QED
      BY <2>1, <2>2 DEF ObjectTypes
  \* What is left of a stack is where it was.
  <1>9. ASSUME NEW q \in Threads, NEW n \in 1 .. Len(calls'[q])
        PROVE  /\ n \in 1 .. Len(calls[q]) /\ calls'[q][n] = calls[q][n]
               /\ q = t => n \in 1 .. L - 1
    BY <1>3, <1>4, <1>5
  <1>10. Nested'
    <2> SUFFICES ASSUME NEW q \in Threads, NEW n \in 1 .. Len(calls'[q]) - 1
                 PROVE  calls'[q][n].unloading
      BY DEF Nested
    <2>1. CASE q = t
      <3>1. n \in 1 .. Len(s) - 1 /\ calls'[t][n] = s[n]
        BY <1>3, <1>4, <1>5, <2>1
      <3> QED
        BY <2>1, <3>1 DEF Shape, Nested
    <2>2. CASE q # t
      BY <1>3, <2>2 DEF Shape, Nested
    <2> QED
      BY <2>1, <2>2
  <1>11. Exclusive'
    <2>1. ASSUME NEW q \in Threads, NEW r \in Threads, q # r,
                 NEW n \in 1 .. Len(calls'[q]), NEW m \in 1 .. Len(calls'[r])
          PROVE  Objs(calls'[q][n]) \cap Objs(calls'[r][m]) = {}
      BY <1>9, <2>1 DEF Shape, Exclusive
    <2>2. ASSUME NEW q \in Threads, NEW n \in 1 .. Len(calls'[q]), NEW m \in 1 .. Len(calls'[q]),
                 n < m, calls'[q][n].op # "close"
          PROVE  Objs(calls'[q][n]) \cap Objs(calls'[q][m]) = {}
      BY <1>9, <2>2 DEF Shape, Exclusive
    <2> QED
      BY <2>1, <2>2 DEF Exclusive, Objs
  <1>12. DeadAreEmpty'
    BY <1>2, <1>7 DEF Shape, DeadAreEmpty, ObjectTypes, Transfer
  <1>13. Pending'
    <2> SUFFICES ASSUME NEW q \in Threads, NEW n \in 1 .. Len(calls'[q]), calls'[q][n].op # "close"
                 PROVE  LET d == calls'[q][n]
                        IN  /\ handle'[d.this] = None
                            /\ d.op = "assign" => /\ d.this \in alive' /\ d.other \in Objects
                                                  /\ d.this # d.other
      BY DEF Pending
    <2> DEFINE d == calls[q][n]
    <2>1. /\ n \in 1 .. Len(calls[q]) /\ calls'[q][n] = d /\ d.op # "close"
          /\ q = t => n \in 1 .. L - 1
      BY <1>9
    <2>2. d.this \in Objects /\ d.this \in Objs(d)
      BY <2>1, CallTypes DEF Shape
    <2>3. Objs(d) \cap Objs(c) = {}
      <3>1. CASE q = t
        <4>1. n < L /\ n \in 1 .. Len(s) /\ L \in 1 .. Len(s) /\ s[L] = c
          BY <1>4, <1>5, <2>1, <3>1
        <4> QED
          BY <2>1, <3>1, <4>1 DEF Shape, Exclusive
      <3>2. CASE q # t
        <4>1. L \in 1 .. Len(calls[t]) /\ calls[t][L] = c
          BY <1>4, <1>5
        <4> QED
          BY <2>1, <3>2, <4>1 DEF Shape, Exclusive
      <3> QED
        BY <3>1, <3>2
    <2>4. d.this # c.this /\ (c.op = "assign" => d.this # c.other)
      BY <1>7, <2>2, <2>3
    <2> HIDE DEF d
    <2>5. handle'[d.this] = handle[d.this]
      BY <1>2, <1>7, <2>2, <2>4 DEF Shape, ObjectTypes, Transfer
    <2>6. d.this \in alive => d.this \in alive'
      BY <1>2, <2>4
    <2>7. /\ handle[d.this] = None
          /\ d.op = "assign" => d.this \in alive /\ d.other \in Objects /\ d.this # d.other
      BY <2>1 DEF d, Shape, Pending
    <2> QED
      BY <2>1, <2>5, <2>6, <2>7
  <1>14. ASSUME NEW i \in Images PROVE Cardinality(Owners(i))' = Cardinality(Owners(i))
    <2>1. CASE c.op = "assign"
      BY <1>2, <1>7, <2>1, OwnerMoved DEF Shape, ObjectTypes
    <2>2. CASE c.op # "assign"
      BY <1>2, <2>2 DEF Owners
    <2> QED
      BY <2>1, <2>2
  <1> QED
    BY <1>3, <1>6, <1>8, <1>10, <1>11, <1>12, <1>13, <1>14 DEF Shape

\* The loader starts the finalisers of the innermost call.
LEMMA ShapeMark ==
  ASSUME Shape, NEW t \in Threads, calls[t] # <<>>,
         calls' = [calls EXCEPT ![t][Len(calls[t])].unloading = TRUE],
         UNCHANGED <<handle, path, alive>>
  PROVE  /\ Shape'
         /\ Running(t)'
         /\ \A u \in Threads \ {t} : calls'[u] = calls[u]
  <1> DEFINE s == calls[t]
             L == Len(s)
             c == s[L]
             e == [c EXCEPT !.unloading = TRUE]
  <1>1. s \in Seq(Call) /\ s # <<>> /\ L \in Nat \ {0} /\ L \in 1 .. L /\ c \in Call
    BY DEF Shape, ObjectTypes
  <1>2. /\ e \in Call /\ e.this = c.this /\ e.other = c.other /\ e.op = c.op /\ e.unloading = TRUE
        /\ Objs(e) = Objs(c)
    BY <1>1 DEF Call, Objs
  <1> HIDE DEF c, e
  <1>3. calls'[t] = [s EXCEPT ![L] = e] /\ \A u \in Threads \ {t} : calls'[u] = calls[u]
    BY DEF Shape, ObjectTypes, c, e
  <1>4. /\ calls'[t] \in Seq(Call) /\ Len(calls'[t]) = L /\ calls'[t] # <<>> /\ calls'[t][L] = e
        /\ \A n \in 1 .. L : n # L => calls'[t][n] = s[n]
    <2> DEFINE g(n) == IF n = L THEN e ELSE s[n]
               f == [n \in 1 .. L |-> g(n)]
    <2>1. calls'[t] = f
      BY <1>1, <1>3
    <2>2. g(L) = e /\ \A n \in 1 .. L : g(n) \in Call /\ (n # L => g(n) = s[n])
      BY <1>1, <1>2
    <2> HIDE DEF L, s, g
    <2>3. f \in Seq(Call) /\ Len(f) = L /\ \A n \in 1 .. L : f[n] = g(n)
      BY <1>1, <2>2
    <2> HIDE DEF f
    <2>4. f # <<>>
      BY <1>1, <2>3
    <2> QED
      BY <1>1, <2>1, <2>2, <2>3, <2>4
  <1>5. Running(t)'
    BY <1>2, <1>4 DEF Running, Last
  \* Nothing but the mark has changed.
  <1>6. ASSUME NEW q \in Threads, NEW n \in 1 .. Len(calls'[q])
        PROVE  /\ n \in 1 .. Len(calls[q]) /\ Len(calls'[q]) = Len(calls[q])
               /\ calls'[q][n].this = calls[q][n].this /\ calls'[q][n].other = calls[q][n].other
               /\ calls'[q][n].op = calls[q][n].op
               /\ calls[q][n].unloading => calls'[q][n].unloading
               /\ Objs(calls'[q][n]) = Objs(calls[q][n])
    <2>1. CASE q = t /\ n = L
      BY <1>2, <1>4, <2>1 DEF c
    <2>2. CASE ~(q = t /\ n = L)
      BY <1>3, <1>4, <2>2
    <2> QED
      BY <2>1, <2>2
  <1>7. ObjectTypes'
    BY <1>3, <1>4 DEF Shape, ObjectTypes
  <1>8. Nested'
    <2> SUFFICES ASSUME NEW q \in Threads, NEW n \in 1 .. Len(calls'[q]) - 1
                 PROVE  calls'[q][n].unloading
      BY DEF Nested
    <2>1. n \in 1 .. Len(calls'[q]) /\ Len(calls'[q]) = Len(calls[q])
      <3>1. calls'[q] \in Seq(Call) /\ Len(calls'[q]) = Len(calls[q])
        BY <1>3, <1>4, <1>7 DEF ObjectTypes
      <3> QED
        BY <3>1
    <2> QED
      BY <1>6, <2>1 DEF Shape, Nested
  <1>9. Exclusive'
    <2>1. ASSUME NEW q \in Threads, NEW r \in Threads, q # r,
                 NEW n \in 1 .. Len(calls'[q]), NEW m \in 1 .. Len(calls'[r])
          PROVE  Objs(calls'[q][n]) \cap Objs(calls'[r][m]) = {}
      BY <1>6, <2>1 DEF Shape, Exclusive
    <2>2. ASSUME NEW q \in Threads, NEW n \in 1 .. Len(calls'[q]), NEW m \in 1 .. Len(calls'[q]),
                 n < m, calls'[q][n].op # "close"
          PROVE  Objs(calls'[q][n]) \cap Objs(calls'[q][m]) = {}
      <3>1. n \in 1 .. Len(calls[q]) /\ m \in 1 .. Len(calls[q]) /\ calls[q][n].op # "close"
        BY <1>6, <2>2
      <3>2. Objs(calls[q][n]) \cap Objs(calls[q][m]) = {}
        BY <2>2, <3>1 DEF Shape, Exclusive
      <3>3. Objs(calls'[q][n]) = Objs(calls[q][n]) /\ Objs(calls'[q][m]) = Objs(calls[q][m])
        BY <1>6
      <3> QED
        BY <3>2, <3>3
    <2> QED
      BY <2>1, <2>2 DEF Exclusive, Objs
  <1>10. Pending' /\ DeadAreEmpty'
    BY <1>6 DEF Shape, Pending, DeadAreEmpty
  <1> QED
    BY <1>3, <1>5, <1>7, <1>8, <1>9, <1>10 DEF Shape

-----------------------------------------------------------------------------
(* shared_library: the steps. *)

RefTypes == refs \in [Images -> Nat] /\ kept \in [Images -> Nat]

LibInv == Shape /\ RefTypes /\ EveryReferenceOwned /\ PathNamesTheImage

\* The invariant holds before the first object exists.
LEMMA LibInvInitially == LibInit => LibInv
  <1> SUFFICES ASSUME LibInit PROVE LibInv
    OBVIOUS
  <1>1. ObjectTypes /\ RefTypes /\ PathNamesTheImage
    BY DEF LibInit, ObjectTypes, RefTypes, PathNamesTheImage
  <1>2. Nested /\ Exclusive /\ Pending /\ DeadAreEmpty
    BY DEF LibInit, Nested, Exclusive, Pending, DeadAreEmpty
  <1>3. ASSUME NEW i \in Images
        PROVE  refs[i] = Cardinality(Owners(i)) + Cardinality(Closers(i)) + kept[i]
    <2>1. Owners(i) = {} /\ Closers(i) = {}
      BY LibraryAssumption DEF LibInit, Owners, Closers, Running
    <2>2. Cardinality({}) = 0
      BY FS_EmptySet
    <2> QED
      BY <2>1, <2>2 DEF LibInit
  <1> QED
    BY <1>1, <1>2, <1>3 DEF LibInv, Shape, EveryReferenceOwned

\* An object outside every unfinished call may be changed; the stacks, and so
\* the closers, stay.
LEMMA ObjectStep ==
  ASSUME LibInv, NEW t \in Threads, NEW o \in Objects, NEW p \in Objects,
         MayUse(t, o), MayUse(t, p), ObjectTypes', DeadAreEmpty', calls' = calls,
         \A q \in Objects \ {o, p} : handle'[q] = handle[q] /\ (q \in alive => q \in alive')
  PROVE  Shape' /\ \A i \in Images : Closers(i)' = Closers(i)
  <1>1. \A i \in Images : Closers(i)' = Closers(i)
    BY DEF Closers, Running
  <1>2. ASSUME NEW u \in Threads, NEW n \in 1 .. Len(calls[u]), calls[u][n].op # "close"
        PROVE  calls[u][n].this \in Objects \ {o, p}
    <2>1. calls[u][n].this \in Objects
      BY CallTypes DEF LibInv, Shape
    <2>2. o # calls[u][n].this /\ p # calls[u][n].this
      BY <1>2, UsableIsFree DEF LibInv, Shape
    <2> QED
      BY <2>1, <2>2
  <1>3. Shape'
    BY <1>2, ShapeSameCalls DEF LibInv, Shape
  <1> QED
    BY <1>1, <1>3

\* The default constructor: an empty object, no reference.
LEMMA ConstructKeeps ==
  ASSUME LibInv, NEW t \in Threads, NEW o \in Objects, Construct(t, o)
  PROVE  LibInv'
  <1>1. ObjectTypes' /\ DeadAreEmpty' /\ RefTypes' /\ PathNamesTheImage'
    BY DEF Construct, LibInv, Shape, ObjectTypes, DeadAreEmpty, RefTypes, PathNamesTheImage
  <1>2. Shape' /\ \A i \in Images : Closers(i)' = Closers(i)
    BY <1>1, ObjectStep DEF Construct
  <1>3. \A i \in Images : Owners(i)' = Owners(i)
    BY DEF Construct, Owners
  <1>4. EveryReferenceOwned'
    BY <1>2, <1>3 DEF Construct, LibInv, EveryReferenceOwned
  <1> QED
    BY <1>1, <1>2, <1>4 DEF LibInv

\* open(): one reference more, owned by the new object.
LEMMA OpenKeeps ==
  ASSUME LibInv, NEW t \in Threads, NEW o \in Objects, NEW v \in Images, Open(t, o, v)
  PROVE  LibInv'
  <1>1. /\ MayUse(t, o) /\ o \notin alive /\ alive' = alive \cup {o}
        /\ handle' = [handle EXCEPT ![o] = v] /\ path' = [path EXCEPT ![o] = v]
        /\ refs' = [refs EXCEPT ![v] = @ + 1] /\ calls' = calls /\ kept' = kept
    BY DEF Open
  <1>2. ObjectTypes' /\ DeadAreEmpty' /\ RefTypes' /\ PathNamesTheImage'
    BY <1>1 DEF LibInv, Shape, ObjectTypes, DeadAreEmpty, RefTypes, PathNamesTheImage
  <1>3. handle[o] = None /\ handle \in [Objects -> Images \cup {None}]
    BY <1>1 DEF LibInv, Shape, DeadAreEmpty, ObjectTypes
  <1>4. \A q \in Objects \ {o} : handle'[q] = handle[q] /\ (q \in alive => q \in alive')
    BY <1>1, <1>3
  <1>5. Shape' /\ \A i \in Images : Closers(i)' = Closers(i)
    BY <1>1, <1>2, <1>4, ObjectStep
  <1>6. ASSUME NEW i \in Images
        PROVE  refs'[i] = Cardinality(Owners(i))' + Cardinality(Closers(i))' + kept'[i]
    <2>1. Cardinality(Owners(i))' = Cardinality(Owners(i)) + (IF i = v THEN 1 ELSE 0)
      BY <1>1, <1>3, OwnerGained
    <2>2. Cardinality(Owners(i)) \in Nat /\ Cardinality(Closers(i)) \in Nat
      BY OwnersFinite
    <2>3. refs'[i] = refs[i] + (IF i = v THEN 1 ELSE 0) /\ kept[i] \in Nat
      BY <1>1 DEF LibInv, RefTypes
    <2>4. refs[i] = Cardinality(Owners(i)) + Cardinality(Closers(i)) + kept[i]
      BY DEF LibInv, EveryReferenceOwned
    <2>5. Cardinality(Closers(i))' = Cardinality(Closers(i))
      BY <1>5
    <2> QED
      BY <1>1, <2>1, <2>2, <2>3, <2>4, <2>5
  <1> QED
    BY <1>2, <1>5, <1>6 DEF LibInv, EveryReferenceOwned

\* A handle moves into an empty object and no call starts or ends.
LEMMA TransferKeeps ==
  ASSUME LibInv, NEW t \in Threads, NEW o \in Objects, NEW p \in Objects, o # p,
         MayUse(t, o), MayUse(t, p), handle[o] = None, Transfer(o, p),
         alive' = alive \cup {o}, UNCHANGED <<calls, refs, kept>>
  PROVE  LibInv'
  <1>1. handle \in [Objects -> Images \cup {None}] /\ path \in [Objects -> Images \cup {None}]
    BY DEF LibInv, Shape, ObjectTypes
  <1>2. ObjectTypes' /\ DeadAreEmpty' /\ RefTypes' /\ PathNamesTheImage'
    BY DEF Transfer, LibInv, Shape, ObjectTypes, DeadAreEmpty, RefTypes, PathNamesTheImage
  <1>3. \A q \in Objects \ {o, p} : handle'[q] = handle[q] /\ (q \in alive => q \in alive')
    BY <1>1 DEF Transfer
  <1>4. Shape' /\ \A i \in Images : Closers(i)' = Closers(i)
    BY <1>2, <1>3, ObjectStep
  <1>5. \A i \in Images : Cardinality(Owners(i))' = Cardinality(Owners(i))
    BY <1>1, OwnerMoved
  <1>6. EveryReferenceOwned'
    BY <1>4, <1>5 DEF LibInv, EveryReferenceOwned
  <1> QED
    BY <1>2, <1>4, <1>6 DEF LibInv

\* The move constructor: new storage is empty, so it can take the handle over.
LEMMA MoveConstructKeeps ==
  ASSUME LibInv, NEW t \in Threads, NEW o \in Objects, NEW p \in Objects, MoveConstruct(t, o, p)
  PROVE  LibInv'
  <1>1. o # p /\ handle[o] = None
    BY DEF MoveConstruct, LibInv, Shape, DeadAreEmpty
  <1> QED
    BY <1>1, TransferKeeps DEF MoveConstruct

\* Close, the destructor and assignment to an object that has a handle.
LEMMA GiveUpKeeps ==
  ASSUME LibInv, NEW t \in Threads, NEW op \in {"close", "release", "assign"}, NEW o \in Objects,
         NEW p \in Objects \cup {None}, GiveUp(t, op, o, p), o \in alive,
         MayUse(t, o), p \in Objects => MayUse(t, p),
         op = "assign" => p \in Objects /\ o # p
  PROVE  LibInv'
  <1>1. /\ Shape'
        /\ Running(t) /\ ~Running(t)' /\ Last(calls'[t]).image = handle[o]
        /\ \A u \in Threads \ {t} : calls'[u] = calls[u]
    BY ShapePush DEF LibInv
  <1>2. /\ handle \in [Objects -> Images \cup {None}] /\ handle[o] \in Images
        /\ handle' = [handle EXCEPT ![o] = None] /\ refs' = refs /\ kept' = kept
    BY DEF GiveUp, LibInv, Shape, ObjectTypes
  <1>3. RefTypes' /\ PathNamesTheImage'
    BY DEF GiveUp, LibInv, RefTypes, PathNamesTheImage
  <1>4. ASSUME NEW i \in Images
        PROVE  refs'[i] = Cardinality(Owners(i))' + Cardinality(Closers(i))' + kept'[i]
    <2>1. Cardinality(Owners(i)) = Cardinality(Owners(i))' + (IF i = handle[o] THEN 1 ELSE 0)
      BY <1>2, OwnerLost
    <2>2. Cardinality(Closers(i))' = Cardinality(Closers(i)) + (IF i = handle[o] THEN 1 ELSE 0)
      BY <1>1, <1>2, CloserGained
    <2>3. Cardinality(Closers(i)) \in Nat /\ Cardinality(Owners(i))' \in Nat /\ kept[i] \in Nat
      <3>1. Cardinality(Owners(i)') \in Nat
        <4>1. Owners(i)' \subseteq Objects
          BY DEF Owners
        <4> QED
          BY <4>1, FS_Subset, FS_CardinalityType, LibraryAssumption
      <3> QED
        BY <3>1, OwnersFinite DEF LibInv, RefTypes
    <2>4. refs[i] = Cardinality(Owners(i)) + Cardinality(Closers(i)) + kept[i]
      BY DEF LibInv, EveryReferenceOwned
    <2> QED
      BY <1>2, <2>1, <2>2, <2>3, <2>4
  <1> QED
    BY <1>1, <1>3, <1>4 DEF LibInv, EveryReferenceOwned

\* The same calls on an object without a handle: its path is empty already.
LEMMA ClearChangesNothing ==
  ASSUME LibInv, NEW o \in Objects, Clear(o)
  PROVE  path' = path /\ handle[o] = None
  BY DEF Clear, LibInv, PathNamesTheImage, Shape, ObjectTypes

\* Steps of nobody.
LEMMA StutterKeeps ==
  ASSUME LibInv, UNCHANGED libVars
  PROVE  LibInv'
  <1>1. Shape' /\ RefTypes' /\ PathNamesTheImage'
    BY ShapeSameCalls
       DEF libVars, LibInv, Shape, ObjectTypes, DeadAreEmpty, RefTypes, PathNamesTheImage
  <1>2. \A i \in Images : Owners(i)' = Owners(i) /\ Closers(i)' = Closers(i)
    BY DEF libVars, Owners, Closers, Running
  <1>3. EveryReferenceOwned'
    BY <1>2 DEF libVars, LibInv, EveryReferenceOwned
  <1> QED
    BY <1>1, <1>3 DEF LibInv

\* close(), with a handle to give up or without.
LEMMA CloseKeeps ==
  ASSUME LibInv, NEW t \in Threads, NEW o \in Objects, Close(t, o)
  PROVE  LibInv'
  <1>1. CASE GiveUp(t, "close", o, None)
    BY <1>1, GiveUpKeeps, LibraryAssumption DEF Close
  <1>2. CASE Clear(o) /\ UNCHANGED <<handle, alive, calls, refs, kept>>
    BY <1>2, ClearChangesNothing, StutterKeeps DEF libVars
  <1> QED
    BY <1>1, <1>2 DEF Close

\* The destructor, with a handle to give up or without.
LEMMA DestroyKeeps ==
  ASSUME LibInv, NEW t \in Threads, NEW o \in Objects, Destroy(t, o)
  PROVE  LibInv'
  <1>1. CASE GiveUp(t, "release", o, None)
    BY <1>1, GiveUpKeeps, LibraryAssumption DEF Destroy
  <1>2. CASE Clear(o) /\ alive' = alive \ {o} /\ UNCHANGED <<handle, calls, refs, kept>>
    <2>1. MayUse(t, o) /\ path' = path /\ handle[o] = None
      BY <1>2, ClearChangesNothing DEF Destroy
    <2>2. ObjectTypes' /\ DeadAreEmpty' /\ RefTypes' /\ PathNamesTheImage'
      BY <1>2, <2>1 DEF LibInv, Shape, ObjectTypes, DeadAreEmpty, RefTypes, PathNamesTheImage
    <2>3. Shape' /\ \A i \in Images : Closers(i)' = Closers(i)
      BY <1>2, <2>1, <2>2, ObjectStep
    <2>4. \A i \in Images : Owners(i)' = Owners(i)
      BY <1>2 DEF Owners
    <2>5. EveryReferenceOwned'
      BY <1>2, <2>3, <2>4 DEF LibInv, EveryReferenceOwned
    <2> QED
      BY <2>2, <2>3, <2>5 DEF LibInv
  <1> QED
    BY <1>1, <1>2 DEF Destroy

\* operator=, to an object that has a handle or has none.
LEMMA MoveAssignKeeps ==
  ASSUME LibInv, NEW t \in Threads, NEW o \in Objects, NEW p \in Objects, MoveAssign(t, o, p)
  PROVE  LibInv'
  <1>1. MayUse(t, o) /\ MayUse(t, p) /\ o \in alive /\ o # p
    BY DEF MoveAssign
  <1>2. CASE GiveUp(t, "assign", o, p)
    BY <1>1, <1>2, GiveUpKeeps
  <1>3. CASE handle[o] = None /\ Transfer(o, p) /\ UNCHANGED <<alive, calls, refs, kept>>
    BY <1>1, <1>3, TransferKeeps
  <1> QED
    BY <1>2, <1>3 DEF MoveAssign

\* The call of t that waits for the loader is a closer of its image, and when
\* it has given the reference back or kept it, the owners count again.
LEMMA ReturnKeeps ==
  ASSUME LibInv, NEW t \in Threads, ~Running(t), NEW v \in Images, Last(calls[t]).image = v,
         Shape', PathNamesTheImage', Running(t)',
         \A u \in Threads \ {t} : calls'[u] = calls[u],
         \A i \in Images : Cardinality(Owners(i))' = Cardinality(Owners(i)),
         \/ refs' = [refs EXCEPT ![v] = @ - 1] /\ kept' = kept
         \/ refs' = refs /\ kept' = [kept EXCEPT ![v] = @ + 1]
  PROVE  LibInv'
  <1>1. ASSUME NEW i \in Images
        PROVE  /\ Cardinality(Closers(i)) = Cardinality(Closers(i))' + (IF i = v THEN 1 ELSE 0)
               /\ Cardinality(Closers(i))' \in Nat /\ Cardinality(Owners(i)) \in Nat
               /\ refs[i] = Cardinality(Owners(i)) + Cardinality(Closers(i)) + kept[i]
               /\ kept[i] \in Nat /\ refs[i] \in Nat
    <2>1. Closers(i)' \subseteq Threads
      BY DEF Closers
    <2>2. Cardinality(Closers(i)') \in Nat
      BY <2>1, FS_Subset, FS_CardinalityType, LibraryAssumption
    <2> QED
      BY <2>2, CloserLost, OwnersFinite DEF LibInv, EveryReferenceOwned, RefTypes
  <1>2. RefTypes'
    <2>1. refs[v] - 1 \in Nat /\ kept[v] + 1 \in Nat
      BY <1>1
    <2> QED
      BY <2>1 DEF LibInv, RefTypes
  <1>3. ASSUME NEW i \in Images
        PROVE  refs'[i] = Cardinality(Owners(i))' + Cardinality(Closers(i))' + kept'[i]
    <2>1. \/ refs'[i] = refs[i] - (IF i = v THEN 1 ELSE 0) /\ kept'[i] = kept[i]
          \/ refs'[i] = refs[i] /\ kept'[i] = kept[i] + (IF i = v THEN 1 ELSE 0)
      BY DEF LibInv, RefTypes
    <2> QED
      BY <1>1, <2>1
  <1> QED
    BY <1>2, <1>3 DEF LibInv, EveryReferenceOwned

\* A return keeps path and handle together.
LEMMA ReturnPath ==
  ASSUME LibInv, NEW t \in Threads, Return(t)
  PROVE  PathNamesTheImage'
  BY DEF Return, Transfer, LibInv, PathNamesTheImage

\* A call that waits for the loader waits for an image.
LEMMA WaitingCall ==
  ASSUME LibInv, NEW t \in Threads, ~Running(t)
  PROVE  calls[t] # <<>> /\ Last(calls[t]).image \in Images
  <1>1. calls[t] \in Seq(Call) /\ calls[t] # <<>>
    BY DEF LibInv, Shape, ObjectTypes, Running
  <1>2. Last(calls[t]) \in Call
    BY <1>1, PopCalls
  <1> QED
    BY <1>1, <1>2 DEF Call

\* dlclose() takes the reference: the image stays mapped, or its finalisers start.
LEMMA DlcloseKeeps ==
  ASSUME LibInv, NEW t \in Threads, Dlclose(t)
  PROVE  LibInv'
  <1> DEFINE v == Last(calls[t]).image
  <1>1. /\ ~Running(t) /\ calls[t] # <<>> /\ v \in Images
        /\ refs' = [refs EXCEPT ![v] = @ - 1] /\ kept' = kept
    BY WaitingCall DEF Dlclose
  <1>2. CASE refs[v] = 1
    <2>1. /\ calls' = [calls EXCEPT ![t][Len(calls[t])].unloading = TRUE]
          /\ UNCHANGED <<handle, path, alive>>
      BY <1>2 DEF Dlclose
    <2>2. Shape' /\ Running(t)' /\ \A u \in Threads \ {t} : calls'[u] = calls[u]
      BY <1>1, <2>1, ShapeMark DEF LibInv
    <2>3. PathNamesTheImage' /\ \A i \in Images : Cardinality(Owners(i))' = Cardinality(Owners(i))
      BY <2>1 DEF LibInv, PathNamesTheImage, Owners
    <2> QED
      BY <1>1, <2>2, <2>3, ReturnKeeps
  <1>3. CASE refs[v] # 1
    <2>1. Return(t)
      BY <1>3 DEF Dlclose
    <2> QED
      BY <1>1, <2>1, ShapeReturn, ReturnPath, ReturnKeeps DEF LibInv
  <1> QED
    BY <1>2, <1>3

\* dlclose() refuses: the reference stays with nobody to own it.
LEMMA DlcloseFailsKeeps ==
  ASSUME LibInv, NEW t \in Threads, DlcloseFails(t)
  PROVE  LibInv'
  <1> DEFINE v == Last(calls[t]).image
  <1>1. /\ ~Running(t) /\ calls[t] # <<>> /\ v \in Images /\ Return(t)
        /\ refs' = refs /\ kept' = [kept EXCEPT ![v] = @ + 1]
    BY WaitingCall DEF DlcloseFails
  <1> QED
    BY <1>1, ShapeReturn, ReturnPath, ReturnKeeps DEF LibInv

\* dlclose() returns after the finalisers.
LEMMA FinalisersEndKeeps ==
  ASSUME LibInv, NEW t \in Threads, FinalisersEnd(t)
  PROVE  LibInv'
  <1>1. calls[t] # <<>> /\ Running(t) /\ Return(t) /\ refs' = refs /\ kept' = kept
    BY DEF FinalisersEnd, Running
  <1>2. /\ Shape' /\ Running(t)' /\ \A u \in Threads \ {t} : calls'[u] = calls[u]
        /\ \A i \in Images : Cardinality(Owners(i))' = Cardinality(Owners(i))
    BY <1>1, ShapeReturn DEF LibInv
  <1>3. \A i \in Images : Closers(i)' = Closers(i)
    BY <1>1, <1>2, ClosersSame
  <1>4. PathNamesTheImage'
    BY <1>1, ReturnPath
  <1>5. EveryReferenceOwned' /\ RefTypes'
    BY <1>1, <1>2, <1>3 DEF LibInv, EveryReferenceOwned, RefTypes
  <1> QED
    BY <1>2, <1>4, <1>5 DEF LibInv

\* Every step of every thread keeps the invariant.
LEMMA LibInvInductive == LibInv /\ [LibNext]_libVars => LibInv'
  <1> SUFFICES ASSUME LibInv, [LibNext]_libVars PROVE LibInv'
    OBVIOUS
  <1>1. ASSUME NEW t \in Threads, NEW o \in Objects, Construct(t, o) PROVE LibInv'
    BY <1>1, ConstructKeeps
  <1>2. ASSUME NEW t \in Threads, NEW o \in Objects, Close(t, o) PROVE LibInv'
    BY <1>2, CloseKeeps
  <1>3. ASSUME NEW t \in Threads, NEW o \in Objects, Destroy(t, o) PROVE LibInv'
    BY <1>3, DestroyKeeps
  <1>4. ASSUME NEW t \in Threads, NEW o \in Objects, NEW i \in Images, Open(t, o, i) PROVE LibInv'
    BY <1>4, OpenKeeps
  <1>5. ASSUME NEW t \in Threads, NEW o \in Objects, NEW p \in Objects, MoveConstruct(t, o, p)
        PROVE  LibInv'
    BY <1>5, MoveConstructKeeps
  <1>6. ASSUME NEW t \in Threads, NEW o \in Objects, NEW p \in Objects, MoveAssign(t, o, p)
        PROVE  LibInv'
    BY <1>6, MoveAssignKeeps
  <1>7. ASSUME NEW t \in Threads, Dlclose(t) PROVE LibInv'
    BY <1>7, DlcloseKeeps
  <1>8. ASSUME NEW t \in Threads, DlcloseFails(t) PROVE LibInv'
    BY <1>8, DlcloseFailsKeeps
  <1>9. ASSUME NEW t \in Threads, FinalisersEnd(t) PROVE LibInv'
    BY <1>9, FinalisersEndKeeps
  <1>10. CASE UNCHANGED libVars
    BY <1>10, StutterKeeps
  <1> QED
    BY <1>1, <1>2, <1>3, <1>4, <1>5, <1>6, <1>7, <1>8, <1>9, <1>10 DEF LibNext

\* So it holds in every state of every behaviour.
LEMMA LibInvAlways == LibSpec => []LibInv
  BY LibInvInitially, LibInvInductive, PTL DEF LibSpec

-----------------------------------------------------------------------------

\* Objects hold handles and paths, threads stacks of loader calls, and the
\* loader's counts are natural numbers: dlclose() is never called for an image
\* that is not mapped.
THEOREM LibTypeCorrect == LibSpec => []LibTypeOK
  <1>1. LibInv => LibTypeOK
    BY DEF LibInv, Shape, ObjectTypes, RefTypes, LibTypeOK
  <1> QED
    BY <1>1, LibInvAlways, PTL

\* Whatever threads and finalisers do, every reference the loader counts is
\* held by one object, by one call about to give it back, or was refused.
THEOREM ReferencesAreOwned == LibSpec => []EveryReferenceOwned
  BY LibInvAlways, PTL DEF LibInv

\* path() and the handle change together in every operation.
THEOREM PathsNameImages == LibSpec => []PathNamesTheImage
  BY LibInvAlways, PTL DEF LibInv

\* When every object is destroyed and no call is left, the loader holds only
\* the references it refused to give up.
THEOREM UnloadingIsComplete == LibSpec => []UnloadedThroughRAII
  <1>1. ASSUME LibInv, alive = {}, \A t \in Threads : calls[t] = <<>>
        PROVE  refs = kept
    <2>1. ASSUME NEW i \in Images PROVE refs[i] = kept[i]
      <3>1. Owners(i) = {} /\ Closers(i) = {}
        BY <1>1, LibraryAssumption DEF Owners, Closers, Running, LibInv, Shape, DeadAreEmpty
      <3>2. Cardinality({}) = 0
        BY FS_EmptySet
      <3>3. refs[i] = 0 + 0 + kept[i] /\ kept[i] \in Nat
        BY <1>1, <3>1, <3>2 DEF LibInv, EveryReferenceOwned, RefTypes
      <3> QED
        BY <3>3
    <2> QED
      BY <1>1, <2>1 DEF LibInv, RefTypes
  <1>2. LibInv => UnloadedThroughRAII
    BY <1>1 DEF UnloadedThroughRAII
  <1> QED
    BY <1>2, LibInvAlways, PTL

=============================================================================
