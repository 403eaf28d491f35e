------------------------------ MODULE CoreProofs ------------------------------
(***************************************************************************)
(* Proofs about the two containers of lamia.core: the memory pool, for     *)
(* every number of clients and blocks, and Result<T,E>, for any number of  *)
(* results and values.                                                     *)
(***************************************************************************)
EXTENDS MemoryPool, ResultValue, FiniteSetTheorems, TLAPS

-----------------------------------------------------------------------------
(* The memory pool: the free list as a stack. *)

\* Popping removes the top from the elements, and only it if it occurs once.
LEMMA PopFacts ==
  ASSUME NEW S, NEW s \in Seq(S), s # <<>>
  PROVE  /\ Front(s) \in Seq(S) /\ Len(Front(s)) = Len(s) - 1
         /\ Last(s) \in S
         /\ ToSet(s) = ToSet(Front(s)) \cup {Last(s)}
         /\ IsInjective(s) => IsInjective(Front(s)) /\ Last(s) \notin ToSet(Front(s))
  <1> DEFINE n == Len(s) - 1
             f == [i \in 1 .. n |-> s[i]]
  <1>1. /\ Len(s) \in Nat \ {0} /\ n \in Nat /\ Len(s) = n + 1
        /\ DOMAIN s = 1 .. n + 1 /\ \A i \in 1 .. n + 1 : s[i] \in S
    OBVIOUS
  <1>2. Front(s) = f
    BY <1>1 DEF Front
  <1> HIDE DEF n
  <1>3. f \in Seq(S) /\ Len(f) = n /\ DOMAIN f = 1 .. n
    BY <1>1
  <1>4. Last(s) = s[n + 1]
    BY <1>1 DEF Last
  <1>5. \A i \in 1 .. n + 1 : i \in 1 .. n \/ i = n + 1
    BY <1>1
  <1>6. n + 1 \in 1 .. n + 1 /\ n + 1 \notin 1 .. n /\ 1 .. n \subseteq 1 .. n + 1
    BY <1>1
  <1>7. ToSet(s) = {s[i] : i \in 1 .. n + 1} /\ ToSet(f) = {s[i] : i \in 1 .. n}
    BY <1>1, <1>3 DEF ToSet
  <1>8. ToSet(s) = ToSet(f) \cup {s[n + 1]}
    BY <1>5, <1>6, <1>7
  <1>9. IsInjective(s) => IsInjective(f) /\ s[n + 1] \notin ToSet(f)
    BY <1>1, <1>3, <1>6, <1>7 DEF IsInjective
  <1> QED
    BY <1>1, <1>2, <1>3, <1>4, <1>6, <1>8, <1>9

\* Pushing adds one element, and keeps a list without repetitions so if the
\* element is new.
LEMMA PushFacts ==
  ASSUME NEW S, NEW s \in Seq(S), NEW e \in S
  PROVE  /\ Append(s, e) \in Seq(S) /\ Len(Append(s, e)) = Len(s) + 1
         /\ ToSet(Append(s, e)) = ToSet(s) \cup {e}
         /\ IsInjective(s) /\ e \notin ToSet(s) => IsInjective(Append(s, e))
  <1> DEFINE n == Len(s)
             t == Append(s, e)
  <1>1. n \in Nat /\ DOMAIN s = 1 .. n /\ t \in Seq(S) /\ Len(t) = n + 1
    OBVIOUS
  <1>2. DOMAIN t = 1 .. n + 1 /\ t[n + 1] = e /\ \A i \in 1 .. n : t[i] = s[i]
    BY <1>1
  <1> HIDE DEF n, t
  <1>3. /\ \A i \in 1 .. n + 1 : i \in 1 .. n \/ i = n + 1
        /\ n + 1 \in 1 .. n + 1 /\ 1 .. n \subseteq 1 .. n + 1
    BY <1>1
  <1>4. ToSet(t) = ToSet(s) \cup {e}
    <2>1. ToSet(t) = {t[i] : i \in 1 .. n + 1} /\ ToSet(s) = {s[i] : i \in 1 .. n}
      BY <1>1, <1>2 DEF ToSet
    <2> QED
      BY <2>1, <1>2, <1>3
  <1>5. IsInjective(s) /\ e \notin ToSet(s) => IsInjective(t)
    BY <1>1, <1>2, <1>3 DEF IsInjective, ToSet
  <1> QED
    BY <1>1, <1>4, <1>5 DEF n, t

-----------------------------------------------------------------------------
(* The inductive invariant. *)

AllHeld == UNION {held[c] : c \in Clients}

\* Blocks without bytes have no address, so nobody can hold one.
EmptyBlocksHaveNoAddress ==
  /\ blockSize = 0 => ToSet(free) \subseteq {Null} /\ \A c \in Clients : held[c] = {}
  /\ blockSize > 0 => Null \notin ToSet(free)

PoolInv ==
  PoolTypeOK /\ EveryBlockInOnePlace /\ UsedIsExact /\ EmptyBlocksHaveNoAddress

\* The pool invariant holds of a pool just constructed.
LEMMA PoolInitInv == PoolInit => PoolInv
  <1> SUFFICES ASSUME PoolInit PROVE PoolInv
    OBVIOUS
  <1>1. /\ blockSize \in Nat /\ blockCount \in Nat /\ blockCount <= MaxBlocks
        /\ blockSize \in BlockSizes /\ blockCount \in 0 .. MaxBlocks
        /\ free = [i \in Blocks |-> Data(i)] /\ used = 0 /\ reply = Null
        /\ held = [c \in Clients |-> {}]
    BY PoolAssumption DEF PoolInit
  <1>2. \A i \in Blocks : Data(i) \in Blocks \cup {Null}
    BY DEF Data
  <1>3. free \in Seq(Blocks \cup {Null}) /\ Len(free) = blockCount /\ DOMAIN free = Blocks
    BY <1>1, <1>2 DEF Blocks
  <1>4. AllHeld = {} /\ \A c \in Clients : held[c] = {}
    BY <1>1 DEF AllHeld
  <1>5. PoolTypeOK
    BY <1>1, <1>3, PoolAssumption DEF PoolTypeOK
  <1>6. UsedIsExact
    <2>1. Cardinality(AllHeld) = 0
      BY <1>4, FS_EmptySet
    <2>2. used + Len(free) = blockCount /\ used = Cardinality(AllHeld)
      BY <1>1, <1>3, <2>1
    <2> QED
      BY <2>2 DEF UsedIsExact, AllHeld
  <1>7. ToSet(free) = {Data(i) : i \in Blocks}
    BY <1>1, <1>3 DEF ToSet
  <1>8. EmptyBlocksHaveNoAddress
    BY <1>1, <1>4, <1>7 DEF EmptyBlocksHaveNoAddress, Data, Null, Blocks
  <1>9. EveryBlockInOnePlace
    <2>1. ASSUME blockSize > 0 PROVE IsInjective(free) /\ ToSet(free) = Blocks
      <3>1. \A i \in Blocks : Data(i) = i
        BY <1>1, <2>1 DEF Data
      <3>2. \A i \in Blocks : free[i] = i
        BY <1>1, <3>1
      <3>3. IsInjective(free)
        BY <1>3, <3>2 DEF IsInjective
      <3>4. ToSet(free) = Blocks
        BY <1>7, <3>1
      <3> QED
        BY <3>3, <3>4
    <2> QED
      BY <1>4, <2>1 DEF EveryBlockInOnePlace, AllHeld
  <1> QED
    BY <1>5, <1>6, <1>8, <1>9 DEF PoolInv

\* allocate() moves one block from the free list to the caller.
LEMMA AllocateInv ==
  ASSUME PoolInv, NEW c \in Clients, Allocate(c)
  PROVE  PoolInv'
  <1> DEFINE b == Last(free)
             S == Blocks \cup {Null}
  <1>1. /\ free \in Seq(S) /\ free # <<>> /\ Len(free) \in Nat
        /\ used \in Nat /\ used + Len(free) = blockCount /\ blockCount \in Nat
        /\ blockCount <= MaxBlocks /\ blockSize \in Nat
        /\ held \in [Clients -> SUBSET Blocks]
    BY PoolAssumption DEF PoolInv, PoolTypeOK, UsedIsExact, Allocate
  <1>2. /\ Front(free) \in Seq(S) /\ Len(Front(free)) = Len(free) - 1 /\ b \in S
        /\ ToSet(free) = ToSet(Front(free)) \cup {b}
        /\ IsInjective(free) => IsInjective(Front(free)) /\ b \notin ToSet(Front(free))
    BY <1>1, PopFacts
  <1>3. /\ free' = Front(free) /\ reply' = b /\ used' = (used + 1) % SizeMod
        /\ held' = [held EXCEPT ![c] = @ \cup ({b} \ {Null})]
        /\ blockSize' = blockSize /\ blockCount' = blockCount
    BY DEF Allocate
  <1> HIDE DEF b
  <1>4. Blocks' = Blocks /\ Null \notin Blocks
    BY <1>3 DEF Blocks, Null
  <1>5. used' = used + 1
    <2>1. Len(free) > 0
      BY <1>1
    <2>2. used + 1 \in 0 .. SizeMod - 1 /\ SizeMod \in Nat \ {0}
      BY <1>1, <2>1, PoolAssumption
    <2> QED
      BY <1>3, <2>2
  <1>6. used' + Len(free') = blockCount'
    BY <1>1, <1>2, <1>3, <1>5
  <1>7. PoolTypeOK'
    <2>1. used' \in 0 .. SizeMod - 1
      BY <1>1, <1>2, <1>3, <1>5, <1>6, PoolAssumption
    <2>2. held' \in [Clients -> SUBSET Blocks]
      BY <1>1, <1>2, <1>3
    <2> QED
      BY <1>2, <1>3, <1>4, <2>1, <2>2 DEF PoolTypeOK, PoolInv
  <1>8. CASE blockSize = 0
    <2>1. b = Null /\ ToSet(free') \subseteq {Null}
      BY <1>2, <1>3, <1>8 DEF PoolInv, EmptyBlocksHaveNoAddress
    <2>2. held' = held
      BY <1>1, <1>3, <2>1
    <2> QED
      BY <1>3, <1>6, <1>7, <1>8, <2>1, <2>2
      DEF PoolInv, EmptyBlocksHaveNoAddress, EveryBlockInOnePlace, UsedIsExact
  <1>9. CASE blockSize > 0
    <2>1. /\ IsInjective(free) /\ Null \notin ToSet(free)
          /\ ToSet(free) \cup AllHeld = Blocks
          /\ \A d \in Clients : held[d] \cap ToSet(free) = {}
          /\ \A d, e \in Clients : d # e => held[d] \cap held[e] = {}
          /\ used = Cardinality(AllHeld)
      BY <1>9 DEF PoolInv, EveryBlockInOnePlace, EmptyBlocksHaveNoAddress, UsedIsExact, AllHeld
    <2>2. b \in ToSet(free) /\ b # Null /\ b \notin AllHeld
      BY <1>2, <2>1 DEF AllHeld
    <2>3. \A d \in Clients : held'[d] = IF d = c THEN held[d] \cup {b} ELSE held[d]
      BY <1>1, <1>3, <2>2
    <2>4. AllHeld' = AllHeld \cup {b}
      BY <2>3 DEF AllHeld
    <2>5. used' = Cardinality(AllHeld')
      <3>1. IsFiniteSet(Blocks)
        BY <1>1, FS_Interval DEF Blocks
      <3>2. IsFiniteSet(AllHeld)
        BY <2>1, <3>1, FS_Subset
      <3> QED
        BY <1>5, <2>1, <2>2, <2>4, <3>2, FS_AddElement
    <2>6. EveryBlockInOnePlace'
      <3>1. IsInjective(free') /\ ToSet(free) = ToSet(free') \cup {b} /\ b \notin ToSet(free')
        BY <1>2, <1>3, <2>1
      <3>2. ToSet(free') \cup AllHeld' = Blocks'
        BY <1>4, <2>1, <2>4, <3>1
      <3>3. \A d \in Clients : held'[d] \cap ToSet(free') = {}
        <4> SUFFICES ASSUME NEW d \in Clients PROVE held'[d] \cap ToSet(free') = {}
          OBVIOUS
        <4>1. held[d] \cap ToSet(free) = {}
          BY <2>1
        <4>2. held'[d] \subseteq held[d] \cup {b}
          BY <2>3
        <4> QED
          BY <3>1, <4>1, <4>2, Zenon
      <3>4. \A d, e \in Clients : d # e => held'[d] \cap held'[e] = {}
        BY <2>1, <2>2, <2>3 DEF AllHeld
      <3> QED
        BY <3>1, <3>2, <3>3, <3>4 DEF EveryBlockInOnePlace, AllHeld
    <2>7. EmptyBlocksHaveNoAddress'
      BY <1>2, <1>3, <1>9, <2>1 DEF EmptyBlocksHaveNoAddress
    <2>8. UsedIsExact'
      BY <1>6, <2>5 DEF UsedIsExact, AllHeld
    <2> QED
      BY <1>7, <2>6, <2>7, <2>8 DEF PoolInv
  <1> QED
    BY <1>1, <1>8, <1>9

\* deallocate() moves a block back, or does nothing for the null pointer.
LEMMA DeallocateInv ==
  ASSUME PoolInv, NEW c \in Clients, NEW p, Deallocate(c, p)
  PROVE  PoolInv'
  <1> DEFINE S == Blocks \cup {Null}
  <1>1. /\ free \in Seq(S) /\ Len(free) \in Nat
        /\ used \in Nat /\ used + Len(free) = blockCount /\ blockCount \in Nat
        /\ blockCount <= MaxBlocks /\ blockSize \in Nat
        /\ held \in [Clients -> SUBSET Blocks] /\ reply \in S
    BY PoolAssumption DEF PoolInv, PoolTypeOK, UsedIsExact
  <1>2. blockSize' = blockSize /\ blockCount' = blockCount /\ reply' = reply
    BY DEF Deallocate
  <1>3. Blocks' = Blocks /\ Null \notin Blocks
    BY <1>2 DEF Blocks, Null
  <1>4. CASE p = Null
    <2>1. UNCHANGED <<free, used, held>>
      BY <1>4 DEF Deallocate
    <2> QED
      BY <1>2, <1>3, <2>1
      DEF PoolInv, PoolTypeOK, EveryBlockInOnePlace, UsedIsExact, EmptyBlocksHaveNoAddress
  <1>5. CASE p # Null
    <2>1. /\ p \in held[c] /\ p \in Blocks
          /\ free' = Append(free, p) /\ used' = (used - 1) % SizeMod
          /\ held' = [held EXCEPT ![c] = @ \ {p}]
      BY <1>1, <1>5 DEF Deallocate
    <2>2. blockSize > 0
      BY <1>1, <2>1 DEF PoolInv, EmptyBlocksHaveNoAddress
    <2>3. /\ IsInjective(free) /\ Null \notin ToSet(free)
          /\ ToSet(free) \cup AllHeld = Blocks
          /\ \A d \in Clients : held[d] \cap ToSet(free) = {}
          /\ \A d, e \in Clients : d # e => held[d] \cap held[e] = {}
          /\ used = Cardinality(AllHeld)
      BY <2>2 DEF PoolInv, EveryBlockInOnePlace, EmptyBlocksHaveNoAddress, UsedIsExact, AllHeld
    <2>4. /\ free' \in Seq(S) /\ Len(free') = Len(free) + 1
          /\ ToSet(free') = ToSet(free) \cup {p}
          /\ IsInjective(free) /\ p \notin ToSet(free) => IsInjective(free')
      BY <1>1, <2>1, PushFacts
    <2>5. p \notin ToSet(free) /\ p \in AllHeld
      BY <2>1, <2>3 DEF AllHeld
    <2>6. \A d \in Clients : held'[d] = IF d = c THEN held[d] \ {p} ELSE held[d]
      BY <1>1, <2>1
    <2>7. AllHeld' = AllHeld \ {p}
      <3>1. \A d \in Clients : p \in held[d] => d = c
        BY <2>1, <2>3
      <3> QED
        BY <2>6, <3>1 DEF AllHeld
    <2>8. used' = used - 1 /\ used > 0 /\ used' = Cardinality(AllHeld')
      <3>1. IsFiniteSet(Blocks)
        BY <1>1, FS_Interval DEF Blocks
      <3>2. IsFiniteSet(AllHeld)
        BY <2>3, <3>1, FS_Subset
      <3>3. Cardinality(AllHeld \ {p}) = Cardinality(AllHeld) - 1
        BY <2>5, <3>2, FS_RemoveElement
      <3>4. Cardinality(AllHeld \ {p}) \in Nat
        BY <3>2, FS_Subset, FS_CardinalityType
      <3>5. used - 1 \in 0 .. SizeMod - 1 /\ SizeMod \in Nat \ {0}
        BY <1>1, <2>3, <3>3, <3>4, PoolAssumption
      <3> QED
        <4>1. used > 0 /\ (used - 1) % SizeMod = used - 1
          BY <1>1, <3>5
        <4> QED
          BY <2>1, <2>3, <2>7, <3>3, <4>1
    <2>9. used' + Len(free') = blockCount'
      BY <1>1, <1>2, <2>4, <2>8
    <2>10. PoolTypeOK'
      <3>1. used' \in 0 .. SizeMod - 1
        BY <1>1, <2>8, PoolAssumption DEF PoolInv, PoolTypeOK
      <3>2. held' \in [Clients -> SUBSET Blocks]
        BY <1>1, <2>1
      <3> QED
        BY <1>1, <1>2, <1>3, <2>4, <3>1, <3>2 DEF PoolTypeOK, PoolInv
    <2>11. EveryBlockInOnePlace'
      <3>1. IsInjective(free')
        BY <2>3, <2>4, <2>5
      <3>2. ToSet(free') \cup AllHeld' = Blocks'
        BY <1>3, <2>3, <2>4, <2>5, <2>7
      <3>3. \A d \in Clients : held'[d] \cap ToSet(free') = {}
        <4> SUFFICES ASSUME NEW d \in Clients PROVE held'[d] \cap ToSet(free') = {}
          OBVIOUS
        <4>1. held[d] \cap ToSet(free) = {} /\ held'[d] \subseteq held[d]
          BY <2>3, <2>6
        <4>2. p \notin held'[d]
          <5>1. CASE d = c
            BY <2>6, <5>1
          <5>2. CASE d # c
            <6>1. held[d] \cap held[c] = {} /\ held'[d] = held[d]
              BY <2>3, <2>6, <5>2
            <6> QED
              BY <2>1, <6>1, Zenon
          <5> QED
            BY <5>1, <5>2
        <4> QED
          BY <2>4, <4>1, <4>2, Zenon
      <3>4. \A d, e \in Clients : d # e => held'[d] \cap held'[e] = {}
        BY <2>3, <2>6
      <3> QED
        BY <3>1, <3>2, <3>3, <3>4 DEF EveryBlockInOnePlace, AllHeld
    <2>12. EmptyBlocksHaveNoAddress'
      BY <1>1, <1>2, <1>5, <2>2, <2>3, <2>4 DEF EmptyBlocksHaveNoAddress
    <2>13. UsedIsExact'
      BY <2>8, <2>9 DEF UsedIsExact, AllHeld
    <2> QED
      BY <2>10, <2>11, <2>12, <2>13 DEF PoolInv
  <1> QED
    BY <1>4, <1>5

\* The pool keeps its invariant whatever its clients do.
LEMMA PoolInductive == PoolInv /\ [PoolNext]_poolVars => PoolInv'
  <1> SUFFICES ASSUME PoolInv, [PoolNext]_poolVars PROVE PoolInv'
    OBVIOUS
  <1>1. ASSUME NEW c \in Clients, Allocate(c) PROVE PoolInv'
    BY <1>1, AllocateInv
  <1>2. CASE AllocateEmpty
    BY <1>2 DEF AllocateEmpty, PoolInv, PoolTypeOK, EveryBlockInOnePlace, UsedIsExact,
                EmptyBlocksHaveNoAddress, Blocks
  <1>3. ASSUME NEW c \in Clients, NEW p \in Blocks \cup {Null}, Deallocate(c, p) PROVE PoolInv'
    BY <1>3, DeallocateInv
  <1>4. CASE UNCHANGED poolVars
    BY <1>4 DEF poolVars, PoolInv, PoolTypeOK, EveryBlockInOnePlace, UsedIsExact,
                EmptyBlocksHaveNoAddress, Blocks
  <1> QED
    BY <1>1, <1>2, <1>3, <1>4 DEF PoolNext

-----------------------------------------------------------------------------
(* The theorems. *)

\* The variables stay in their types: used() is a std::size_t and the free
\* list holds only addresses of this pool's blocks or the null pointer.
THEOREM PoolTypeCorrect == PoolSpec => []PoolTypeOK
  <1>1. PoolInv => PoolTypeOK
    BY DEF PoolInv
  <1> QED
    BY PoolInitInv, PoolInductive, <1>1, PTL DEF PoolSpec

\* No block is ever handed to two clients, or handed out while on the free list.
THEOREM BlocksAreNotShared == PoolSpec => []EveryBlockInOnePlace
  <1>1. PoolInv => EveryBlockInOnePlace
    BY DEF PoolInv
  <1> QED
    BY PoolInitInv, PoolInductive, <1>1, PTL DEF PoolSpec

\* used() is the number of blocks handed out and never wraps.
THEOREM UsedCorrect == PoolSpec => []UsedIsExact
  <1>1. PoolInv => UsedIsExact
    BY DEF PoolInv
  <1> QED
    BY PoolInitInv, PoolInductive, <1>1, PTL DEF PoolSpec

\* The pool refines the abstract allocator: it hands out a block nobody owns,
\* and returns the null pointer only when there is no such block.
THEOREM PoolKeepsPromise == PoolSpec => KeepsPromise
  <1> DEFINE U == Promise!Unowned
  <1>1. PoolInit => Promise!Init
    BY DEF PoolInit, Promise!Init
  <1>2. ASSUME PoolInv, PoolNext PROVE [Promise!Next]_Promise!allocVars
    <2>1. /\ U = {b \in (IF blockSize = 0 THEN {} ELSE Blocks) : b \notin AllHeld}
          /\ held \in [Clients -> SUBSET Blocks] /\ Null \notin Blocks
          /\ blockSize \in Nat
      BY <1>2, PoolAssumption
      DEF PoolInv, PoolTypeOK, AllHeld, Promise!Unowned, Null, Blocks
    <2>2. blockSize > 0 => ToSet(free) \cup AllHeld = Blocks /\ Null \notin ToSet(free)
      BY <1>2 DEF PoolInv, EveryBlockInOnePlace, EmptyBlocksHaveNoAddress, AllHeld
    <2>3. blockSize = 0 => ToSet(free) \subseteq {Null} /\ \A c \in Clients : held[c] = {}
      BY <1>2 DEF PoolInv, EmptyBlocksHaveNoAddress
    <2>4. \A c \in Clients : held[c] \cap ToSet(free) = {} \/ blockSize = 0
      BY <1>2, <2>1 DEF PoolInv, EveryBlockInOnePlace
    <2>5. ASSUME NEW c \in Clients, Allocate(c) PROVE Promise!Next
      <3> DEFINE b == Last(free)
      <3>1. /\ b \in ToSet(free) /\ reply' = b
            /\ held' = [held EXCEPT ![c] = @ \cup ({b} \ {Null})]
            /\ blockSize' = blockSize /\ blockCount' = blockCount
        <4>1. free \in Seq(Blocks \cup {Null}) /\ free # <<>>
          BY <1>2, <2>5 DEF PoolInv, PoolTypeOK, Allocate
        <4>2. ToSet(free) = ToSet(Front(free)) \cup {Last(free)}
          BY <4>1, PopFacts
        <4> QED
          BY <2>5, <4>2 DEF Allocate
      <3> HIDE DEF b
      <3>2. CASE blockSize = 0
        <4>1. b = Null /\ U = {}
          BY <2>1, <2>3, <3>1, <3>2
        <4>2. held' = held
          BY <2>1, <3>1, <4>1
        <4> QED
          BY <3>1, <4>1, <4>2 DEF Promise!Next, Promise!Refuse, Blocks
      <3>3. CASE blockSize # 0
        <4>1. b # Null /\ b \in Blocks /\ b \notin AllHeld
          BY <2>1, <2>2, <2>4, <3>1, <3>3 DEF AllHeld
        <4>2. b \in U
          BY <2>1, <3>3, <4>1
        <4>3. held' = [held EXCEPT ![c] = @ \cup {b}]
          BY <3>1, <4>1
        <4>4. Promise!Grant(c)
          BY <3>1, <4>2, <4>3 DEF Promise!Grant, Blocks
        <4> QED
          BY <4>4 DEF Promise!Next
      <3> QED
        BY <3>2, <3>3
    <2>6. CASE AllocateEmpty
      <3>1. free = <<>> /\ ToSet(free) = {}
        BY <2>6 DEF AllocateEmpty, ToSet
      <3>2. U = {}
        BY <2>1, <2>2, <3>1
      <3> QED
        BY <2>6, <3>2 DEF AllocateEmpty, Promise!Next, Promise!Refuse, Blocks
    <2>7. ASSUME NEW c \in Clients, NEW p \in Blocks \cup {Null}, Deallocate(c, p)
          PROVE  [Promise!Next]_Promise!allocVars
      <3>1. CASE p = Null
        BY <2>7, <3>1 DEF Deallocate, Promise!allocVars, Blocks
      <3>2. CASE p # Null
        BY <2>7, <3>2 DEF Deallocate, Promise!Next, Promise!GiveBack, Blocks
      <3> QED
        BY <3>1, <3>2
    <2> QED
      BY <1>2, <2>5, <2>6, <2>7 DEF PoolNext
  <1>3. UNCHANGED poolVars => UNCHANGED Promise!allocVars
    BY DEF poolVars, Promise!allocVars, Blocks
  <1>4. PoolInv /\ [PoolNext]_poolVars => [Promise!Next]_Promise!allocVars
    BY <1>2, <1>3
  <1> QED
    BY PoolInitInv, PoolInductive, <1>1, <1>4, PTL DEF PoolSpec, KeepsPromise, Promise!Spec

-----------------------------------------------------------------------------
(* Result<T,E> *)

\* The flags and the union agree, for every object ...
ActiveAreObjects == \A r \in Results : active[r] => r \in existing
FilledHaveMembers == \A r \in filled \cap Full : active[r]
MembersAsFlagged ==
  \A r \in Results : living[r] = IF HasMember(r) THEN With(None, r, 1) ELSE None
ContentHasMember == \A r \in Results : content[r] # "empty" => HasMember(r)

\* ... and a value is with the host or in one result.
OneOwner(h, c) ==
  \A r \in Results : c[r] \in Values =>
    c[r] \notin h /\ \A q \in Results : c[q] = c[r] => q = r

ResultInv ==
  /\ ResultTypeOK
  /\ ActiveAreObjects /\ FilledHaveMembers /\ MembersAsFlagged /\ ContentHasMember
  /\ OneOwner(host, content)

-----------------------------------------------------------------------------
(* The union *)

\* A member that was constructed and destroyed leaves nothing.
LEMMA WithCancels ==
  ASSUME NEW r
  PROVE  /\ With(None, r, 1) \in [value : Int, err : Int] /\ None \in [value : Int, err : Int]
         /\ With(With(None, r, 1), r, -1) = None
<1>1. None \in [value : Int, err : Int]
  BY DEF None
<1>2. With(None, r, 1) = IF isOk[r] THEN [value |-> 1, err |-> 0] ELSE [value |-> 0, err |-> 1]
  BY DEF With, None
<1>3. With(With(None, r, 1), r, -1) = None
  <2>1. CASE isOk[r]
    <3>1. With([value |-> 1, err |-> 0], r, -1) = [value |-> 0, err |-> 0]
      BY <2>1 DEF With
    <3> QED BY <1>2, <2>1, <3>1 DEF None
  <2>2. CASE ~isOk[r]
    <3>1. With([value |-> 0, err |-> 1], r, -1) = [value |-> 0, err |-> 0]
      BY <2>2 DEF With
    <3> QED BY <1>2, <2>2, <3>1 DEF None
  <2> QED BY <2>1, <2>2
<1> QED BY <1>1, <1>2, <1>3

\* destroy() leaves nothing alive.
LEMMA DestroyedIsNone ==
  ASSUME ResultInv, NEW r \in Results
  PROVE  Destroyed(r) = None
BY WithCancels DEF ResultInv, MembersAsFlagged, Destroyed

\* Storage without an object has neither member nor content.
LEMMA NoObject ==
  ASSUME ResultInv, NEW r \in Results, r \notin existing
  PROVE  ~active[r] /\ ~HasMember(r) /\ living[r] = None /\ content[r] = "empty"
BY DEF ResultInv, ActiveAreObjects, MembersAsFlagged, ContentHasMember, HasMember

\* "empty" is no value.
LEMMA EmptyIsNoValue == "empty" \notin Values /\ "empty" \notin Results
BY ResultAssumption

-----------------------------------------------------------------------------
(* Steps *)

\* At first there are no objects.
LEMMA ResultInitInv == ResultInit => ResultInv
<1> SUFFICES ASSUME ResultInit PROVE ResultInv
  OBVIOUS
<1>1. ResultTypeOK
  BY WithCancels DEF ResultInit, ResultTypeOK
<1>2. \A r \in Results : ~active[r] /\ ~HasMember(r) /\ living[r] = None /\ content[r] = "empty"
  BY DEF ResultInit, HasMember
<1>3. OneOwner(host, content)
  BY <1>2, EmptyIsNoValue DEF OneOwner
<1>4. ActiveAreObjects /\ FilledHaveMembers /\ MembersAsFlagged /\ ContentHasMember
  BY <1>2 DEF ActiveAreObjects, FilledHaveMembers, MembersAsFlagged, ContentHasMember,
              ResultInit
<1> QED BY <1>1, <1>3, <1>4 DEF ResultInv

\* The default constructor makes an object without a member.
LEMMA ResultStep ==
  ASSUME ResultInv, NEW r \in Results, Result(r)
  PROVE  ResultInv'
<1>1. ResultTypeOK'
  BY DEF ResultInv, ResultTypeOK, Result
<1>2. ~active[r] /\ ~HasMember(r) /\ living[r] = None /\ content[r] = "empty"
  BY NoObject DEF Result
<1>3. /\ active' = active /\ living' = living /\ content' = content /\ host' = host
      /\ filled' = filled /\ existing \subseteq existing'
      /\ \A q \in Results \ {r} : isOk'[q] = isOk[q]
  BY <1>2 DEF Result, ResultInv, ResultTypeOK
<1>4. \A q \in Results : HasMember(q)' <=> HasMember(q)
  BY <1>2, <1>3 DEF HasMember
<1>5. ActiveAreObjects' /\ FilledHaveMembers' /\ ContentHasMember'
  BY <1>3, <1>4 DEF ResultInv, ActiveAreObjects, FilledHaveMembers, ContentHasMember
<1>6. MembersAsFlagged'
  BY <1>2, <1>3, <1>4 DEF ResultInv, MembersAsFlagged, With
<1>7. OneOwner(host', content')
  BY <1>3 DEF ResultInv
<1> QED BY <1>1, <1>5, <1>6, <1>7 DEF ResultInv

\* ok() and err() make an object with the member its flags name.
LEMMA FactoryStep ==
  ASSUME ResultInv, NEW r \in Results, NEW v \in Values, Ok(r, v) \/ Err(r, v)
  PROVE  ResultInv'
<1>1. ~active[r] /\ ~HasMember(r) /\ living[r] = None /\ content[r] = "empty"
  BY NoObject DEF Ok, Err, Make
<1>2. /\ r \notin existing /\ existing' = existing \cup {r} /\ filled' = filled \cup {r}
      /\ v \in host /\ host' = host \ {v} /\ content' = [content EXCEPT ![r] = v]
      /\ active' = [active EXCEPT ![r] = TRUE]
  BY DEF Ok, Err, Make
<1>3. /\ isOk' \in [Results -> BOOLEAN]
      /\ isOk'[r] => r \in Full
      /\ \A q \in Results \ {r} : isOk'[q] = isOk[q]
      /\ living' = [living EXCEPT ![r] = With(None, r, 1)']
  <2>1. CASE Ok(r, v)
    BY <1>1, <2>1 DEF Ok, Make, ResultInv, ResultTypeOK, With, None
  <2>2. CASE Err(r, v)
    BY <1>1, <2>2 DEF Err, Make, ResultInv, ResultTypeOK, With, None
  <2> QED BY <2>1, <2>2
<1>4. With(None, r, 1)' \in [value : Int, err : Int]
  BY DEF With, None
<1>5. ResultTypeOK'
  BY <1>2, <1>3, <1>4 DEF ResultInv, ResultTypeOK
<1>6. HasMember(r)' /\ \A q \in Results \ {r} : HasMember(q)' <=> HasMember(q)
  BY <1>2, <1>3 DEF HasMember, ResultInv, ResultTypeOK
<1>7. ActiveAreObjects' /\ FilledHaveMembers' /\ ContentHasMember'
  BY <1>2, <1>6
     DEF ResultInv, ResultTypeOK, ActiveAreObjects, FilledHaveMembers, ContentHasMember
<1>8. MembersAsFlagged'
  BY <1>3, <1>6 DEF ResultInv, ResultTypeOK, MembersAsFlagged, With
<1>9. OneOwner(host', content')
  BY <1>2 DEF ResultInv, ResultTypeOK, OneOwner
<1> QED BY <1>5, <1>7, <1>8, <1>9 DEF ResultInv

\* ok() of Result<void,E> makes an active object without a member.
LEMMA OkVoidStep ==
  ASSUME ResultInv, NEW r \in Results, OkVoid(r)
  PROVE  ResultInv'
<1>1. ~active[r] /\ ~HasMember(r) /\ living[r] = None /\ content[r] = "empty"
  BY NoObject DEF OkVoid, Make
<1>2. /\ existing' = existing \cup {r} /\ filled' = filled \cup {r} /\ r \notin Full
      /\ living' = living /\ content' = content /\ host' = host
      /\ active' = [active EXCEPT ![r] = TRUE] /\ isOk' = [isOk EXCEPT ![r] = TRUE]
  BY DEF OkVoid, Make, Full
<1>3. ResultTypeOK'
  BY <1>2 DEF ResultInv, ResultTypeOK
<1>4. /\ \A q \in Results : HasMember(q)' <=> HasMember(q)
      /\ \A q \in Results \ {r} : isOk'[q] = isOk[q]
  BY <1>1, <1>2 DEF HasMember, ResultInv, ResultTypeOK
<1>5. ActiveAreObjects' /\ FilledHaveMembers' /\ ContentHasMember'
  BY <1>2, <1>4
     DEF ResultInv, ResultTypeOK, ActiveAreObjects, FilledHaveMembers, ContentHasMember
<1>6. MembersAsFlagged'
  BY <1>1, <1>2, <1>4 DEF ResultInv, MembersAsFlagged, With
<1>7. OneOwner(host', content')
  BY <1>2 DEF ResultInv
<1> QED BY <1>3, <1>5, <1>6, <1>7 DEF ResultInv

\* A move takes the member over, flags and all, from s to t, in which nothing
\* is alive.
LEMMA TransferStep ==
  ASSUME ResultInv, NEW s \in Results, NEW t \in Results, s # t, s \in existing,
         s \in Voids <=> t \in Voids,
         Transfer(s, t, None), Refilled(s, t), existing' = existing \cup {t}
  PROVE  ResultInv'
<1>1. /\ isOk \in [Results -> BOOLEAN] /\ active \in [Results -> BOOLEAN]
      /\ living \in [Results -> [value : Int, err : Int]]
      /\ content \in [Results -> Values \cup {"empty"}]
  BY DEF ResultInv, ResultTypeOK
<1>2. /\ isOk' = [isOk EXCEPT ![t] = isOk[s]]
      /\ active' = [active EXCEPT ![t] = active[s], ![s] = @ /\ ~HasMember(s)]
      /\ host' = host
  BY DEF Transfer
<1>3. /\ isOk' \in [Results -> BOOLEAN] /\ active' \in [Results -> BOOLEAN]
      /\ isOk'[t] = isOk[s] /\ active'[t] = active[s]
      /\ active'[s] = (active[s] /\ ~HasMember(s))
      /\ \A q \in Results \ {t} : isOk'[q] = isOk[q]
      /\ \A q \in Results \ {s, t} : active'[q] = active[q]
  <2>1. HasMember(s) \in BOOLEAN
    BY DEF HasMember
  <2> QED BY <1>1, <1>2, <2>1
<1>4. /\ HasMember(t)' <=> HasMember(s)
      /\ ~HasMember(s)'
      /\ \A q \in Results \ {s, t} : HasMember(q)' <=> HasMember(q)
  BY <1>3 DEF HasMember, Full
<1>5. living[s] = IF HasMember(s) THEN With(None, s, 1) ELSE None
  BY DEF ResultInv, MembersAsFlagged
<1>6. /\ living' = [living EXCEPT ![t] = IF HasMember(s) THEN With(None, s, 1) ELSE None,
                                  ![s] = None]
      /\ content' = [content EXCEPT ![t] = content[s], ![s] = "empty"]
  <2>1. CASE HasMember(s)
    BY <1>1, <1>5, <2>1, WithCancels DEF Transfer
  <2>2. CASE ~HasMember(s)
    <3>1. content[s] = "empty" /\ living[s] = None
      BY <1>5, <2>2 DEF ResultInv, ContentHasMember
    <3> QED BY <1>1, <2>2, <3>1 DEF Transfer
  <2> QED BY <2>1, <2>2
<1>7. ResultTypeOK'
  <2>1. living' \in [Results -> [value : Int, err : Int]]
    BY <1>1, <1>6, WithCancels
  <2>2. content' \in [Results -> Values \cup {"empty"}]
    BY <1>1, <1>6
  <2>3. filled' \subseteq existing' /\ existing' \subseteq Results /\ host' \subseteq Values
    BY <1>2 DEF Refilled, ResultInv, ResultTypeOK
  <2> QED BY <1>3, <2>1, <2>2, <2>3 DEF ResultTypeOK
<1>8. ActiveAreObjects'
  BY <1>3 DEF ResultInv, ActiveAreObjects
<1>9. FilledHaveMembers'
  <2> SUFFICES ASSUME NEW q \in filled' \cap Full PROVE active'[q]
    BY DEF FilledHaveMembers
  <2>1. CASE q = t
    <3>1. s \in filled \cap Full
      BY <2>1 DEF Refilled, Full
    <3> QED BY <1>3, <2>1, <3>1 DEF ResultInv, FilledHaveMembers
  <2>2. CASE q # t
    <3>1. q \in filled \cap Full /\ (q = s => s \notin filled)
      BY <2>2 DEF Refilled
    <3> QED BY <1>3, <2>2, <3>1 DEF ResultInv, FilledHaveMembers, Full
  <2> QED BY <2>1, <2>2
<1>10. MembersAsFlagged'
  <2> SUFFICES ASSUME NEW q \in Results
               PROVE  living'[q] = IF HasMember(q)' THEN With(None, q, 1)' ELSE None
    BY DEF MembersAsFlagged, None
  <2>1. CASE q = t
    BY <1>1, <1>3, <1>4, <1>6, <2>1 DEF With
  <2>2. CASE q = s
    BY <1>1, <1>4, <1>6, <2>2
  <2>3. CASE q \notin {s, t}
    BY <1>1, <1>3, <1>4, <1>6, <2>3 DEF ResultInv, MembersAsFlagged, With
  <2> QED BY <2>1, <2>2, <2>3
<1>11. ContentHasMember'
  BY <1>1, <1>4, <1>6 DEF ResultInv, ContentHasMember
<1>12. OneOwner(host', content')
  BY <1>1, <1>2, <1>6, EmptyIsNoValue DEF ResultInv, OneOwner
<1> QED BY <1>7, <1>8, <1>9, <1>10, <1>11, <1>12 DEF ResultInv

\* A move constructor works on storage without an object, an assignment on an
\* object it has destroyed.
LEMMA MoveIsTransfer ==
  ASSUME ResultInv, NEW s \in Results, NEW t \in Results,
         MoveConstruct(s, t) \/ MoveAssign(s, t)
  PROVE  /\ s # t /\ s \in existing /\ (s \in Voids <=> t \in Voids)
         /\ Transfer(s, t, None) /\ Refilled(s, t) /\ existing' = existing \cup {t}
<1>1. CASE MoveConstruct(s, t)
  BY <1>1, NoObject DEF MoveConstruct
<1>2. CASE MoveAssign(s, t)
  BY <1>2, DestroyedIsNone DEF MoveAssign, Full
<1> QED BY <1>1, <1>2

\* Taking a value leaves an empty member.
LEMMA TakeStep ==
  ASSUME ResultInv, NEW r \in Results, Take(r)
  PROVE  ResultInv'
<1>1. content \in [Results -> Values \cup {"empty"}] /\ content[r] \in Values
  BY DEF ResultInv, ResultTypeOK, Take
<1>2. /\ host' = host \cup {content[r]} /\ content' = [content EXCEPT ![r] = "empty"]
      /\ UNCHANGED <<existing, isOk, active, living, filled>>
  BY DEF Take, flags
<1>3. ResultTypeOK'
  BY <1>1, <1>2 DEF ResultInv, ResultTypeOK
<1>4. ActiveAreObjects' /\ FilledHaveMembers' /\ MembersAsFlagged'
  BY <1>2 DEF ResultInv, ActiveAreObjects, FilledHaveMembers, MembersAsFlagged, HasMember,
              With, None
<1>5. ContentHasMember'
  BY <1>1, <1>2 DEF ResultInv, ContentHasMember, HasMember
<1>6. OneOwner(host', content')
  BY <1>1, <1>2, EmptyIsNoValue DEF ResultInv, OneOwner
<1> QED BY <1>3, <1>4, <1>5, <1>6 DEF ResultInv

\* The destructor destroys the member, if there is one.
LEMMA DestroyStep ==
  ASSUME ResultInv, NEW r \in Results, Destroy(r)
  PROVE  ResultInv'
<1>1. /\ isOk \in [Results -> BOOLEAN] /\ active \in [Results -> BOOLEAN]
      /\ living \in [Results -> [value : Int, err : Int]]
      /\ content \in [Results -> Values \cup {"empty"}]
  BY DEF ResultInv, ResultTypeOK
<1>2. /\ existing' = existing \ {r} /\ living' = [living EXCEPT ![r] = None]
      /\ active' = [active EXCEPT ![r] = FALSE] /\ content' = [content EXCEPT ![r] = "empty"]
      /\ filled' = filled \ {r} /\ isOk' = isOk /\ host' = host
  BY DestroyedIsNone DEF Destroy
<1>3. ResultTypeOK'
  BY <1>1, <1>2, WithCancels DEF ResultInv, ResultTypeOK
<1>4. ~HasMember(r)' /\ \A q \in Results \ {r} : HasMember(q)' <=> HasMember(q)
  BY <1>1, <1>2 DEF HasMember
<1>5. ActiveAreObjects' /\ FilledHaveMembers' /\ ContentHasMember'
  BY <1>1, <1>2, <1>4
     DEF ResultInv, ActiveAreObjects, FilledHaveMembers, ContentHasMember, Full
<1>6. MembersAsFlagged'
  BY <1>1, <1>2, <1>4 DEF ResultInv, MembersAsFlagged, With, None
<1>7. OneOwner(host', content')
  BY <1>1, <1>2, EmptyIsNoValue DEF ResultInv, OneOwner
<1> QED BY <1>3, <1>5, <1>6, <1>7 DEF ResultInv

\* New values are nowhere else.
LEMMA RenewStep ==
  ASSUME ResultInv, NEW v \in Values, Renew(v)
  PROVE  ResultInv'
<1>1. /\ host' = host \cup {v} /\ \A r \in Results : content[r] # v
      /\ UNCHANGED <<existing, isOk, active, living, content, filled>>
  BY DEF Renew, flags
<1>2. ResultTypeOK'
  BY <1>1 DEF ResultInv, ResultTypeOK
<1>3. ActiveAreObjects' /\ FilledHaveMembers' /\ MembersAsFlagged' /\ ContentHasMember'
  BY <1>1 DEF ResultInv, ActiveAreObjects, FilledHaveMembers, MembersAsFlagged,
              ContentHasMember, HasMember, With, None
<1>4. OneOwner(host', content')
  BY <1>1 DEF ResultInv, OneOwner
<1> QED BY <1>2, <1>3, <1>4 DEF ResultInv

\* Every step keeps the invariant.
LEMMA ResultStepInv == ResultInv /\ [ResultNext]_resultVars => ResultInv'
<1> SUFFICES ASSUME ResultInv, [ResultNext]_resultVars PROVE ResultInv'
  OBVIOUS
<1>1. CASE \E r \in Results : Result(r) \/ OkVoid(r) \/ Take(r) \/ Destroy(r)
  BY <1>1, ResultStep, OkVoidStep, TakeStep, DestroyStep
<1>2. CASE \E r \in Results, v \in Values : Ok(r, v) \/ Err(r, v)
  BY <1>2, FactoryStep
<1>3. CASE \E s, t \in Results : MoveConstruct(s, t) \/ MoveAssign(s, t)
  BY <1>3, MoveIsTransfer, TransferStep
<1>4. CASE \E v \in Values : Renew(v)
  BY <1>4, RenewStep
<1>5. CASE UNCHANGED resultVars
  BY <1>5 DEF resultVars, flags, ResultInv, ResultTypeOK, ActiveAreObjects,
              FilledHaveMembers, MembersAsFlagged, ContentHasMember, HasMember, With, None
<1> QED BY <1>1, <1>2, <1>3, <1>4, <1>5 DEF ResultNext

\* The invariant holds of every behaviour.
THEOREM ResultInvariant == ResultSpec => []ResultInv
BY ResultInitInv, ResultStepInv, PTL DEF ResultSpec

\* For every number of results: no member of a Result's union leaks, none is
\* destroyed twice, and unwrap_or() reads only members that are alive.
THEOREM MembersLive == ResultSpec => []MembersLiveOnce
<1>1. ASSUME ResultInv PROVE MembersLiveOnce
  <2> SUFFICES ASSUME NEW r \in Results
      PROVE /\ living[r] = IF r \in existing /\ HasMember(r) THEN With(None, r, 1) ELSE None
            /\ r \in filled \cap Full => living[r] = With(None, r, 1)
            /\ r \in Full /\ UnwrapOr(r) # "default" => living[r].value = 1
    BY DEF MembersLiveOnce
  <2>1. living[r] = IF HasMember(r) THEN With(None, r, 1) ELSE None
    BY <1>1 DEF ResultInv, MembersAsFlagged
  <2>2. HasMember(r) => r \in existing
    BY <1>1 DEF ResultInv, ActiveAreObjects, HasMember
  <2>3. r \in filled \cap Full => HasMember(r)
    BY <1>1 DEF ResultInv, FilledHaveMembers, HasMember
  <2>4. r \in Full /\ UnwrapOr(r) # "default" => HasMember(r) /\ isOk[r]
    BY DEF UnwrapOr, HasMember
  <2>5. isOk[r] => With(None, r, 1).value = 1
    BY DEF With, None
  <2> QED BY <2>1, <2>2, <2>3, <2>4, <2>5
<1> QED BY <1>1, ResultInvariant, PTL

-----------------------------------------------------------------------------
(* Results implement the single ownership of values. *)

PlaceOf(h, c) ==
  [v \in Values |->
     IF v \in h THEN "host"
     ELSE IF \E r \in Results : c[r] = v THEN CHOOSE r \in Results : c[r] = v ELSE "gone"]

\* With one owner, the abstract place of a value is that owner.
LEMMA PlaceFacts ==
  ASSUME NEW h, NEW c, OneOwner(h, c)
  PROVE  /\ PlaceOf(h, c) = [v \in Values |-> PlaceOf(h, c)[v]]
         /\ \A v \in Values :
              /\ v \in h <=> PlaceOf(h, c)[v] = "host"
              /\ \A r \in Results : c[r] = v <=> PlaceOf(h, c)[v] = r
              /\ PlaceOf(h, c)[v] \in Results \cup {"host", "gone"}
<1>1. PlaceOf(h, c) = [v \in Values |-> PlaceOf(h, c)[v]]
  BY DEF PlaceOf
<1>2. ASSUME NEW v \in Values
      PROVE  /\ v \in h <=> PlaceOf(h, c)[v] = "host"
             /\ \A r \in Results : c[r] = v <=> PlaceOf(h, c)[v] = r
             /\ PlaceOf(h, c)[v] \in Results \cup {"host", "gone"}
  <2> DEFINE p == PlaceOf(h, c)[v]
  <2>1. "host" \notin Results /\ "gone" \notin Results
    BY ResultAssumption
  <2>2. CASE v \in h
    <3>1. p = "host"
      BY <2>2 DEF PlaceOf
    <3>2. \A r \in Results : c[r] # v
      BY <2>2 DEF OneOwner
    <3> QED BY <2>1, <2>2, <3>1, <3>2
  <2>3. CASE v \notin h /\ \E r \in Results : c[r] = v
    <3>1. p = CHOOSE r \in Results : c[r] = v
      BY <2>3 DEF PlaceOf
    <3>2. p \in Results /\ c[p] = v
      BY <2>3, <3>1
    <3>3. \A r \in Results : c[r] = v => r = p
      BY <3>2 DEF OneOwner
    <3> QED BY <2>1, <2>3, <3>2, <3>3
  <2>4. CASE v \notin h /\ ~\E r \in Results : c[r] = v
    <3>1. p = "gone"
      BY <2>4 DEF PlaceOf
    <3> QED BY <2>1, <2>4, <3>1
  <2> QED BY <2>2, <2>3, <2>4
<1> QED BY <1>1, <1>2

\* The same of the place the refinement mapping gives.
PlaceSeen ==
  /\ Place = [v \in Values |-> Place[v]]
  /\ \A v \in Values :
       /\ v \in host <=> Place[v] = "host"
       /\ \A r \in Results : content[r] = v <=> Place[v] = r
       /\ Place[v] \in Results \cup {"host", "gone"}

LEMMA PlaceIsSeen == ResultInv => PlaceSeen
<1>1. Place = PlaceOf(host, content)
  BY DEF Place, PlaceOf
<1>2. ResultInv => OneOwner(host, content)
  BY DEF ResultInv
<1> QED BY <1>1, <1>2, PlaceFacts DEF PlaceSeen

\* A value is nowhere else, and none of these places is another.
LEMMA PlacesDiffer == {"host", "gone", "empty"} \cap (Results \cup Values) = {}
BY ResultAssumption

\* Construction creates.
LEMMA CreateRefined ==
  ASSUME ResultInv, PlaceSeen, PlaceSeen', NEW r \in Results,
         \/ Result(r) \/ OkVoid(r)
         \/ \E v \in Values : Ok(r, v) \/ Err(r, v)
  PROVE  Owner!Create(r)
<1>1. r \notin existing /\ existing' = existing \cup {r}
  BY DEF Result, OkVoid, Ok, Err, Make
<1>2. CASE Result(r) \/ OkVoid(r)
  <2>1. Place' = Place
    BY <1>2 DEF Result, OkVoid, Place
  <2> QED BY <1>1, <2>1 DEF Owner!Create
<1>3. ASSUME NEW v \in Values, Ok(r, v) \/ Err(r, v) PROVE Owner!Create(r)
  <2>1. /\ v \in host /\ host' = host \ {v} /\ content' = [content EXCEPT ![r] = v]
        /\ content \in [Results -> Values \cup {"empty"}] /\ content[r] = "empty"
    BY <1>1, <1>3, NoObject DEF Ok, Err, ResultInv, ResultTypeOK
  <2>2. Place[v] = "host" /\ Place'[v] = r
    BY <2>1 DEF PlaceSeen
  <2>3. ASSUME NEW u \in Values, u # v PROVE Place'[u] = Place[u]
    <3>1. content[r] # u /\ (u \in host' <=> u \in host)
      BY <2>1, <2>3, PlacesDiffer
    <3>2. \A q \in Results : content'[q] = u <=> content[q] = u
      BY <2>1, <2>3, <3>1
    <3>3. /\ \A q \in Results : Place'[u] = q <=> Place[u] = q
          /\ Place'[u] = "host" <=> Place[u] = "host"
          /\ Place[u] \in Results \cup {"host", "gone"}
          /\ Place'[u] \in Results \cup {"host", "gone"}
      BY <3>1, <3>2 DEF PlaceSeen
    <3> QED BY <3>3
  <2>4. Place' = [u \in Values |-> Place'[u]] /\ Place = [u \in Values |-> Place[u]]
    BY DEF PlaceSeen
  <2>5. Place' = [Place EXCEPT ![v] = r]
    BY <2>2, <2>3, <2>4
  <2>6. v \in Owner!Held(Owner!Host)
    BY <2>2 DEF Owner!Held, Owner!Host
  <2> QED BY <1>1, <2>5, <2>6 DEF Owner!Create
<1> QED BY <1>2, <1>3

\* A change of owner that can be read off host and content.
LEMMA PlaceFollows ==
  ASSUME PlaceSeen, PlaceSeen', NEW f, f = [v \in Values |-> f[v]],
         \A v \in Values :
           /\ f[v] \in Results \cup {"host", "gone"}
           /\ f[v] = "host" <=> v \in host'
           /\ \A q \in Results : f[v] = q <=> content'[q] = v
  PROVE  Place' = f
<1>1. ASSUME NEW v \in Values PROVE Place'[v] = f[v]
  <2>1. /\ Place'[v] \in Results \cup {"host", "gone"}
        /\ f[v] \in Results \cup {"host", "gone"}
        /\ Place'[v] = "host" <=> f[v] = "host"
        /\ \A q \in Results : Place'[v] = q <=> f[v] = q
    BY DEF PlaceSeen
  <2> QED BY <2>1
<1>2. Place' = [v \in Values |-> Place'[v]]
  BY DEF PlaceSeen
<1> QED BY <1>1, <1>2

\* Moves construct or assign.
LEMMA MoveRefined ==
  ASSUME ResultInv, PlaceSeen, PlaceSeen', NEW s \in Results, NEW t \in Results, s # t,
         Transfer(s, t, None)
  PROVE  Owner!Moved(s, t)
<1> DEFINE f == [v \in Values |-> IF Place[v] = t THEN "gone"
                                  ELSE IF Place[v] = s THEN t ELSE Place[v]]
<1>1. host' = host /\ content \in [Results -> Values \cup {"empty"}]
  BY DEF Transfer, ResultInv, ResultTypeOK
<1>2. content' = [content EXCEPT ![t] = content[s], ![s] = "empty"]
  <2>1. ~HasMember(s) => content[s] = "empty"
    BY DEF ResultInv, ContentHasMember
  <2> QED BY <1>1, <2>1 DEF Transfer
<1>3. /\ content'[t] = content[s] /\ content'[s] = "empty"
      /\ \A q \in Results \ {s, t} : content'[q] = content[q]
  BY <1>1, <1>2
<1>4. ASSUME NEW v \in Values
      PROVE  /\ f[v] \in Results \cup {"host", "gone"}
             /\ f[v] = "host" <=> v \in host'
             /\ \A q \in Results : f[v] = q <=> content'[q] = v
  <2>1. /\ v # "empty" /\ "host" \notin Results /\ "gone" \notin Results
    BY PlacesDiffer
  <2>2. /\ v \in host <=> Place[v] = "host"
        /\ \A r \in Results : content[r] = v <=> Place[v] = r
        /\ Place[v] \in Results \cup {"host", "gone"}
    BY DEF PlaceSeen
  <2>3. CASE Place[v] = t
    <3>1. f[v] = "gone"
      BY <2>3
    <3>2. v \notin host' /\ \A q \in Results : content'[q] # v
      BY <1>1, <1>3, <2>1, <2>2, <2>3
    <3> QED BY <2>1, <3>1, <3>2
  <2>4. CASE Place[v] = s
    <3>1. f[v] = t
      BY <2>4
    <3>2. v \notin host' /\ content'[t] = v /\ \A q \in Results \ {t} : content'[q] # v
      BY <1>1, <1>3, <2>1, <2>2, <2>4
    <3> QED BY <2>1, <3>1, <3>2
  <2>5. CASE Place[v] # s /\ Place[v] # t
    <3>1. f[v] = Place[v]
      BY <2>5
    <3>2. content'[t] # v /\ content'[s] # v
      BY <1>3, <2>1, <2>2, <2>5
    <3> QED BY <1>1, <1>3, <2>1, <2>2, <2>5, <3>1, <3>2
  <2> QED BY <2>3, <2>4, <2>5
<1>5. f = [v \in Values |-> f[v]]
  OBVIOUS
<1> HIDE DEF f
<1>6. Place' = f
  BY <1>4, <1>5, PlaceFollows
<1> QED BY <1>6 DEF f, Owner!Moved, Owner!Gone

\* Taking and destroying are the abstract steps of these names.
LEMMA EndRefined ==
  ASSUME ResultInv, PlaceSeen, PlaceSeen', NEW r \in Results, Take(r) \/ Destroy(r)
  PROVE  Owner!Take(r) \/ Owner!Destroy(r)
<1>1. content \in [Results -> Values \cup {"empty"}]
  BY DEF ResultInv, ResultTypeOK
<1>2. CASE Take(r)
  <2> DEFINE f == [v \in Values |-> IF Place[v] = r THEN "host" ELSE Place[v]]
  <2>1. /\ host' = host \cup {content[r]} /\ content' = [content EXCEPT ![r] = "empty"]
        /\ r \in existing /\ existing' = existing
    BY <1>2 DEF Take, ResultInv, ResultTypeOK
  <2>2. ASSUME NEW v \in Values
        PROVE  /\ f[v] \in Results \cup {"host", "gone"}
               /\ f[v] = "host" <=> v \in host'
               /\ \A q \in Results : f[v] = q <=> content'[q] = v
    BY <1>1, <2>1, PlacesDiffer DEF PlaceSeen
  <2>3. f = [v \in Values |-> f[v]]
    OBVIOUS
  <2> HIDE DEF f
  <2>4. Place' = f
    BY <2>2, <2>3, PlaceFollows
  <2> QED BY <2>1, <2>4 DEF f, Owner!Take, Owner!Host
<1>3. CASE Destroy(r)
  <2> DEFINE f == [v \in Values |-> IF Place[v] = r THEN "gone" ELSE Place[v]]
  <2>1. /\ host' = host /\ content' = [content EXCEPT ![r] = "empty"]
        /\ r \in existing /\ existing' = existing \ {r}
    BY <1>3 DEF Destroy
  <2>2. ASSUME NEW v \in Values
        PROVE  /\ f[v] \in Results \cup {"host", "gone"}
               /\ f[v] = "host" <=> v \in host'
               /\ \A q \in Results : f[v] = q <=> content'[q] = v
    BY <1>1, <2>1, PlacesDiffer DEF PlaceSeen
  <2>3. f = [v \in Values |-> f[v]]
    OBVIOUS
  <2> HIDE DEF f
  <2>4. Place' = f
    BY <2>2, <2>3, PlaceFollows
  <2> QED BY <2>1, <2>4 DEF f, Owner!Destroy, Owner!Gone
<1> QED BY <1>2, <1>3

\* A new value comes to the host.
LEMMA RenewRefined ==
  ASSUME ResultInv, PlaceSeen, PlaceSeen', NEW w \in Values, Renew(w)
  PROVE  Owner!Renew
<1> DEFINE f == [Place EXCEPT ![w] = "host"]
<1>1. /\ host' = host \cup {w} /\ content' = content /\ existing' = existing
      /\ w \notin host /\ \A q \in Results : content[q] # w
  BY DEF Renew
<1>2. Place[w] = "gone"
  BY <1>1 DEF PlaceSeen
<1>3. f = [v \in Values |-> IF v = w THEN "host" ELSE Place[v]]
  BY DEF PlaceSeen
<1>4. ASSUME NEW v \in Values
      PROVE  /\ f[v] \in Results \cup {"host", "gone"}
             /\ f[v] = "host" <=> v \in host'
             /\ \A q \in Results : f[v] = q <=> content'[q] = v
  BY <1>1, <1>3, PlacesDiffer DEF PlaceSeen
<1>5. f = [v \in Values |-> f[v]]
  BY <1>3
<1>6. f = [Place EXCEPT ![w] = "host"]
  OBVIOUS
<1> HIDE DEF f
<1>7. Place' = f
  BY <1>4, <1>5, PlaceFollows
<1>8. w \in Owner!Held(Owner!Gone)
  BY <1>2 DEF Owner!Held, Owner!Gone
<1> QED BY <1>1, <1>6, <1>7, <1>8 DEF Owner!Renew, Owner!Host

\* Result<T,E> implements single ownership: through factories, moves, assignments
\* and accesses a value is in one place, and gone only with the object that held it.
THEOREM ValuesAreKept == ResultSpec => KeepsValues
<1>1. ResultInit => Owner!Init
  <2> SUFFICES ASSUME ResultInit PROVE Owner!Init
    OBVIOUS
  <2>1. Place = [v \in Values |-> "host"]
    BY DEF Place, ResultInit
  <2> QED BY <2>1 DEF ResultInit, Owner!Init, Owner!Nowhere, Owner!Host
<1>2. ASSUME ResultInv, PlaceSeen, PlaceSeen', [ResultNext]_resultVars
      PROVE  [Owner!Next]_<<existing, Place>>
  <2>1. ASSUME NEW r \in Results,
               \/ Result(r) \/ OkVoid(r)
               \/ \E v \in Values : Ok(r, v) \/ Err(r, v)
        PROVE  Owner!Next
    BY <1>2, <2>1, CreateRefined DEF Owner!Next
  <2>2. ASSUME NEW s \in Results, NEW t \in Results, MoveConstruct(s, t) \/ MoveAssign(s, t)
        PROVE  Owner!Next
    <3>1. s # t /\ s \in existing /\ Transfer(s, t, None)
      BY <1>2, <2>2, MoveIsTransfer
    <3>2. Owner!Moved(s, t)
      BY <1>2, <3>1, MoveRefined
    <3>3. CASE MoveConstruct(s, t)
      BY <3>2, <3>3 DEF MoveConstruct, Owner!Construct, Owner!Next
    <3>4. CASE MoveAssign(s, t)
      BY <3>2, <3>4 DEF MoveAssign, Owner!Assign, Owner!Next
    <3> QED BY <2>2, <3>3, <3>4
  <2>3. ASSUME NEW r \in Results, Take(r) \/ Destroy(r) PROVE Owner!Next
    BY <1>2, <2>3, EndRefined DEF Owner!Next
  <2>4. ASSUME NEW v \in Values, Renew(v) PROVE Owner!Next
    BY <1>2, <2>4, RenewRefined DEF Owner!Next
  <2>5. CASE UNCHANGED resultVars
    BY <2>5 DEF resultVars, Place
  <2> QED BY <1>2, <2>1, <2>2, <2>3, <2>4, <2>5 DEF ResultNext
<1> QED
  BY <1>1, <1>2, ResultInvariant, PlaceIsSeen, PTL DEF ResultSpec, KeepsValues, Owner!Spec
===============================================================================
