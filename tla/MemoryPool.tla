------------------------------ MODULE MemoryPool ------------------------------
(***************************************************************************)
(* Class MemoryPool of module lamia.core: a LIFO free list of equal        *)
(* blocks and a counter.  The pool checks nothing about the pointers it is *)
(* given back, so the clients are part of the model: they return what they *)
(* were handed, or the null pointer.                                       *)
(***************************************************************************)
EXTENDS Integers, FiniteSets, SequencesExt

CONSTANTS
  Clients,     \* the parts of the program that share one pool
  BlockSizes,  \* constructor arguments: block_size ...
  MaxBlocks,   \* ... and the largest block_count
  SizeMod      \* 2^64, the modulus of std::size_t

ASSUME PoolAssumption ==
  /\ BlockSizes \subseteq Nat
  /\ MaxBlocks \in Nat /\ SizeMod \in Nat /\ MaxBlocks < SizeMod

VARIABLES
  blockSize, blockCount, free, used,
  held,    \* held[c]: the blocks client c was handed and has not returned
  reply    \* the result of the last allocate()

poolVars == <<blockSize, blockCount, free, used, held, reply>>

Null == 0

\* Variant: the end of the block instead of its start.
DataEnd(i) == IF blockSize = 0 THEN Null ELSE i + 1

\* The address of the i-th block; an empty vector has no data.
Data(i) == IF blockSize = 0 THEN Null ELSE i

Blocks == 1 .. blockCount

PoolTypeOK ==
  /\ blockSize \in BlockSizes /\ blockCount \in 0 .. MaxBlocks
  /\ free \in Seq(Blocks \cup {Null})
  /\ used \in 0 .. SizeMod - 1
  /\ held \in [Clients -> SUBSET Blocks]
  /\ reply \in Blocks \cup {Null}

PoolInit ==
  /\ blockSize \in BlockSizes /\ blockCount \in 0 .. MaxBlocks
  /\ free = [i \in Blocks |-> Data(i)]
  /\ used = 0
  /\ held = [c \in Clients |-> {}]
  /\ reply = Null

\* Variant: the block stays on the free list.
AllocatePeeks(c) ==
  /\ free # <<>>
  /\ reply' = Last(free) /\ free' = free
  /\ used' = (used + 1) % SizeMod
  /\ held' = [held EXCEPT ![c] = @ \cup ({Last(free)} \ {Null})]
  /\ UNCHANGED <<blockSize, blockCount>>

Allocate(c) ==
  /\ free # <<>>
  /\ reply' = Last(free) /\ free' = Front(free)
  /\ used' = (used + 1) % SizeMod
  /\ held' = [held EXCEPT ![c] = @ \cup ({Last(free)} \ {Null})]
  /\ UNCHANGED <<blockSize, blockCount>>

AllocateEmpty ==
  /\ free = <<>>
  /\ reply' = Null
  /\ UNCHANGED <<blockSize, blockCount, free, used, held>>

\* Variant: the null pointer is put on the free list too.
DeallocateAny(c, p) ==
  /\ p \in held[c] \cup {Null}
  /\ free' = Append(free, p)
  /\ used' = (used - 1) % SizeMod
  /\ held' = [held EXCEPT ![c] = @ \ {p}]
  /\ UNCHANGED <<blockSize, blockCount, reply>>

Deallocate(c, p) ==
  /\ p \in held[c] \cup {Null}
  /\ IF p = Null
     THEN UNCHANGED <<free, used, held>>
     ELSE /\ free' = Append(free, p)
          /\ used' = (used - 1) % SizeMod
          /\ held' = [held EXCEPT ![c] = @ \ {p}]
  /\ UNCHANGED <<blockSize, blockCount, reply>>

PoolNext ==
  \/ \E c \in Clients : Allocate(c)
  \/ AllocateEmpty
  \/ \E c \in Clients, p \in Blocks \cup {Null} : Deallocate(c, p)

PoolSpec == PoolInit /\ [][PoolNext]_poolVars

-----------------------------------------------------------------------------
(* Properties *)

\* Every block is in one place: held by one client or once on the free list
\* (blocks of size zero have no address and are in none).
EveryBlockInOnePlace ==
  /\ blockSize > 0 =>
       /\ IsInjective(free)
       /\ ToSet(free) \cup UNION {held[c] : c \in Clients} = Blocks
       /\ \A c \in Clients : held[c] \cap ToSet(free) = {}
  /\ \A c, d \in Clients : c # d => held[c] \cap held[d] = {}

\* used() never wraps below zero and deallocate(), which is noexcept, never
\* grows the free list beyond what the constructor reserved; pools of empty
\* blocks count allocations they never get back.
UsedIsExact ==
  /\ used + Len(free) = blockCount
  /\ blockSize > 0 => used = Cardinality(UNION {held[c] : c \in Clients})

\* The pool is a block allocator; with block_size 0 it is one without blocks.
Promise == INSTANCE BlockAllocator
  WITH usable <- IF blockSize = 0 THEN {} ELSE Blocks, owned <- held
KeepsPromise == Promise!Spec
=============================================================================
