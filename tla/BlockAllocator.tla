--------------------------- MODULE BlockAllocator ---------------------------
(***************************************************************************)
(* What a pool of equal blocks promises its clients: a block has at most   *)
(* one owner, allocation fails only when every usable block is owned, and  *)
(* a block given back can be handed out again.                             *)
(***************************************************************************)
CONSTANTS
  Clients,
  Null      \* the reply of a failed allocation

VARIABLES
  usable,   \* the blocks of the pool; they never change
  owned,    \* owned[c]: the blocks client c holds
  reply     \* what the last allocation returned

allocVars == <<usable, owned, reply>>

Unowned == {b \in usable : \A c \in Clients : b \notin owned[c]}

Init == owned = [c \in Clients |-> {}] /\ reply = Null

Grant(c) ==
  \E b \in Unowned :
    /\ owned' = [owned EXCEPT ![c] = @ \cup {b}]
    /\ reply' = b
    /\ UNCHANGED usable

Refuse == Unowned = {} /\ reply' = Null /\ UNCHANGED <<usable, owned>>

GiveBack(c) ==
  \E b \in owned[c] :
    /\ owned' = [owned EXCEPT ![c] = @ \ {b}]
    /\ UNCHANGED <<usable, reply>>

Next == \/ \E c \in Clients : Grant(c) \/ GiveBack(c)
        \/ Refuse

Spec == Init /\ [][Next]_allocVars
=============================================================================
