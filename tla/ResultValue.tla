------------------------------ MODULE ResultValue ------------------------------
(***************************************************************************)
(* Class Result<T,E> of module lamia.core and its specialisation           *)
(* Result<void,E>: a union with two flags that say which member lives.     *)
(* The language checks neither, so the model counts, for every object and  *)
(* each member of its union, constructions less destructions.              *)
(***************************************************************************)
EXTENDS Integers

CONSTANTS
  Results,  \* storage for objects of class Result ...
  Voids,    \* ... among them those of Result<void,E>
  Values    \* what the host puts into results

ASSUME ResultAssumption ==
  /\ Voids \subseteq Results
  /\ {"host", "gone", "empty"} \cap (Results \cup Values) = {}

VARIABLES
  existing,      \* storage that holds an object
  isOk, active,  \* the flags; is_err_ of Result<void,E> is ~isOk
  living,        \* living[r].value, living[r].err: members of the union alive
  content,       \* what the live member holds; "empty" when it was moved from
  host,          \* values the host has
  filled         \* results the host made and has not moved from

flags == <<isOk, active>>
resultVars == <<existing, flags, living, content, host, filled>>

Full == Results \ Voids
None == [value |-> 0, err |-> 0]

ResultInit ==
  /\ existing = {}
  /\ isOk = [r \in Results |-> TRUE] /\ active = [r \in Results |-> FALSE]
  /\ living = [r \in Results |-> None]
  /\ content = [r \in Results |-> "empty"]
  /\ host = Values /\ filled = {}

-----------------------------------------------------------------------------
(* Construction *)

Result(r) ==
  /\ r \notin existing /\ existing' = existing \cup {r}
  /\ isOk' = [isOk EXCEPT ![r] = TRUE] /\ active' = [active EXCEPT ![r] = FALSE]
  /\ UNCHANGED <<living, content, host, filled>>

\* The factories ok() and err() construct a result, then the member, then set
\* the flags; a move constructor of T that throws leaves nothing behind.
Make(r, ok) ==
  /\ r \notin existing /\ existing' = existing \cup {r}
  /\ isOk' = [isOk EXCEPT ![r] = ok] /\ active' = [active EXCEPT ![r] = TRUE]
  /\ filled' = filled \cup {r}

Ok(r, v) ==
  /\ r \in Full /\ v \in host
  /\ Make(r, TRUE)
  /\ living' = [living EXCEPT ![r].value = @ + 1]
  /\ content' = [content EXCEPT ![r] = v] /\ host' = host \ {v}

OkVoid(r) ==
  /\ r \in Voids
  /\ Make(r, TRUE)
  /\ UNCHANGED <<living, content, host>>

Err(r, v) ==
  /\ v \in host
  /\ Make(r, FALSE)
  /\ living' = [living EXCEPT ![r].err = @ + 1]
  /\ content' = [content EXCEPT ![r] = v] /\ host' = host \ {v}

-----------------------------------------------------------------------------
(* Moves.  The member of t is constructed from that of s, which is destroyed. *)

\* Whether the object has a member to move or to destroy.
HasMember(r) == active[r] /\ (r \in Full \/ ~isOk[r])

With(n, r, d) ==
  IF isOk[r] THEN [n EXCEPT !.value = @ + d] ELSE [n EXCEPT !.err = @ + d]

\* destroy(): what lives in r afterwards.
Destroyed(r) == IF HasMember(r) THEN With(living[r], r, -1) ELSE living[r]

\* Variant: the source stays active.
TransferKeeps(s, t, before) ==
  /\ isOk' = [isOk EXCEPT ![t] = isOk[s]]
  /\ active' = [active EXCEPT ![t] = active[s]]
  /\ IF HasMember(s)
     THEN /\ living' = [living EXCEPT ![t] = With(before, s, 1), ![s] = With(@, s, -1)]
          /\ content' = [content EXCEPT ![t] = content[s], ![s] = "empty"]
     ELSE /\ living' = [living EXCEPT ![t] = before]
          /\ content' = [content EXCEPT ![t] = "empty"]
  /\ UNCHANGED host

\* Only a result that gives a member away becomes inactive.
Transfer(s, t, before) ==
  /\ isOk' = [isOk EXCEPT ![t] = isOk[s]]
  /\ active' = [active EXCEPT ![t] = active[s], ![s] = @ /\ ~HasMember(s)]
  /\ IF HasMember(s)
     THEN /\ living' = [living EXCEPT ![t] = With(before, s, 1), ![s] = With(@, s, -1)]
          /\ content' = [content EXCEPT ![t] = content[s], ![s] = "empty"]
     ELSE /\ living' = [living EXCEPT ![t] = before]
          /\ content' = [content EXCEPT ![t] = "empty"]
  /\ UNCHANGED host

\* The host knows what it has moved.
Refilled(s, t) ==
  filled' = IF s \in filled THEN (filled \ {s}) \cup {t} ELSE filled \ {t}

MoveConstruct(s, t) ==
  /\ s \in existing /\ t \notin existing /\ (s \in Voids <=> t \in Voids)
  /\ existing' = existing \cup {t}
  /\ Transfer(s, t, living[t])
  /\ Refilled(s, t)

\* Variant: without the test for self-assignment, which then destroys the value.
MoveAssignSelf(s, t) ==
  /\ s \in existing /\ t \in existing /\ s \in Full /\ t \in Full
  /\ IF s = t
     THEN /\ living' = [living EXCEPT ![t] = Destroyed(t)]
          /\ active' = [active EXCEPT ![t] = FALSE]
          /\ content' = [content EXCEPT ![t] = "empty"]
          /\ UNCHANGED <<isOk, host, filled>>
     ELSE Transfer(s, t, Destroyed(t)) /\ Refilled(s, t)
  /\ UNCHANGED existing

\* Result<void,E> has no assignment; assigning a result to itself does nothing.
MoveAssign(s, t) ==
  /\ s \in existing /\ t \in existing /\ s \in Full /\ t \in Full /\ s # t
  /\ Transfer(s, t, Destroyed(t))
  /\ Refilled(s, t)
  /\ UNCHANGED existing

-----------------------------------------------------------------------------
(* The host *)

\* std::move(r.value()) or std::move(r.error()): the member lives on, empty.
Take(r) ==
  /\ r \in filled /\ HasMember(r) /\ content[r] # "empty"
  /\ host' = host \cup {content[r]}
  /\ content' = [content EXCEPT ![r] = "empty"]
  /\ UNCHANGED <<existing, flags, living, filled>>

\* ~Result()
Destroy(r) ==
  /\ r \in existing /\ existing' = existing \ {r}
  /\ living' = [living EXCEPT ![r] = Destroyed(r)]
  /\ active' = [active EXCEPT ![r] = FALSE]
  /\ content' = [content EXCEPT ![r] = "empty"]
  /\ filled' = filled \ {r}
  /\ UNCHANGED <<isOk, host>>

\* The host makes a value like one that is gone.
Renew(v) ==
  /\ v \notin host /\ \A r \in Results : content[r] # v
  /\ host' = host \cup {v}
  /\ UNCHANGED <<existing, flags, living, content, filled>>

ResultNext ==
  \/ \E r \in Results :
       \/ Result(r) \/ OkVoid(r) \/ Take(r) \/ Destroy(r)
       \/ \E v \in Values : Ok(r, v) \/ Err(r, v)
  \/ \E s, t \in Results : MoveConstruct(s, t) \/ MoveAssign(s, t)
  \/ \E v \in Values : Renew(v)

ResultSpec == ResultInit /\ [][ResultNext]_resultVars

\* unwrap_or(); "default" stands for its argument.
UnwrapOr(r) == IF active[r] /\ isOk[r] THEN content[r] ELSE "default"

-----------------------------------------------------------------------------
(* Properties *)

ResultTypeOK ==
  /\ existing \subseteq Results /\ filled \subseteq existing /\ host \subseteq Values
  /\ isOk \in [Results -> BOOLEAN] /\ active \in [Results -> BOOLEAN]
  /\ living \in [Results -> [value : Int, err : Int]]
  /\ content \in [Results -> Values \cup {"empty"}]

\* No member of a union leaks and none is destroyed twice: an object has at most
\* one live member, the one its flags name, and a destroyed object has none.  So a
\* result that was filled and not moved from has what is_ok() and is_err()
\* promise, and unwrap_or() never reads a member that is gone.
MembersLiveOnce ==
  \A r \in Results :
    /\ living[r] = IF r \in existing /\ HasMember(r) THEN With(None, r, 1) ELSE None
    /\ r \in filled \cap Full => living[r] = With(None, r, 1)
    /\ r \in Full /\ UnwrapOr(r) # "default" => living[r].value = 1

\* Where the abstract owner sees each value.
Place ==
  [v \in Values |->
     IF v \in host THEN "host"
     ELSE IF \E r \in Results : content[r] = v
          THEN CHOOSE r \in Results : content[r] = v
          ELSE "gone"]

\* Values go through moves and assignments without being lost or duplicated.
Owner == INSTANCE ValueOwner WITH place <- Place
KeepsValues == Owner!Spec
=============================================================================
