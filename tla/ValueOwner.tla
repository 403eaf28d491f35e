------------------------------ MODULE ValueOwner ------------------------------
(***************************************************************************)
(* What results promise about the values put into them: a value is in one  *)
(* place, moves from result to result, and is lost only when the result    *)
(* that holds it is destroyed or assigned to.                              *)
(***************************************************************************)
CONSTANTS Values, Results

VARIABLES
  existing,  \* the result objects
  place      \* where each value is: in a result, with the host, or gone

Host == "host"
Gone == "gone"

Nowhere == [v \in Values |-> Host]
Held(r) == {v \in Values : place[v] = r}

Init == existing = {} /\ place = Nowhere

Create(r) ==
  /\ r \notin existing /\ existing' = existing \cup {r}
  /\ \/ UNCHANGED place
     \/ \E v \in Held(Host) : place' = [place EXCEPT ![v] = r]

\* What t held is gone, what s held is in t.
Moved(s, t) ==
  place' = [v \in Values |->
              IF place[v] = t THEN Gone ELSE IF place[v] = s THEN t ELSE place[v]]

Construct(s, t) ==
  /\ s \in existing /\ t \notin existing
  /\ existing' = existing \cup {t}
  /\ Moved(s, t)

Assign(s, t) ==
  /\ s \in existing /\ t \in existing /\ s # t
  /\ Moved(s, t)
  /\ UNCHANGED existing

Take(r) ==
  /\ r \in existing
  /\ place' = [v \in Values |-> IF place[v] = r THEN Host ELSE place[v]]
  /\ UNCHANGED existing

Destroy(r) ==
  /\ r \in existing /\ existing' = existing \ {r}
  /\ place' = [v \in Values |-> IF place[v] = r THEN Gone ELSE place[v]]

\* The host makes a value like one that is gone.
Renew ==
  /\ \E v \in Held(Gone) : place' = [place EXCEPT ![v] = Host]
  /\ UNCHANGED existing

Next ==
  \/ \E r \in Results : Create(r) \/ Take(r) \/ Destroy(r)
  \/ \E s, t \in Results : Construct(s, t) \/ Assign(s, t)
  \/ Renew

Spec == Init /\ [][Next]_<<existing, place>>
=============================================================================
