------------------------- MODULE RoundRobinFairness -------------------------
(***************************************************************************)
(* A chain's balancer under every order of `select` calls: any request, at *)
(* any moment, with whatever set of eligible providers its exclusions and  *)
(* the health filter leave it.  All of them move the one cursor            *)
(* (load_balancer.rs:171-182).                                             *)
(***************************************************************************)
EXTENDS LoadBalancer

VARIABLE
  missed   \* history: for each provider, how many selections in a row found
           \* it eligible and returned another

vars == <<cursor, missed>>

TypeOK ==
  /\ CursorTypeOK
  /\ missed \in [PoolMembers -> Nat]

Init ==
  /\ CursorInit
  /\ missed = [p \in PoolMembers |-> 0]

SelectOne(eligible, p) ==
  /\ Select(eligible, p)
  /\ missed' = [q \in PoolMembers |->
       IF q \in eligible /\ q # p THEN missed[q] + 1 ELSE 0]

Next ==
  \E eligible \in SUBSET PoolMembers : \E p \in eligible : SelectOne(eligible, p)

Spec == Init /\ [][Next]_vars

-----------------------------------------------------------------------------
\* A provider that every selection finds eligible waits for at most one round
\* of the pool, however the eligible sets of the others change in between.
BoundedBypass == \A q \in PoolMembers : missed[q] < Len(Pool)

\* How far the cursor is before index i of the pool.
Distance(i) == (i + Len(Pool) - cursor) % Len(Pool)

\* Why: each miss of a provider has brought the cursor closer to each of its
\* places in the pool, without passing one.
MissesAdvanceCursor ==
  \A i \in 0 .. (Len(Pool) - 1) :
    missed[PoolAt(i)] + Distance(i) < Len(Pool)
=============================================================================
