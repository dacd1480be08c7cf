---------------------------- MODULE LoadBalancer ----------------------------
(***************************************************************************)
(* A chain's load balancer, crates/proxy-core/src/routing/load_balancer.rs.*)
(* Its state is the round-robin cursor, shared by every request of the     *)
(* chain and moved under a mutex; the generator behind weighted_random is  *)
(* a nondeterministic choice.                                              *)
(*                                                                         *)
(* `select` first collects the eligible providers: those of the pool the   *)
(* caller did not exclude and the health filter lets through.  The filter  *)
(* is in the operator's argument `healthy`, so that a caller states what   *)
(* it assumes of it.                                                       *)
(***************************************************************************)
EXTENDS Naturals, Sequences

CONSTANTS
  Pool,       \* the chain's providers in configured order, repeats allowed
  Strategy    \* "RoundRobin" or "WeightedRandom"

PoolMembers == {Pool[i] : i \in DOMAIN Pool}

\* config.rs:208-212,440-445: no chain is without providers.
ASSUME PoolAssumption ==
  /\ Pool \in Seq(PoolMembers)
  /\ Pool # <<>>
  /\ Strategy \in {"RoundRobin", "WeightedRandom"}

VARIABLE cursor   \* round_robin_cursor, counted from 0 as in the code

\* self.inner.pool.get(index), for 0-based indices
PoolAt(i) == Pool[i + 1]

CursorTypeOK == cursor \in 0 .. (Len(Pool) - 1)

CursorInit == cursor = 0

-----------------------------------------------------------------------------
(* A mutation: the cursor stops at the provider it returned.               *)

CursorStaysAtPick(eligible, p) ==
  \E k \in 0 .. (Len(Pool) - 1) :
    LET index == (cursor + k) % Len(Pool) IN
      /\ PoolAt(index) = p
      /\ p \in eligible
      /\ \A j \in 0 .. (k - 1) :
           PoolAt((cursor + j) % Len(Pool)) \notin eligible
      /\ cursor' = index

-----------------------------------------------------------------------------
\* The providers one call of select chooses among (lines 125-142).
Eligible(healthy, excluded) == (PoolMembers \cap healthy) \ excluded

\* next_round_robin_filtered: the first eligible provider at or after the
\* cursor, which is left one past it.
NextRoundRobin(eligible, p) ==
  \E k \in 0 .. (Len(Pool) - 1) :
    LET index == (cursor + k) % Len(Pool) IN
      /\ PoolAt(index) = p
      /\ p \in eligible
      /\ \A j \in 0 .. (k - 1) :
           PoolAt((cursor + j) % Len(Pool)) \notin eligible
      /\ cursor' = (index + 1) % Len(Pool)

\* weighted_random_from: weights are at least 1.0, so any may be drawn.
WeightedRandom(eligible, p) ==
  /\ p \in eligible
  /\ UNCHANGED cursor

\* select, once it found `eligible` not empty
Select(eligible, p) ==
  \/ Strategy = "RoundRobin" /\ NextRoundRobin(eligible, p)
  \/ Strategy = "WeightedRandom" /\ WeightedRandom(eligible, p)
=============================================================================
