--------------------------- MODULE CircuitBreaker ---------------------------
(***************************************************************************)
(* The per-chain circuit breaker, crates/proxy-core/src/circuit.rs: one    *)
(* circuit for each provider of the chain, kept in a DashMap whose entry   *)
(* lock makes every method below one atomic step.                          *)
(*                                                                         *)
(* Time.  The code stores an Instant `retry_at` and compares it with       *)
(* Instant::now().  Here a circuit stores how many ticks are left until    *)
(* that instant, `retryIn`, and Tick lets one of them pass:                *)
(* now >= retry_at is retryIn = 0.                                         *)
(***************************************************************************)
EXTENDS Naturals

CONSTANTS
  Provider,          \* the ids of the chain's providers
  FailureThreshold,  \* failure_threshold, for each provider
  ResetTimeout,      \* reset_timeout in ticks, for each provider
  HalfOpenProbe,     \* half_open_probe, for each provider
  U32Max             \* u32::MAX, at which both counters saturate

\* config.rs:233-259 forbids zeros in the global section only; a provider's
\* own circuit_breaker section is not validated, so zeros reach the breaker.
ASSUME BreakerAssumption ==
  /\ U32Max \in Nat
  /\ FailureThreshold \in [Provider -> 0 .. U32Max]
  /\ ResetTimeout \in [Provider -> Nat]
  /\ HalfOpenProbe \in [Provider -> 0 .. U32Max]

VARIABLE circuit   \* entries: each provider's InnerState

Closed(f) ==
  [state |-> "closed", failures |-> f, retryIn |-> 0, attempts |-> 0]

Open(f, t) ==
  [state |-> "open", failures |-> f, retryIn |-> t, attempts |-> 0]

HalfOpen(f, a) ==
  [state |-> "half_open", failures |-> f, retryIn |-> 0, attempts |-> a]

Circuit ==
  [state : {"closed", "open", "half_open"}, failures : 0 .. U32Max,
   retryIn : Nat, attempts : 0 .. U32Max]

CircuitTypeOK ==
  /\ circuit \in [Provider -> Circuit]
  /\ \A p \in Provider : circuit[p].retryIn <= ResetTimeout[p]

CircuitInit == circuit = [p \in Provider |-> Closed(0)]

IsClosed(p) == circuit[p].state = "closed"
IsHalfOpen(p) == circuit[p].state = "half_open"

\* Open, and retry_at still ahead.
IsCooling(p) == circuit[p].state = "open" /\ circuit[p].retryIn > 0

-----------------------------------------------------------------------------
(* Mutations of the definitions below, one plausible slip each.            *)

WrappingIncrement(n) == n + 1

IgnoresProbeLimit(p) == ~ IsCooling(p)

FailureKeepsHalfOpen(p) ==
  circuit' = [circuit EXCEPT ![p] =
    LET f == IF @.failures < U32Max THEN @.failures + 1 ELSE U32Max IN
    CASE @.state = "closed" /\ f < FailureThreshold[p] -> Closed(f)
      [] @.state = "half_open" -> HalfOpen(f, @.attempts)
      [] OTHER -> Open(f, ResetTimeout[p])]

-----------------------------------------------------------------------------
\* saturating_add(1) on a u32
SaturatingIncrement(n) == IF n < U32Max THEN n + 1 ELSE U32Max

\* is_available.  Every caller asks about a provider of the chain, for which
\* `new` made an entry, so the branch for an unknown id is never taken.
IsAvailable(p) ==
  \/ IsClosed(p)
  \/ circuit[p].state = "open" /\ circuit[p].retryIn = 0
  \/ IsHalfOpen(p) /\ circuit[p].attempts < HalfOpenProbe[p]

\* on_request_start: the request that finds an expired Open circuit turns it
\* HalfOpen with no attempt counted; only the later ones are counted.  On a
\* circuit that is Open and cooling nothing happens.
OnRequestStart(p) ==
  circuit' = [circuit EXCEPT ![p] =
    CASE @.state = "open" /\ @.retryIn = 0 -> HalfOpen(@.failures, 0)
      [] @.state = "half_open" ->
           HalfOpen(@.failures, SaturatingIncrement(@.attempts))
      [] OTHER -> @]

\* on_success: whatever the state, and whenever the request was sent
OnSuccess(p) == circuit' = [circuit EXCEPT ![p] = Closed(0)]

\* on_failure: from HalfOpen at once, from Open it renews retry_at
OnFailure(p) ==
  circuit' = [circuit EXCEPT ![p] =
    LET f == SaturatingIncrement(@.failures) IN
    IF @.state = "closed" /\ f < FailureThreshold[p]
      THEN Closed(f)
      ELSE Open(f, ResetTimeout[p])]

\* Time passes towards every retry_at.
Tick ==
  /\ \E p \in Provider : IsCooling(p)
  /\ circuit' = [p \in Provider |->
       IF IsCooling(p) THEN [circuit[p] EXCEPT !.retryIn = @ - 1]
                       ELSE circuit[p]]
=============================================================================
