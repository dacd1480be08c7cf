--------------------------- MODULE HealthService ---------------------------
(***************************************************************************)
(* A chain's health service, crates/proxy-core/src/health/: what every     *)
(* probe's result does to the record of its provider, and the score the    *)
(* load balancer reads from it.                                            *)
(*                                                                         *)
(* A probe runs two calls and touches the shared map only with its result, *)
(* under the lock of its provider's entry, so a result is one action.      *)
(*                                                                         *)
(* The code computes in f64.  Here a success rate counts 1/Unit, a score   *)
(* 1/(10 * Unit), PromptLatency is two seconds in the unit of latencies,   *)
(* and the smoothed values are rounded down.  sync_score and               *)
(* method_support_score never leave 1.0 (service.rs:49, probe.rs:142):     *)
(* their 0.4 and 0.1 are Base.                                             *)
(* latest_block, chain_id, consecutive_failures and last_updated are read  *)
(* by no caller that decides anything and are left out.                    *)
(***************************************************************************)
EXTENDS Integers

CONSTANTS
  Provider,       \* the providers of the chain
  Latencies,      \* what a successful probe may take
  Unit,           \* success_rate 1.0
  PromptLatency   \* two seconds, where latency_score reaches 1.0

ASSUME HealthAssumption ==
  /\ Latencies \subseteq (Nat \ {0})
  /\ Unit \in (Nat \ {0})
  /\ PromptLatency \in (Nat \ {0})

Base == 5 * Unit       \* 0.4 * sync + 0.1 * method_support
Perfect == 10 * Unit   \* score 1.0

VARIABLE health   \* state: each provider's ProviderHealthState

\* latency = 0 until the first success
Record == [latency : Nat, success : 0 .. Unit]

HealthTypeOK == health \in [Provider -> Record]

HealthInit == health = [p \in Provider |-> [latency |-> 0, success |-> Unit]]

-----------------------------------------------------------------------------
(* Mutations of the definitions below.                                     *)

\* The clamp is forgotten: the faster the better, without limit.
UnclampedLatencyScore(latency) ==
  IF latency = 0 THEN 3 * Unit ELSE (3 * Unit * PromptLatency) \div latency

\* The distance is taken from a perfect score, not from the best one.
ToleranceOfPerfect(score, best, tolerance) ==
  10 * (Perfect - score) <= tolerance * Perfect

\* A provider without a success yet scores nothing for latency.
UnknownLatencyScoresZero(latency) ==
  IF latency = 0 THEN 0
  ELSE IF latency <= PromptLatency THEN 3 * Unit
  ELSE (3 * Unit * PromptLatency) \div latency

\* apply_success updates the latency and forgets the success rate.
SuccessNotCounted(p, latency) ==
  health' = [health EXCEPT ![p].latency =
    IF @ = 0 THEN latency ELSE (7 * @ + 3 * latency) \div 10]

\* The old average is added to instead of weighed down.
SmoothUndecayed(old, sample) == old + (3 * sample) \div 10

\* apply_failure counts the failure and leaves the success rate.
FailureNotCounted(p) == UNCHANGED health

-----------------------------------------------------------------------------
\* alpha = 0.3
Smooth(old, sample) == (7 * old + 3 * sample) \div 10

\* 0.3 * clamp(2000 / latency_avg, 0, 1)
LatencyScore(latency) ==
  IF latency <= PromptLatency THEN 3 * Unit
  ELSE (3 * Unit * PromptLatency) \div latency

Score(p) == Base + LatencyScore(health[p].latency) + 2 * health[p].success

\* ToleranceLevel::threshold, in tenths
Tolerance == {1, 3, 5}
Strict == 1
Balanced == 3
Relaxed == 5

\* is_within_tolerance
WithinTolerance(score, best, tolerance) ==
  best <= 0 \/ 10 * (best - score) <= tolerance * best

-----------------------------------------------------------------------------
\* apply_success.  An answer without a result, or with one that is no number,
\* is a success too: unwrap_or_default makes it chain 0 and block 0
\* (probe.rs:131).
ProbeSucceeds(p, latency) ==
  health' = [health EXCEPT ![p] =
    [latency |-> IF @.latency = 0 THEN latency ELSE Smooth(@.latency, latency),
     success |-> Smooth(@.success, Unit)]]

\* apply_failure: transport, timeout, HTTP status, or a body that is not JSON
ProbeFails(p) == health' = [health EXCEPT ![p].success = Smooth(@, 0)]
=============================================================================
