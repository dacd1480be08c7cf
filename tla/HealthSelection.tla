-------------------------- MODULE HealthSelection --------------------------
(***************************************************************************)
(* How one call of LoadBalancer::select finds the eligible providers       *)
(* (crates/proxy-core/src/routing/load_balancer.rs:85-146), while probe    *)
(* results keep arriving.  It passes three times over the health map,      *)
(* entry by entry and in the map's own order, with no lock from one entry  *)
(* to the next:                                                            *)
(*                                                                         *)
(*   best        best_score, called by filtered_snapshots                  *)
(*   snapshots   snapshots, then the filter by the chain's tolerance       *)
(*   ceiling     best_score again, called by select                        *)
(*                                                                         *)
(* and then filters a second time, by the method policy's tolerance.       *)
(***************************************************************************)
EXTENDS HealthService, FiniteSets

CONSTANTS
  ChainTolerance,    \* the health service's tolerance
  PolicyTolerances,  \* the tolerances of the method policies
  MaxResults         \* bound: probe results per provider

ASSUME SelectionAssumption ==
  /\ IsFiniteSet(Provider) /\ Provider # {}
  /\ ChainTolerance \in Tolerance
  /\ PolicyTolerances \subseteq Tolerance
  /\ MaxResults \in Nat

VARIABLES
  prompt,     \* the providers that never take more than two seconds, if
              \* they answer a probe at all
  reliable,   \* those among them that answer every probe
  results,    \* how many results each provider has had
  phase,      \* "idle", one of the three passes, or "done"
  unread,     \* the entries the current pass has not read
  best,       \* filtered_snapshots' best
  ceiling,    \* select's best_score
  seen,       \* the scores in the snapshots
  excluded,   \* the argument exclude
  tolerance,  \* policy.tolerance
  eligible,   \* the answer
  disturbed   \* history: a result was applied while the call ran

selection ==
  <<phase, unread, best, ceiling, seen, excluded, tolerance, eligible>>
probes == <<prompt, reliable, results>>
vars == <<health, probes, selection, disturbed>>

Passes == {"best", "snapshots", "ceiling"}

TypeOK ==
  /\ HealthTypeOK
  /\ prompt \in SUBSET Provider
  /\ reliable \in SUBSET prompt
  /\ results \in [Provider -> 0 .. MaxResults]
  /\ phase \in {"idle", "done"} \cup Passes
  /\ unread \in SUBSET Provider
  /\ best \in 0 .. Perfect
  /\ ceiling \in 0 .. Perfect
  /\ seen \in [Provider -> 0 .. Perfect]
  /\ excluded \in SUBSET Provider
  /\ tolerance \in Tolerance
  /\ eligible \in SUBSET Provider
  /\ disturbed \in BOOLEAN

NothingSeen == [p \in Provider |-> 0]

\* What the nodes are like is settled before the first probe.
Init ==
  /\ HealthInit
  /\ prompt \in SUBSET Provider /\ reliable \in SUBSET prompt
  /\ results = [p \in Provider |-> 0]
  /\ phase = "idle" /\ unread = {}
  /\ best = 0 /\ ceiling = 0 /\ seen = NothingSeen
  /\ excluded = {} /\ tolerance = ChainTolerance /\ eligible = {}
  /\ disturbed = FALSE

-----------------------------------------------------------------------------
Begin(exclude, policy) ==
  /\ phase = "idle"
  /\ phase' = "best" /\ unread' = Provider
  /\ excluded' = exclude /\ tolerance' = policy
  /\ disturbed' = FALSE
  /\ UNCHANGED <<health, probes, best, ceiling, seen, eligible>>

Larger(m, n) == IF m > n THEN m ELSE n

\* One more entry is read; the last one ends the pass.
EndsPass(p, next) ==
  IF unread = {p} THEN phase' = next /\ unread' = Provider
                  ELSE phase' = phase /\ unread' = unread \ {p}

\* fold(0.0, f64::max)
ReadForBest(p) ==
  /\ phase = "best" /\ p \in unread
  /\ best' = Larger(best, Score(p))
  /\ EndsPass(p, "snapshots")
  /\ UNCHANGED <<health, probes, ceiling, seen, excluded, tolerance, eligible,
                 disturbed>>

\* What filtered_snapshots returns.
Filtered(scores) ==
  {p \in Provider : WithinTolerance(scores[p], best, ChainTolerance)}

\* After the last snapshot an empty filter lets every provider through
\* (allow_any); otherwise select asks for the best score again.
ReadSnapshot(p) ==
  /\ phase = "snapshots" /\ p \in unread
  /\ seen' = [seen EXCEPT ![p] = Score(p)]
  /\ IF unread = {p} /\ Filtered(seen') = {}
       THEN /\ phase' = "done" /\ unread' = {}
            /\ eligible' = Provider \ excluded
       ELSE EndsPass(p, "ceiling") /\ UNCHANGED eligible
  /\ UNCHANGED <<health, probes, best, ceiling, excluded, tolerance, disturbed>>

\* The last entry read, select filters what passed the first filter.
ReadForCeiling(p) ==
  /\ phase = "ceiling" /\ p \in unread
  /\ ceiling' = Larger(ceiling, Score(p))
  /\ IF unread = {p}
       THEN /\ phase' = "done" /\ unread' = {}
            /\ eligible' =
                 {q \in Filtered(seen) \ excluded :
                    WithinTolerance(seen[q], ceiling', tolerance)}
       ELSE EndsPass(p, "done") /\ UNCHANGED eligible
  /\ UNCHANGED <<health, probes, best, seen, excluded, tolerance, disturbed>>

\* The call returns and its locals are gone.
Return ==
  /\ phase = "done"
  /\ phase' = "idle" /\ unread' = {}
  /\ best' = 0 /\ ceiling' = 0 /\ seen' = NothingSeen
  /\ excluded' = {} /\ tolerance' = ChainTolerance /\ eligible' = {}
  /\ disturbed' = FALSE
  /\ UNCHANGED <<health, probes>>

\* A probe task applies its result.
Disturb(p) ==
  /\ results[p] < MaxResults
  /\ results' = [results EXCEPT ![p] = @ + 1]
  /\ \/ \E latency \in Latencies :
          /\ p \in prompt => latency <= PromptLatency
          /\ ProbeSucceeds(p, latency)
     \/ p \notin reliable /\ ProbeFails(p)
  /\ disturbed' = (phase \in Passes \/ disturbed)
  /\ UNCHANGED <<prompt, reliable, selection>>

Read(p) == ReadForBest(p) \/ ReadSnapshot(p) \/ ReadForCeiling(p)

Next ==
  \/ \E exclude \in SUBSET Provider, policy \in PolicyTolerances :
       Begin(exclude, policy)
  \/ \E p \in Provider : Read(p) \/ Disturb(p)
  \/ Return

Spec == Init /\ [][Next]_vars

-----------------------------------------------------------------------------
(* The inductive invariant behind the safety properties, in parts.         *)

\* The snapshot of p is taken.
Taken(p) == phase = "ceiling" \/ (phase = "snapshots" /\ p \notin unread)

ReliableArePerfect ==
  \A p \in reliable :
    health[p].success = Unit /\ (Taken(p) => seen[p] = Perfect)

PromptScoreHigh ==
  \A p \in prompt :
    /\ health[p].latency <= PromptLatency
    /\ Taken(p) => seen[p] >= 8 * Unit

-----------------------------------------------------------------------------
(* Properties                                                              *)

\* A provider whose probes all succeed within two seconds is eligible in
\* every answer unless the caller excluded it, whatever results of whatever
\* providers arrive between the three passes and whatever the tolerances.
\* (This is what Gateway's HealthSparesReliable assumes of the filter.)
ReliableStayEligible ==
  phase = "done" => reliable \ excluded \subseteq eligible

\* A call that no probe result interrupts, with nothing excluded, finds a
\* provider, however bad all of them are: the best one is within every
\* tolerance of itself, twice.
AnswersWhenQuiet ==
  phase = "done" /\ ~ disturbed /\ excluded = {} => eligible # {}

\* Unless a tolerance is Strict, the filter never drops a provider because its
\* probes fail: as long as those that succeed are prompt, or none has
\* succeeded yet, it keeps 0.8 of the score with a success rate of 0
\* (service.rs:65-75), and only the circuit breaker stands between it and the
\* requests.
FailingStayEligible ==
  phase = "done" /\ ChainTolerance # Strict /\ tolerance # Strict =>
    prompt \ excluded \subseteq eligible

-----------------------------------------------------------------------------
(* A claim of the documentation the code does not keep                     *)

\* health_enhancements.md:36, "fallback to all providers if none pass": a
\* call that is left any provider to choose from finds one.  The best score
\* counts the excluded providers too, so a retry may be left with none.
FallsBackToAll ==
  phase = "done" /\ excluded # Provider => eligible # {}
=============================================================================
