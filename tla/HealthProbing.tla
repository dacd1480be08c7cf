--------------------------- MODULE HealthProbing ---------------------------
(***************************************************************************)
(* A chain's health service at work: HealthService::spawn                  *)
(* (crates/proxy-core/src/health/service.rs:152-172) probes every provider *)
(* at each tick of its interval, each probe (health/probe.rs:54-144) makes *)
(* two calls one after the other, and its result is applied when it ends,  *)
(* so results come in any order.                                           *)
(*                                                                         *)
(*   waiting --> chain_id --> block_number --> waiting                     *)
(*                                                                         *)
(* Time.  A call takes three seconds at most, the client's timeout         *)
(* (lib.rs:227), and the interval is fifteen (lib.rs:233): all probes of   *)
(* one tick have ended before the next.  Launch, the tick, is therefore    *)
(* guarded by their end, which the code does not wait for.                 *)
(*                                                                         *)
(* How a node answers changes at any time, and for ever.  The latency of a *)
(* probe is the time from its first call to its second answer              *)
(* (probe.rs:62,135): Fast of a node that was fine all the while, Slow of  *)
(* one that was slow; a probe whose node changed under it may take any     *)
(* time, and end in any way.                                               *)
(***************************************************************************)
EXTENDS HealthService

CONSTANTS
  Fast,   \* how long the two calls take together on a node that is fine
  Slow    \* and on one that answers late, within the client's timeout

ASSUME ProbingAssumption ==
  /\ {Fast, Slow} \subseteq Latencies
  /\ Fast <= PromptLatency
  /\ Slow > PromptLatency /\ Slow <= 3 * PromptLatency

\* Rounding down stops an average up to 3 short of what it goes to, which
\* must not be seen as a failure of the node.
ASSUME ResolutionAssumption == Unit >= 6

VARIABLES
  node,      \* what calling each provider is like: "fine", "slow", "failing"
  probe,     \* where the probe of each provider is
  changed    \* the providers whose nodes changed during the probe under way

vars == <<health, node, probe, changed>>

Condition == {"fine", "slow", "failing"}

TypeOK ==
  /\ HealthTypeOK
  /\ node \in [Provider -> Condition]
  /\ probe \in [Provider -> {"waiting", "chain_id", "block_number"}]
  /\ changed \subseteq {p \in Provider : probe[p] # "waiting"}

Init ==
  /\ HealthInit
  /\ node \in [Provider -> Condition]
  /\ probe = [p \in Provider |-> "waiting"]
  /\ changed = {}

\* How long a probe that succeeds may have taken.
MayTake(p) ==
  {latency \in Latencies :
     \/ p \in changed
     \/ node[p] = "fine" /\ latency = Fast
     \/ node[p] = "slow" /\ latency = Slow}

MayAnswer(p) == p \in changed \/ node[p] # "failing"
MayFail(p) == p \in changed \/ node[p] = "failing"

\* The probe is over, and its task with it.
Ends(p) ==
  /\ probe' = [probe EXCEPT ![p] = "waiting"]
  /\ changed' = changed \ {p}
  /\ UNCHANGED node

-----------------------------------------------------------------------------
(* A mutation: the HTTP status of the answer is not looked at.             *)

ErrorTakenForAnswer(p) ==
  /\ probe[p] # "waiting" /\ MayFail(p)
  /\ ProbeSucceeds(p, Fast)
  /\ Ends(p)

-----------------------------------------------------------------------------
NodeChanges(p, c) ==
  /\ node[p] # c
  /\ node' = [node EXCEPT ![p] = c]
  /\ changed' = IF probe[p] = "waiting" THEN changed ELSE changed \cup {p}
  /\ UNCHANGED <<health, probe>>

\* ticker.tick(), and a task is spawned for every provider.
Launch ==
  /\ \A p \in Provider : probe[p] = "waiting"
  /\ probe' = [p \in Provider |-> "chain_id"]
  /\ UNCHANGED <<health, node, changed>>

\* eth_chainId is answered, and eth_blockNumber is sent.
ChainIdAnswers(p) ==
  /\ probe[p] = "chain_id" /\ MayAnswer(p)
  /\ probe' = [probe EXCEPT ![p] = "block_number"]
  /\ UNCHANGED <<health, node, changed>>

\* eth_blockNumber is answered: apply_success, with the time since the probe
\* began.
BlockNumberAnswers(p) ==
  /\ probe[p] = "block_number"
  /\ \E latency \in MayTake(p) : ProbeSucceeds(p, latency)
  /\ Ends(p)

\* Either call fails, and the probe with it: apply_failure.
CallFails(p) ==
  /\ probe[p] # "waiting" /\ MayFail(p)
  /\ ProbeFails(p)
  /\ Ends(p)

Probe(p) == ChainIdAnswers(p) \/ BlockNumberAnswers(p) \/ CallFails(p)

Next ==
  \/ Launch
  \/ \E p \in Provider : Probe(p) \/ \E c \in Condition : NodeChanges(p, c)

(* Fairness.  The ticker ticks, and a call ends by its answer or by the    *)
(* client's timeout, which covers the body too.  Nodes need not change.    *)
Spec ==
  /\ Init /\ [][Next]_vars
  /\ WF_vars(Launch)
  /\ \A p \in Provider : WF_vars(Probe(p))

-----------------------------------------------------------------------------
(* Properties                                                              *)

\* A score follows its node: from one result to the next it never falls while
\* the node is fine and never rises while it fails, whatever the averages
\* remember of the time before.  The probe under way when a node changes is the
\* only exception, as its latency began before (probe.rs:62).
ScoreFollowsNode ==
  [][\A p \in Provider \ changed :
       /\ node[p] = "fine" => Score(p)' >= Score(p)
       /\ node[p] = "failing" => Score(p)' <= Score(p)]_vars

\* Within Strict, and so every tolerance, of everyone: eligible whatever the
\* others score.
ScoresWell(p) ==
  \A q \in Provider : WithinTolerance(Score(p), Score(q), Strict)

\* However badly a provider has failed, and whatever other providers do: when
\* its node is fine again and stays so, its score comes back to where no
\* tolerance filters it, for good.  Nothing else ever resets the averages.
RecoversScore ==
  \A p \in Provider :
    <>[](node[p] = "fine") => <>[]ScoresWell(p)

\* Far enough from a fine node's score, which rounding may stop 6 short of
\* perfect, for Strict to tell them apart.
Discernible(score) == 10 * (Perfect - 6 - score) > Perfect - 6

\* Under Strict the filter does its work: beside a node that is fine, one that
\* fails for good ends up filtered out, and so does one that is slow for good,
\* if the seconds it takes cost it a tenth of the score.  That takes more than
\* three of them, 0.3 * (1 - 2/3) = 0.1: between two and three a node is slow
\* and Strict keeps it (service.rs:65-75).
StrictSeparates ==
  \A p, q \in Provider :
    /\ \/ <>[](node[p] = "failing")
       \/ /\ <>[](node[p] = "slow")
          /\ Discernible(Base + LatencyScore(Slow - 3) + 2 * Unit)
    /\ <>[](node[q] = "fine")
    => <>[]~WithinTolerance(Score(p), Score(q), Strict)
=============================================================================
