------------------------------ MODULE Failover ------------------------------
(***************************************************************************)
(* What a gateway promises a client about its request, without breaker,    *)
(* balancer, override or time: the providers are contacted one at a time,  *)
(* none of them twice for the same request, no more than MaxAttempts of    *)
(* them; the first that answers well ends the request with its answer, and *)
(* after the last allowed failure the request fails.                       *)
(*                                                                         *)
(* A JSON-RPC call such as eth_sendRawTransaction is not idempotent, so    *)
(* "none of them twice" is what keeps a retry after a timeout from         *)
(* submitting to the same node again.                                      *)
(***************************************************************************)
EXTENDS Naturals, FiniteSets

CONSTANTS Request, Provider, MaxAttempts, MayBeAbandoned

VARIABLES
  status,      \* idle, choosing, contacting, ok, failed or dropped
  contacted    \* the providers a request was sent to

vars == <<status, contacted>>

Open(r) == status[r] \in {"choosing", "contacting"}

Init ==
  /\ status = [r \in Request |-> "idle"]
  /\ contacted = [r \in Request |-> {}]

Become(r, s) == status' = [status EXCEPT ![r] = s]

Accept(r) ==
  /\ ~ Open(r)
  /\ Become(r, "choosing")
  /\ contacted' = [contacted EXCEPT ![r] = {}]

Contact(r, p) ==
  /\ status[r] = "choosing"
  /\ p \notin contacted[r]
  /\ Cardinality(contacted[r]) < MaxAttempts
  /\ Become(r, "contacting")
  /\ contacted' = [contacted EXCEPT ![r] = @ \cup {p}]

Answer(r) ==
  /\ status[r] = "contacting"
  /\ Become(r, "ok")
  /\ UNCHANGED contacted

TryAnother(r) ==
  /\ status[r] = "contacting"
  /\ Cardinality(contacted[r]) < MaxAttempts
  /\ Become(r, "choosing")
  /\ UNCHANGED contacted

RunOut(r) ==
  /\ status[r] = "contacting"
  /\ Cardinality(contacted[r]) = MaxAttempts
  /\ Become(r, "failed")
  /\ UNCHANGED contacted

\* Nobody is left to contact.
GiveUp(r) ==
  /\ status[r] = "choosing"
  /\ Become(r, "failed")
  /\ UNCHANGED contacted

Abandon(r) ==
  /\ MayBeAbandoned
  /\ Open(r)
  /\ Become(r, "dropped")
  /\ UNCHANGED contacted

Next ==
  \E r \in Request :
    \/ Accept(r) \/ Answer(r) \/ TryAnother(r) \/ RunOut(r) \/ GiveUp(r)
    \/ Abandon(r)
    \/ \E p \in Provider : Contact(r, p)

Spec == Init /\ [][Next]_vars
=============================================================================
