----------------------------- MODULE Readiness -----------------------------
(***************************************************************************)
(* GET /readyz beside the traffic of a chain: readiness_handler of         *)
(* crates/proxy-server/src/admin.rs asks the breaker about one provider of *)
(* the chain after the other, each under its own entry's lock, while       *)
(* requests move the circuits.  It walks a HashSet, in any order, so a     *)
(* provider listed twice is asked about once.  providers_handler scans     *)
(* them in the same way; several chains are one scan after another.        *)
(***************************************************************************)
EXTENDS Gateway

VARIABLES
  unasked,   \* the providers the scan under way has not asked about
  issues     \* those it found unavailable

scan == <<unasked, issues>>
readinessVars == <<scan, vars>>

\* The answer is given: 200 if Ready, else 503.
Answered == unasked = {}
Ready == issues = {}

\* Before the first request for it, as if all had been well.
ReadinessInit == Init /\ unasked = {} /\ issues = {}

-----------------------------------------------------------------------------
(* A mutation: only a closed circuit counts as available.                  *)

AskWhetherClosed(p) ==
  /\ p \in unasked
  /\ unasked' = unasked \ {p}
  /\ issues' = IF IsClosed(p) THEN issues ELSE issues \cup {p}
  /\ UNCHANGED vars

-----------------------------------------------------------------------------
\* A request for /readyz; the answer before was given.
BeginScan ==
  /\ Answered
  /\ unasked' = Provider /\ issues' = {}
  /\ UNCHANGED vars

\* A chain with no provider available has an unavailable one, so that
\* available_in_chain decides nothing more.
Ask(p) ==
  /\ p \in unasked
  /\ unasked' = unasked \ {p}
  /\ issues' = IF IsAvailable(p) THEN issues ELSE issues \cup {p}
  /\ UNCHANGED vars

AskNext == \E p \in Provider : Ask(p)

ReadinessNext == BeginScan \/ AskNext \/ (Next /\ UNCHANGED scan)

(* Fairness of the requests, as in ResponsiveSpec, and of an orchestrator  *)
(* that asks again and again.                                              *)
ReadinessSpec ==
  /\ ReadinessInit /\ [][ReadinessNext]_readinessVars
  /\ WF_readinessVars(BeginScan) /\ WF_readinessVars(AskNext)
  /\ WF_readinessVars(TimePasses /\ UNCHANGED scan)
  /\ \A r \in Request :
       /\ WF_readinessVars(Scheduled(r) /\ UNCHANGED scan)
       /\ WF_readinessVars(ReadingBody(r) /\ UNCHANGED scan)

-----------------------------------------------------------------------------
(* Properties                                                              *)

\* A gateway that was taken out of service because of /readyz comes back
\* without a request to try its providers: once it is left alone, /readyz
\* answers 200 for good, whatever the circuits went through.  What half-opens
\* a circuit is a request, so this rests on is_available counting an open one
\* whose time is up (circuit.rs:87-97), and on nothing staying half-open.
ReadyWithoutTraffic ==
  <>[](\A r \in Request : ~ Active(r)) => <>[](Answered => Ready)
=============================================================================
