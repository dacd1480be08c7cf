------------------------------ MODULE Gateway ------------------------------
(***************************************************************************)
(* The request path of one chain: proxy_handler_impl, select_provider and  *)
(* forward_to_provider of crates/proxy-server/src/lib.rs, running as many  *)
(* concurrent tasks over one CircuitBreaker and one LoadBalancer.          *)
(*                                                                         *)
(* A task is interrupted where the code awaits or takes a lock, so one     *)
(* action is what runs between two such points:                            *)
(*                                                                         *)
(*   select --> pick <--> check --> start --> sending --> body --> ok      *)
(*     ^ \______________________/                |          |              *)
(*     |                                         v          v              *)
(*     +--------------- (backoff) <------------ a failed attempt           *)
(*                                                                         *)
(*   select   at the top of the for loop, about to look at the override    *)
(*   pick     about to call load_balancer.select                           *)
(*   check    holding its answer, about to call is_available               *)
(*   start    holding an available provider, about to call on_request_start*)
(*   sending  awaiting send(), under tokio::time::timeout                  *)
(*   body     awaiting response.bytes(), after the timeout's scope         *)
(*   backoff  awaiting the delay before the next attempt                   *)
(*   failed, ok, dropped   the future has ended                            *)
(*                                                                         *)
(* Request is the set of slots for concurrent requests: a slot whose       *)
(* request has ended takes a new one.                                      *)
(***************************************************************************)
EXTENDS CircuitBreaker, LoadBalancer, FiniteSets

CONSTANTS
  Request,             \* slots for requests in flight
  NoProvider,          \* no id: no override, no candidate
  OverrideIds,         \* what provider_id in the URL may say, NoProvider included
  MaxRetries,          \* max_retries of the method policy
  HasBackoff,          \* whether the method policy has a backoff
  HealthViews,         \* sets of providers the health filter may let through
  Reliable,            \* providers whose every exchange succeeds
  ClientsDisconnect    \* whether a client may go away before the answer

ASSUME GatewayAssumption ==
  /\ IsFiniteSet(Request) /\ IsFiniteSet(Provider)
  /\ Provider = PoolMembers
  /\ NoProvider \notin Provider
  /\ NoProvider \in OverrideIds
  /\ MaxRetries \in Nat
  /\ HasBackoff \in BOOLEAN
  /\ HealthViews \subseteq SUBSET Provider
  /\ Reliable \subseteq Provider
  /\ ClientsDisconnect \in BOOLEAN

VARIABLES
  pc,         \* where each request's task is
  override,   \* ctx.provider_override
  tried,      \* the set `tried`
  attempt,    \* the loop variable `attempt`, from 0
  excluded,   \* select_provider's set `excluded`
  candidate   \* the provider in hand

locals == <<override, tried, attempt, excluded, candidate>>
vars == <<circuit, cursor, pc, locals>>

MaxAttempts == IF MaxRetries > 1 THEN MaxRetries ELSE 1

Ended == {"failed", "ok", "dropped"}
InSelection == {"select", "pick", "check"}
InExchange == {"sending", "body"}
Locations == {"idle", "start", "backoff"} \cup InSelection \cup InExchange
               \cup Ended

Active(r) == pc[r] \notin Ended \cup {"idle"}

Foreign(r) == override[r] \notin Provider \cup {NoProvider}

TypeOK ==
  /\ CircuitTypeOK
  /\ CursorTypeOK
  /\ pc \in [Request -> Locations]
  /\ override \in [Request -> OverrideIds]
  /\ tried \in [Request -> SUBSET Provider]
  /\ attempt \in [Request -> 0 .. (MaxAttempts - 1)]
  /\ excluded \in [Request -> SUBSET Provider]
  /\ candidate \in [Request -> Provider \cup {NoProvider}]

Init ==
  /\ CircuitInit
  /\ CursorInit
  /\ pc = [r \in Request |-> "idle"]
  /\ override = [r \in Request |-> NoProvider]
  /\ tried = [r \in Request |-> {}]
  /\ attempt = [r \in Request |-> 0]
  /\ excluded = [r \in Request |-> {}]
  /\ candidate = [r \in Request |-> NoProvider]

-----------------------------------------------------------------------------
Goto(r, location) == pc' = [pc EXCEPT ![r] = location]

\* The task returns, or its future is dropped: select_provider's variables
\* are gone, what the request did stays on record for the properties.
End(r, outcome) ==
  /\ Goto(r, outcome)
  /\ excluded' = [excluded EXCEPT ![r] = {}]
  /\ candidate' = [candidate EXCEPT ![r] = NoProvider]
  /\ UNCHANGED <<override, tried, attempt>>

\* A request enters the loop; max_attempts >= 1, so it always does.
Arrive(r, id) ==
  /\ ~ Active(r)
  /\ Goto(r, "select")
  /\ override' = [override EXCEPT ![r] = id]
  /\ tried' = [tried EXCEPT ![r] = {}]
  /\ attempt' = [attempt EXCEPT ![r] = 0]
  /\ UNCHANGED <<circuit, cursor, excluded, candidate>>

-----------------------------------------------------------------------------
(* Mutations of the actions below.                                         *)

\* The override path forgets to ask the breaker.
OverrideUnchecked(r) ==
  /\ pc[r] = "select"
  /\ override[r] \in Provider \ tried[r]
  /\ Goto(r, "start")
  /\ candidate' = [candidate EXCEPT ![r] = override[r]]
  /\ UNCHANGED <<circuit, cursor, override, tried, attempt, excluded>>

\* An unavailable pick ends the selection with None.
UnavailableGivesUp(r) ==
  /\ pc[r] = "check"
  /\ ~ IsAvailable(candidate[r])
  /\ End(r, "failed")
  /\ UNCHANGED <<circuit, cursor>>

\* An unavailable pick is not excluded from the next one.
UnavailableNotExcluded(r) ==
  /\ pc[r] = "check"
  /\ ~ IsAvailable(candidate[r])
  /\ Goto(r, "pick")
  /\ candidate' = [candidate EXCEPT ![r] = NoProvider]
  /\ UNCHANGED <<circuit, cursor, override, tried, attempt, excluded>>

\* The provider is recorded as tried only after its attempt has failed.
StartNotRecorded(r) ==
  /\ pc[r] = "start"
  /\ OnRequestStart(candidate[r])
  /\ Goto(r, "sending")
  /\ UNCHANGED <<cursor, override, tried, attempt, excluded, candidate>>

-----------------------------------------------------------------------------
(* select_provider                                                         *)

\* The override is returned when it is untried and its circuit lets it.
SelectOverride(r) ==
  /\ pc[r] = "select"
  /\ override[r] \in Provider \ tried[r]
  /\ IsAvailable(override[r])
  /\ Goto(r, "start")
  /\ candidate' = [candidate EXCEPT ![r] = override[r]]
  /\ UNCHANGED <<circuit, cursor, override, tried, attempt, excluded>>

\* An override outside the chain ends the request: None, at every attempt.
RejectForeignOverride(r) ==
  /\ pc[r] = "select"
  /\ Foreign(r)
  /\ End(r, "failed")
  /\ UNCHANGED <<circuit, cursor>>

\* No override, or one already tried or unavailable: the balancer is asked,
\* with the override excluded.
BypassOverride(r) ==
  /\ pc[r] = "select"
  /\ ~ Foreign(r)
  /\ override[r] \in Provider \ tried[r] => ~ IsAvailable(override[r])
  /\ Goto(r, "pick")
  /\ excluded' =
       [excluded EXCEPT ![r] = tried[r] \cup ({override[r]} \cap Provider)]
  /\ UNCHANGED <<circuit, cursor, override, tried, attempt, candidate>>

\* load_balancer.select answers Some: it read the health and moved the cursor.
Pick(r) ==
  /\ pc[r] = "pick"
  /\ \E healthy \in HealthViews :
       \E p \in Eligible(healthy, excluded[r]) :
         /\ Select(Eligible(healthy, excluded[r]), p)
         /\ candidate' = [candidate EXCEPT ![r] = p]
  /\ Goto(r, "check")
  /\ UNCHANGED <<circuit, override, tried, attempt, excluded>>

\* load_balancer.select answers None, and `break` leaves the for loop.
PickNone(r) ==
  /\ pc[r] = "pick"
  /\ \E healthy \in HealthViews : Eligible(healthy, excluded[r]) = {}
  /\ End(r, "failed")
  /\ UNCHANGED <<circuit, cursor>>

Admit(r) ==
  /\ pc[r] = "check"
  /\ IsAvailable(candidate[r])
  /\ Goto(r, "start")
  /\ excluded' = [excluded EXCEPT ![r] = {}]
  /\ UNCHANGED <<circuit, cursor, override, tried, attempt, candidate>>

SkipUnavailable(r) ==
  /\ pc[r] = "check"
  /\ ~ IsAvailable(candidate[r])
  /\ Goto(r, "pick")
  /\ excluded' = [excluded EXCEPT ![r] = @ \cup {candidate[r]}]
  /\ candidate' = [candidate EXCEPT ![r] = NoProvider]
  /\ UNCHANGED <<circuit, cursor, override, tried, attempt>>

-----------------------------------------------------------------------------
(* The rest of the loop's body, and forward_to_provider.                   *)

\* tried.insert, on_request_start, and the request is on its way.
Start(r) ==
  /\ pc[r] = "start"
  /\ tried' = [tried EXCEPT ![r] = @ \cup {candidate[r]}]
  /\ OnRequestStart(candidate[r])
  /\ Goto(r, "sending")
  /\ UNCHANGED <<cursor, override, attempt, excluded, candidate>>

\* The answer's status line and headers arrive in time, with a 2xx status.
HeadersArrive(r) ==
  /\ pc[r] = "sending"
  /\ Goto(r, "body")
  /\ UNCHANGED <<circuit, cursor, locals>>

\* The whole body arrives: on_success, and the answer goes to the client.
BodyArrives(r) ==
  /\ pc[r] = "body"
  /\ OnSuccess(candidate[r])
  /\ End(r, "ok")
  /\ UNCHANGED cursor

\* The Err arm: on_failure, then the next attempt, after a delay if the
\* policy has a backoff; after the last attempt the request has failed.
AttemptFails(r) ==
  /\ OnFailure(candidate[r])
  /\ \/ /\ attempt[r] + 1 < MaxAttempts
        /\ attempt' = [attempt EXCEPT ![r] = @ + 1]
        /\ Goto(r, IF HasBackoff THEN "backoff" ELSE "select")
        /\ candidate' = [candidate EXCEPT ![r] = NoProvider]
        /\ UNCHANGED <<override, tried, excluded>>
     \/ /\ attempt[r] + 1 >= MaxAttempts
        /\ End(r, "failed")
  /\ UNCHANGED cursor

\* Timed out, refused, reset, or answered with a status other than 2xx.
SendFails(r) ==
  /\ pc[r] = "sending"
  /\ candidate[r] \notin Reliable
  /\ AttemptFails(r)

\* The connection breaks while the body is read.
BodyFails(r) ==
  /\ pc[r] = "body"
  /\ candidate[r] \notin Reliable
  /\ AttemptFails(r)

BackoffElapses(r) ==
  /\ pc[r] = "backoff"
  /\ Goto(r, "select")
  /\ UNCHANGED <<circuit, cursor, locals>>

\* The client closes its connection and hyper drops the handler's future at
\* the await it is suspended in.  No destructor tells the breaker.
ClientDisconnects(r) ==
  /\ ClientsDisconnect
  /\ pc[r] \in {"pick", "backoff"} \cup InExchange
  /\ End(r, "dropped")
  /\ UNCHANGED <<circuit, cursor>>

TimePasses ==
  /\ Tick
  /\ UNCHANGED <<cursor, pc, locals>>

-----------------------------------------------------------------------------
Selecting(r) ==
  \/ SelectOverride(r) \/ RejectForeignOverride(r) \/ BypassOverride(r)
  \/ Pick(r) \/ PickNone(r) \/ Admit(r) \/ SkipUnavailable(r)

Sending(r) == HeadersArrive(r) \/ SendFails(r)

ReadingBody(r) == BodyArrives(r) \/ BodyFails(r)

Step(r) ==
  \/ \E id \in OverrideIds : Arrive(r, id)
  \/ Selecting(r) \/ Start(r) \/ Sending(r) \/ ReadingBody(r)
  \/ BackoffElapses(r) \/ ClientDisconnects(r)

Next == TimePasses \/ \E r \in Request : Step(r)

Spec == Init /\ [][Next]_vars

(* Fairness.  The executor polls every task that can run, timers fire, and *)
(* the timeout around send() ends it one way or the other; nothing of the  *)
(* kind is assumed of clients, nor in FairSpec of a body in transit, which *)
(* no timeout covers.  ResponsiveSpec adds that bodies do not stall.       *)
Scheduled(r) == Selecting(r) \/ Start(r) \/ Sending(r) \/ BackoffElapses(r)

FairSpec ==
  /\ Spec
  /\ WF_vars(TimePasses)
  /\ \A r \in Request : WF_vars(Scheduled(r))

ResponsiveSpec ==
  /\ FairSpec
  /\ \A r \in Request : WF_vars(ReadingBody(r))

-----------------------------------------------------------------------------
(* The inductive invariant behind the safety properties, in parts.         *)

\* What a request's local variables are at each of its locations: it holds a
\* provider it has not tried until on_request_start, and one it has tried
\* while it awaits the answer.
Bookkeeping ==
  \A r \in Request :
    /\ pc[r] \in {"check", "start"} \cup InExchange => candidate[r] \in Provider
    /\ pc[r] \in {"pick", "check"} => tried[r] \subseteq excluded[r]
    /\ pc[r] = "check" => candidate[r] \notin excluded[r]
    /\ pc[r] = "start" => candidate[r] \notin tried[r]
    /\ pc[r] \in InExchange => candidate[r] \in tried[r]

\* The loop variable counts the providers tried before this attempt.
Counting ==
  \A r \in Request :
    /\ pc[r] \in InSelection \cup {"start", "backoff"} =>
         Cardinality(tried[r]) = attempt[r]
    /\ pc[r] \in InExchange => Cardinality(tried[r]) = attempt[r] + 1

\* A provider that works is never charged with a failure, so its circuit stays
\* closed; no request leaves it behind, tried or excluded, and goes on.
WorkingProviders ==
  /\ \A p \in Reliable : IsClosed(p)
  /\ \A r \in Request :
       /\ pc[r] \in InSelection \cup {"start", "backoff"} =>
            tried[r] \cap Reliable = {}
       /\ pc[r] \in InExchange => tried[r] \cap Reliable \subseteq {candidate[r]}
       /\ pc[r] \in {"pick", "check"} => excluded[r] \cap Reliable = {}

-----------------------------------------------------------------------------
(* Properties                                                              *)

HealthSparesReliable == \A healthy \in HealthViews : Reliable \subseteq healthy

\* Provided the health filter lets the working providers through: a request
\* answered with "all providers failed" never contacted one of them, and it
\* had its reasons: it named a provider of another chain, or no provider
\* works, or it spent every attempt on others.  In particular an open circuit,
\* the override's included, costs no attempt (lib.rs:626-653), and no cursor
\* move, late failure or circuit change of another request hides a working
\* provider from it.
FailoverComplete ==
  HealthSparesReliable =>
  \A r \in Request :
    pc[r] = "failed" =>
      /\ tried[r] \cap Reliable = {}
      /\ \/ Foreign(r)
         \/ Reliable = {}
         \/ Cardinality(tried[r]) = MaxAttempts

\* Those past is_available and not yet counted by on_request_start.
Admitted(p) == {r \in Request : pc[r] = "start" /\ candidate[r] = p}

\* The gap between is_available (lib.rs:633,648) and on_request_start
\* (lib.rs:487) lets half_open_probe be exceeded, but by no more than the
\* other requests in flight: attempts counted and about to be counted.
ProbeOverrunBound ==
  \A p \in Provider :
    IsHalfOpen(p) =>
      circuit[p].attempts + Cardinality(Admitted(p))
        < HalfOpenProbe[p] + Cardinality(Request)

\* While a circuit stays open before its retry_at, no request gets past the
\* breaker to its provider, through the override or the balancer.
NoAdmissionWhileCooling ==
  [][\A p \in Provider :
       IsCooling(p) /\ IsCooling(p)' => Admitted(p)' \subseteq Admitted(p)]_vars

\* As long as no client disconnects, a half-open circuit has a request out
\* whose outcome will close it or open it again: without one it would stay
\* half-open, and once its attempts are used up unavailable, for good
\* (circuit.rs:92,111).
HalfOpenIsWatched ==
  ~ ClientsDisconnect =>
  \A p \in Provider :
    IsHalfOpen(p) =>
      \E r \in Request : candidate[r] = p /\ pc[r] \in InExchange

\* Every request the server takes ends, or waits for a body for ever:
\* select_provider's loop, the retries and the backoffs are all finite.
RequestEndsUnlessBodyStalls ==
  \A r \in Request :
    Active(r) ~> (pc[r] \in Ended \/ [](pc[r] = "body"))

\* Each request's task implements the promise of Failover: one provider at a
\* time, none twice, no more than MaxAttempts, an answer only from a provider
\* contacted (lib.rs:430,452-604).
Promise == INSTANCE Failover WITH
  MayBeAbandoned <- ClientsDisconnect,
  contacted <- tried,
  status <- [r \in Request |->
               CASE pc[r] \in InExchange -> "contacting"
                 [] pc[r] \in Ended \cup {"idle"} -> pc[r]
                 [] OTHER -> "choosing"]

ImplementsFailover == Promise!Spec

\* The breaker's automatic recovery: a provider that is unavailable becomes
\* available again.
CircuitRecovers ==
  \A p \in Provider : ~ IsAvailable(p) ~> IsAvailable(p)
=============================================================================
