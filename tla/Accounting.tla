----------------------------- MODULE Accounting -----------------------------
(***************************************************************************)
(* What the request path counts while it runs, the counters of             *)
(* crates/proxy-server/src/lib.rs:                                         *)
(*                                                                         *)
(*   rpc_requests_total             status started, success or failure     *)
(*   rpc_errors_total                                                      *)
(*   rpc_request_volume_total                                              *)
(*   rpc_provider_selections_total                                         *)
(*   rpc_request_completions_total  status success or failure              *)
(*                                                                         *)
(* They only ever grow, one request at a time, so a ledger keeps what each *)
(* request has added to them so far; a counter is the sum over all         *)
(* requests there have been.  Labels, other than provider <none>, and the  *)
(* histograms are left out.                                                *)
(***************************************************************************)
EXTENDS Gateway

VARIABLE
  ledger   \* each request's calls of increment_counter!, by place

accountingVars == <<ledger, vars>>

\* selections  rpc_provider_selections_total
\* successes   record_success_metrics and the completion counted after it
\* failures    record_failure_metrics with a provider
\* givenUp     record_failure_metrics without one and the completion counted
\*             after it
Blank == [selections |-> 0, successes |-> 0, failures |-> 0, givenUp |-> 0]

AccountingInit == Init /\ ledger = [r \in Request |-> Blank]

-----------------------------------------------------------------------------
(* Mutations of the definitions below.                                     *)

\* The final failure is counted in the Err arm only: a request that runs out
\* of providers returns past it.
GivesUpUncounted(r) ==
  \/ (RejectForeignOverride(r) \/ PickNone(r)) /\ UNCHANGED ledger
  \/ (SendFails(r) \/ BodyFails(r)) /\ pc'[r] = "failed" /\
     ledger' = [ledger EXCEPT ![r].failures = @ + 1, ![r].givenUp = @ + 1]

\* A body that breaks leaves by `?` before its failure is recorded.
FailsUncounted(r) ==
  \/ SendFails(r) /\ pc'[r] # "failed" /\
     ledger' = [ledger EXCEPT ![r].failures = @ + 1]
  \/ BodyFails(r) /\ pc'[r] # "failed" /\ UNCHANGED ledger

-----------------------------------------------------------------------------
\* status started, and the request volume
Begins(r) ==
  /\ \E id \in OverrideIds : Arrive(r, id)
  /\ ledger' = [ledger EXCEPT ![r] = Blank]

Selects(r) ==
  /\ Start(r)
  /\ ledger' = [ledger EXCEPT ![r].selections = @ + 1]

Succeeds(r) ==
  /\ BodyArrives(r)
  /\ ledger' = [ledger EXCEPT ![r].successes = @ + 1]

\* The Err arm of an attempt that is not the last.
Fails(r) ==
  /\ SendFails(r) \/ BodyFails(r)
  /\ pc'[r] # "failed"
  /\ ledger' = [ledger EXCEPT ![r].failures = @ + 1]

\* Past the loop, from its `break` or from its last Err arm.
GivesUp(r) ==
  \/ /\ RejectForeignOverride(r) \/ PickNone(r)
     /\ ledger' = [ledger EXCEPT ![r].givenUp = @ + 1]
  \/ /\ SendFails(r) \/ BodyFails(r)
     /\ pc'[r] = "failed"
     /\ ledger' = [ledger EXCEPT ![r].failures = @ + 1, ![r].givenUp = @ + 1]

\* A future that is dropped counts nothing any more.
CountsNothing(r) ==
  /\ \/ SelectOverride(r) \/ BypassOverride(r) \/ Pick(r) \/ Admit(r)
     \/ SkipUnavailable(r) \/ HeadersArrive(r) \/ BackoffElapses(r)
     \/ ClientDisconnects(r)
  /\ UNCHANGED ledger

AccountingNext ==
  \/ TimePasses /\ UNCHANGED ledger
  \/ \E r \in Request :
       \/ Begins(r) \/ Selects(r) \/ Succeeds(r) \/ Fails(r) \/ GivesUp(r)
       \/ CountsNothing(r)

AccountingSpec == AccountingInit /\ [][AccountingNext]_accountingVars

-----------------------------------------------------------------------------
(* What a request has added to the counters                                *)

RequestsTotal(r) ==
  1 + ledger[r].successes + ledger[r].failures + ledger[r].givenUp
ErrorsTotal(r) == ledger[r].failures + ledger[r].givenUp
Completions(r) == ledger[r].successes + ledger[r].givenUp

-----------------------------------------------------------------------------
(* Properties                                                              *)

\* Started and completed requests can be compared: a request is completed
\* exactly once if it is answered, with the status of its answer, and never if
\* its client left, whatever retries, exclusions and early exits it went
\* through.  started - completions is therefore the requests in flight plus
\* all that were ever dropped.
CompletedOnce ==
  \A r \in Request :
    /\ Completions(r) = IF pc[r] \in {"ok", "failed"} THEN 1 ELSE 0
    /\ ledger[r].successes = 1 <=> pc[r] = "ok"

\* Selections are settled one by one: each is a success, a failure with its
\* provider, or the one exchange under way or dropped; and they are the
\* providers tried.  So a failed request adds one error, of nobody in
\* particular, to those of its attempts; and a request adds its start to
\* rpc_requests_total besides, of which successes are half at best.
SelectionsAreSettled ==
  \A r \in Request :
    LET open == ledger[r].selections - ledger[r].successes - ledger[r].failures
        lost == IF pc[r] = "failed" THEN 1 ELSE 0
    IN
      /\ pc[r] # "idle" => ledger[r].selections = Cardinality(tried[r])
      /\ pc[r] \in InExchange => open = 1
      /\ pc[r] \notin InExchange \cup {"dropped"} => open = 0
      /\ open \in {0, 1}
      /\ ErrorsTotal(r) = ledger[r].failures + lost
      /\ RequestsTotal(r) = 1 + Cardinality(tried[r]) - open + lost
=============================================================================
