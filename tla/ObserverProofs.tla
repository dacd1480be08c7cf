--------------------------- MODULE ObserverProofs ---------------------------
(***************************************************************************)
(* What surrounds the request path: the counters, the readiness scan and   *)
(* the process.  None of them makes it do what it would not do alone, so   *)
(* that its theorems hold under each of them; the counters add up, and an  *)
(* idle chain heals.                                                       *)
(***************************************************************************)
EXTENDS Accounting, Lifecycle, Readiness, BreakerProofs

-----------------------------------------------------------------------------
(* Counting takes no part in the request path.                             *)

\* Every step that counts is a step of the request path.
LEMMA CountingStepIsGatewayStep ==
  ASSUME [AccountingNext]_accountingVars
  PROVE  [Next]_vars
<1>1. CASE TimePasses
  BY <1>1 DEF Next
<1>2. ASSUME NEW r \in Request,
             Begins(r) \/ Selects(r) \/ Succeeds(r) \/ Fails(r) \/ GivesUp(r)
               \/ CountsNothing(r)
      PROVE  Step(r)
  BY <1>2 DEF Begins, Selects, Succeeds, Fails, GivesUp, CountsNothing,
              Step, Selecting, Sending, ReadingBody
<1>3. CASE UNCHANGED accountingVars
  BY <1>3 DEF accountingVars
<1> QED
  BY <1>1, <1>2, <1>3 DEF AccountingNext, Next

\* With its counters, the request path does what it does without them: what is
\* proved of Gateway holds of the specification the runs check.
THEOREM CountersOnlyObserve == AccountingSpec => Spec
<1>1. AccountingInit => Init
  BY DEF AccountingInit
<1>2. [AccountingNext]_accountingVars => [Next]_vars
  BY CountingStepIsGatewayStep
<1> QED
  BY <1>1, <1>2, PTL DEF AccountingSpec, Spec

-----------------------------------------------------------------------------
(* The ledger of each request.                                             *)

Ledger == [selections : Nat, successes : Nat, failures : Nat, givenUp : Nat]

LedgerTypeOK == ledger \in [Request -> Ledger]

\* What each entry of the ledger has come to at each location: a selection for
\* each provider tried, all of them settled but the one of an exchange under
\* way or dropped; a success or a final failure when the request has ended so.
Balanced ==
  \A r \in Request :
    /\ ledger[r].selections = Cardinality(tried[r])
    /\ ledger[r].successes = IF pc[r] = "ok" THEN 1 ELSE 0
    /\ ledger[r].givenUp = IF pc[r] = "failed" THEN 1 ELSE 0
    /\ pc[r] \in InExchange =>
         ledger[r].selections = ledger[r].failures + 1
    /\ pc[r] \notin InExchange \cup {"dropped"} =>
         ledger[r].selections = ledger[r].successes + ledger[r].failures
    /\ pc[r] = "dropped" =>
         \/ ledger[r].selections = ledger[r].failures
         \/ ledger[r].selections = ledger[r].failures + 1

\* What adding to the entries of one request's ledger does to the ledgers.
LEMMA LedgerEntries ==
  ASSUME LedgerTypeOK, NEW r \in Request, NEW l \in Ledger,
         ledger' = [ledger EXCEPT ![r] = l]
  PROVE  /\ LedgerTypeOK'
         /\ ledger'[r] = l
         /\ \A q \in Request \ {r} : ledger'[q] = ledger[q]
BY DEF LedgerTypeOK

\* A new request has counted nothing.
LEMMA BlankLedger == Blank \in Ledger
BY DEF Blank, Ledger

\* Every ledger is blank initially.
LEMMA BalancedInit == AccountingInit => LedgerTypeOK /\ Balanced
BY BlankLedger, FS_EmptySet
   DEF AccountingInit, Init, LedgerTypeOK, Balanced, Blank, InExchange

\* Each step counts what it does, and nothing else.
LEMMA BalancedStep ==
  ASSUME TypeOK, Bookkeeping, LedgerTypeOK, Balanced,
         [AccountingNext]_accountingVars
  PROVE  LedgerTypeOK' /\ Balanced'
<1> USE DEF Balanced, Goto, End, locals, InExchange
<1>1. /\ tried \in [Request -> SUBSET Provider]
      /\ pc \in [Request -> Locations]
  BY DEF TypeOK
<1>2. \A r \in Request : ledger[r] \in Ledger
  BY DEF LedgerTypeOK
<1>3. CASE TimePasses /\ UNCHANGED ledger
  BY <1>3 DEF TimePasses, LedgerTypeOK
<1>4. ASSUME NEW r \in Request, Begins(r)
      PROVE  LedgerTypeOK' /\ Balanced'
  <2>1. PICK id \in OverrideIds : Arrive(r, id)
    BY <1>4 DEF Begins
  <2>2. ledger' = [ledger EXCEPT ![r] = Blank]
    BY <1>4 DEF Begins
  <2>3. /\ LedgerTypeOK' /\ ledger'[r] = Blank
        /\ \A q \in Request \ {r} : ledger'[q] = ledger[q]
    BY <2>2, BlankLedger, LedgerEntries
  <2> QED
    BY <1>1, <2>1, <2>3, FS_EmptySet DEF Arrive, Blank
<1>5. ASSUME NEW r \in Request, Selects(r)
      PROVE  LedgerTypeOK' /\ Balanced'
  <2> DEFINE l == [ledger[r] EXCEPT !.selections = @ + 1]
  <2>1. ledger' = [ledger EXCEPT ![r] = l]
    BY <1>5 DEF Selects
  <2>2. /\ l \in Ledger /\ l.selections = ledger[r].selections + 1
        /\ l.successes = ledger[r].successes
        /\ l.failures = ledger[r].failures /\ l.givenUp = ledger[r].givenUp
    BY <1>2 DEF Ledger
  <2> HIDE DEF l
  <2>3. /\ LedgerTypeOK' /\ ledger'[r] = l
        /\ \A q \in Request \ {r} : ledger'[q] = ledger[q]
    BY <2>1, <2>2, LedgerEntries
  <2>4. candidate[r] \in Provider /\ candidate[r] \notin tried[r]
    BY <1>5 DEF Selects, Start, Bookkeeping
  <2>5. Cardinality(tried[r] \cup {candidate[r]}) = Cardinality(tried[r]) + 1
    BY <2>4, TriedGrows
  <2> QED
    BY <1>1, <1>2, <1>5, <2>2, <2>3, <2>5 DEF Selects, Start, Ledger
<1>6. ASSUME NEW r \in Request, Succeeds(r)
      PROVE  LedgerTypeOK' /\ Balanced'
  <2> DEFINE l == [ledger[r] EXCEPT !.successes = @ + 1]
  <2>1. ledger' = [ledger EXCEPT ![r] = l]
    BY <1>6 DEF Succeeds
  <2>2. /\ l \in Ledger /\ l.successes = ledger[r].successes + 1
        /\ l.selections = ledger[r].selections
        /\ l.failures = ledger[r].failures /\ l.givenUp = ledger[r].givenUp
    BY <1>2 DEF Ledger
  <2> HIDE DEF l
  <2>3. /\ LedgerTypeOK' /\ ledger'[r] = l
        /\ \A q \in Request \ {r} : ledger'[q] = ledger[q]
    BY <2>1, <2>2, LedgerEntries
  <2> QED
    BY <1>1, <1>2, <1>6, <2>2, <2>3 DEF Succeeds, BodyArrives, Ledger
<1>7. ASSUME NEW r \in Request, Fails(r)
      PROVE  LedgerTypeOK' /\ Balanced'
  <2> DEFINE l == [ledger[r] EXCEPT !.failures = @ + 1]
  <2>1. ledger' = [ledger EXCEPT ![r] = l]
    BY <1>7 DEF Fails
  <2>2. /\ l \in Ledger /\ l.failures = ledger[r].failures + 1
        /\ l.selections = ledger[r].selections
        /\ l.successes = ledger[r].successes /\ l.givenUp = ledger[r].givenUp
    BY <1>2 DEF Ledger
  <2> HIDE DEF l
  <2>3. /\ LedgerTypeOK' /\ ledger'[r] = l
        /\ \A q \in Request \ {r} : ledger'[q] = ledger[q]
    BY <2>1, <2>2, LedgerEntries
  <2>4. PICK location \in {"select", "backoff"} :
          /\ pc' = [pc EXCEPT ![r] = location]
          /\ tried' = tried
    BY <1>1, <1>7 DEF Fails, SendFails, BodyFails, AttemptFails
  <2>5. pc[r] \in InExchange
    BY <1>7 DEF Fails, SendFails, BodyFails
  <2> QED
    BY <1>1, <1>2, <2>2, <2>3, <2>4, <2>5 DEF Ledger
<1>8. ASSUME NEW r \in Request, RejectForeignOverride(r) \/ PickNone(r),
             ledger' = [ledger EXCEPT ![r].givenUp = @ + 1]
      PROVE  LedgerTypeOK' /\ Balanced'
  <2> DEFINE l == [ledger[r] EXCEPT !.givenUp = @ + 1]
  <2>1. ledger' = [ledger EXCEPT ![r] = l]
    BY <1>8
  <2>2. /\ l \in Ledger /\ l.givenUp = ledger[r].givenUp + 1
        /\ l.selections = ledger[r].selections
        /\ l.successes = ledger[r].successes /\ l.failures = ledger[r].failures
    BY <1>2 DEF Ledger
  <2> HIDE DEF l
  <2>3. /\ LedgerTypeOK' /\ ledger'[r] = l
        /\ \A q \in Request \ {r} : ledger'[q] = ledger[q]
    BY <2>1, <2>2, LedgerEntries
  <2> QED
    BY <1>1, <1>2, <1>8, <2>2, <2>3
       DEF RejectForeignOverride, PickNone, Ledger
<1>9. ASSUME NEW r \in Request, SendFails(r) \/ BodyFails(r),
             pc'[r] = "failed",
             ledger' = [ledger EXCEPT ![r].failures = @ + 1,
                                      ![r].givenUp = @ + 1]
      PROVE  LedgerTypeOK' /\ Balanced'
  <2>1. /\ ledger' \in [Request -> Ledger]
        /\ ledger'[r].failures = ledger[r].failures + 1
        /\ ledger'[r].givenUp = ledger[r].givenUp + 1
        /\ ledger'[r].selections = ledger[r].selections
        /\ ledger'[r].successes = ledger[r].successes
        /\ \A q \in Request \ {r} : ledger'[q] = ledger[q]
    <3> DEFINE m == [ledger EXCEPT ![r].failures = @ + 1]
    <3>1. /\ m \in [Request -> Ledger]
          /\ m[r].failures = ledger[r].failures + 1
          /\ m[r].givenUp = ledger[r].givenUp
          /\ m[r].selections = ledger[r].selections
          /\ m[r].successes = ledger[r].successes
          /\ \A q \in Request \ {r} : m[q] = ledger[q]
      BY <1>2 DEF LedgerTypeOK, Ledger
    <3>2. ledger' = [m EXCEPT ![r].givenUp = @ + 1]
      BY <1>9
    <3> HIDE DEF m
    <3> QED
      BY <3>1, <3>2 DEF Ledger
  <2>2. pc' = [pc EXCEPT ![r] = "failed"] /\ tried' = tried
    BY <1>1, <1>9 DEF SendFails, BodyFails, AttemptFails
  <2>3. pc[r] \in InExchange
    BY <1>9 DEF SendFails, BodyFails
  <2> QED
    BY <1>1, <1>2, <2>1, <2>2, <2>3 DEF LedgerTypeOK, Ledger
<1>10. ASSUME NEW r \in Request, CountsNothing(r)
       PROVE  LedgerTypeOK' /\ Balanced'
  <2>1. UNCHANGED <<ledger, tried>>
    BY <1>10 DEF CountsNothing, SelectOverride, BypassOverride, Pick, Admit,
         SkipUnavailable, HeadersArrive, BackoffElapses, ClientDisconnects
  <2>2. CASE ClientDisconnects(r)
    BY <1>1, <1>2, <2>1, <2>2 DEF ClientDisconnects, LedgerTypeOK, Ledger
  <2>3. CASE ~ ClientDisconnects(r)
    BY <1>1, <1>2, <1>10, <2>1, <2>3
       DEF CountsNothing, SelectOverride, BypassOverride, Pick, Admit,
           SkipUnavailable, HeadersArrive, BackoffElapses, LedgerTypeOK, Ledger
  <2> QED
    BY <2>2, <2>3
<1>11. CASE UNCHANGED accountingVars
  BY <1>11 DEF accountingVars, vars, LedgerTypeOK
<1> QED
  BY <1>3, <1>4, <1>5, <1>6, <1>7, <1>8, <1>9, <1>10, <1>11
     DEF AccountingNext, GivesUp

\* The ledgers are balanced in every reachable state.
LEMMA LedgersBalance == AccountingSpec => [](LedgerTypeOK /\ Balanced)
<1> DEFINE Inv == TypeOK /\ Bookkeeping /\ LedgerTypeOK /\ Balanced
<1>1. AccountingInit => Inv
  BY BookkeepingInit, BalancedInit DEF AccountingInit
<1>2. Inv /\ [AccountingNext]_accountingVars => Inv'
  BY CountingStepIsGatewayStep, BookkeepingStep, BalancedStep
<1>3. Inv => LedgerTypeOK /\ Balanced
  OBVIOUS
<1> QED
  BY <1>1, <1>2, <1>3, PTL DEF AccountingSpec

\* A request that is answered is completed once, with the status of its
\* answer, and one whose client left never is: started less completed requests
\* are those in flight and those that were dropped.
THEOREM CompletionsAreOnce == AccountingSpec => []CompletedOnce
<1>1. LedgerTypeOK /\ Balanced => CompletedOnce
  BY DEF Balanced, CompletedOnce, Completions, LedgerTypeOK, Ledger
<1> QED
  BY <1>1, LedgersBalance, PTL

\* rpc_provider_selections_total is settled by the successes and failures that
\* name a provider, up to one exchange a request has under way or abandoned;
\* errors and requests in total follow from it.
THEOREM SelectionsSettle == AccountingSpec => []SelectionsAreSettled
<1>1. ASSUME LedgerTypeOK, Balanced, NEW r \in Request
      PROVE  LET open == ledger[r].selections - ledger[r].successes
                           - ledger[r].failures
                 lost == IF pc[r] = "failed" THEN 1 ELSE 0
             IN /\ pc[r] # "idle" =>
                     ledger[r].selections = Cardinality(tried[r])
                /\ pc[r] \in InExchange => open = 1
                /\ pc[r] \notin InExchange \cup {"dropped"} => open = 0
                /\ open \in {0, 1}
                /\ ErrorsTotal(r) = ledger[r].failures + lost
                /\ RequestsTotal(r) = 1 + Cardinality(tried[r]) - open + lost
  <2> DEFINE l == ledger[r]
             open == l.selections - l.successes - l.failures
             lost == IF pc[r] = "failed" THEN 1 ELSE 0
  <2>1. /\ l.selections \in Nat /\ l.successes \in Nat
        /\ l.failures \in Nat /\ l.givenUp \in Nat
    BY <1>1 DEF LedgerTypeOK, Ledger
  <2>2. /\ l.selections = Cardinality(tried[r])
        /\ l.successes = IF pc[r] = "ok" THEN 1 ELSE 0
        /\ l.givenUp = lost
    BY <1>1 DEF Balanced
  <2>3. /\ pc[r] \in InExchange => open = 1
        /\ pc[r] \notin InExchange \cup {"dropped"} => open = 0
        /\ pc[r] = "dropped" => open \in {0, 1}
    <3>1. /\ pc[r] \in InExchange => l.selections = l.failures + 1
          /\ pc[r] \notin InExchange \cup {"dropped"} =>
               l.selections = l.successes + l.failures
          /\ pc[r] = "dropped" =>
               \/ l.selections = l.failures
               \/ l.selections = l.failures + 1
      BY <1>1 DEF Balanced
    <3> HIDE DEF l
    <3> QED
      BY <2>1, <2>2, <3>1 DEF InExchange
  <2>4. ErrorsTotal(r) = l.failures + lost
    BY <2>2 DEF ErrorsTotal
  <2>5. RequestsTotal(r) = 1 + l.successes + l.failures + lost
    BY <2>2 DEF RequestsTotal
  <2> HIDE DEF l, lost
  <2>6. RequestsTotal(r) = 1 + Cardinality(tried[r]) - open + lost
    BY <2>1, <2>2, <2>5 DEF lost
  <2>7. open \in {0, 1}
    BY <2>3 DEF InExchange
  <2> QED
    BY <2>2, <2>3, <2>4, <2>6, <2>7, Zenon DEF l, lost
<1>2. LedgerTypeOK /\ Balanced => SelectionsAreSettled
  BY <1>1 DEF SelectionsAreSettled
<1> QED
  BY <1>2, LedgersBalance, PTL

-----------------------------------------------------------------------------
(* The process gates the request path.                                     *)

\* What the process lets happen is a step of the request path, or none.
LEMMA ServerStepIsGatewayStep ==
  ASSUME [LifecycleNext]_lifecycleVars
  PROVE  [Next]_vars
<1>1. CASE Serve \/ StartFails \/ Signal \/ Stop
  BY <1>1 DEF Serve, StartFails, Signal, Stop
<1>2. CASE Alive(TimePasses)
  BY <1>2 DEF Alive, Next
<1>3. ASSUME NEW r \in Request, Accept(r) \/ UploadEnds(r) \/ Alive(Step(r))
      PROVE  [Next]_vars
  BY <1>3 DEF Accept, UploadEnds, Alive, Step, Next
<1>4. CASE UNCHANGED lifecycleVars
  BY <1>4 DEF lifecycleVars
<1> QED
  BY <1>1, <1>2, <1>3, <1>4 DEF LifecycleNext

\* Start-up, signals and shutdown add nothing to what requests can do: what is
\* proved of Gateway holds until the process is gone.
THEOREM ServerOnlyGates == LifecycleSpec => Spec
<1>1. LifecycleInit => Init
  BY DEF LifecycleInit
<1>2. [LifecycleNext]_lifecycleVars => [Next]_vars
  BY ServerStepIsGatewayStep
<1> QED
  BY <1>1, <1>2, PTL DEF LifecycleSpec, Spec

-----------------------------------------------------------------------------
(* The readiness scan only looks.                                          *)

\* Being asked for readiness changes nothing a request could notice.
THEOREM ScansOnlyObserve == ReadinessSpec => Spec
<1>1. ReadinessInit => Init
  BY DEF ReadinessInit
<1>2. ASSUME [ReadinessNext]_readinessVars
      PROVE  [Next]_vars
  BY <1>2 DEF ReadinessNext, BeginScan, AskNext, Ask, readinessVars
<1> QED
  BY <1>1, <1>2, PTL DEF ReadinessSpec, Spec

\* Without disconnects, a provider of a chain that no request is in flight for
\* is available, or will be as soon as its open circuit has cooled down:
\* nothing is half-open that only a request could settle, so that readiness
\* comes back without traffic (admin.rs:53-95).
THEOREM IdleChainsHeal ==
  ReadinessSpec =>
    [](~ ClientsDisconnect /\ (\A r \in Request : ~ Active(r)) =>
         \A p \in Provider : IsAvailable(p) \/ IsCooling(p))
<1>1. TypeOK /\ HalfOpenIsWatched =>
        (~ ClientsDisconnect /\ (\A r \in Request : ~ Active(r)) =>
           \A p \in Provider : IsAvailable(p) \/ IsCooling(p))
  <2> SUFFICES ASSUME TypeOK, HalfOpenIsWatched, ~ ClientsDisconnect,
                      \A r \in Request : ~ Active(r),
                      NEW p \in Provider
               PROVE  IsAvailable(p) \/ IsCooling(p)
    OBVIOUS
  <2>1. ~ IsHalfOpen(p)
    BY DEF HalfOpenIsWatched, Active, InExchange, Ended
  <2>2. /\ circuit[p].state \in {"closed", "open", "half_open"}
        /\ circuit[p].retryIn \in Nat
    BY DEF TypeOK, CircuitTypeOK, Circuit
  <2> QED
    BY <2>1, <2>2 DEF IsAvailable, IsCooling, IsClosed, IsHalfOpen
<1> QED
  BY <1>1, ScansOnlyObserve, TypeCorrect, HalfOpenIsAlwaysWatched, PTL
=============================================================================
