--------------------------- MODULE GatewayProofs ---------------------------
(***************************************************************************)
(* Safety of Gateway, and that it implements Failover, for every chain,    *)
(* every configuration of the breaker and any number of concurrent         *)
(* requests.                                                               *)
(***************************************************************************)
EXTENDS Gateway, FiniteSetTheorems, TLAPS

-----------------------------------------------------------------------------
(* The breaker's methods, one by one.                                      *)

\* A saturating u32 stays a u32.
LEMMA SaturatingIncrementType ==
  ASSUME NEW n \in 0 .. U32Max
  PROVE  SaturatingIncrement(n) \in 0 .. U32Max
BY BreakerAssumption DEF SaturatingIncrement

\* The three kinds of circuit are what Circuit says.
LEMMA CircuitKinds ==
  ASSUME NEW f \in 0 .. U32Max, NEW n \in Nat, NEW a \in 0 .. U32Max
  PROVE  /\ Closed(f) \in Circuit /\ Closed(f).retryIn = 0
         /\ Open(f, n) \in Circuit /\ Open(f, n).retryIn = n
         /\ HalfOpen(f, a) \in Circuit /\ HalfOpen(f, a).retryIn = 0
         /\ Closed(f).state = "closed"
         /\ Open(f, n).state = "open"
         /\ HalfOpen(f, a).state = "half_open"
         /\ HalfOpen(f, a).attempts = a
BY BreakerAssumption DEF Closed, Open, HalfOpen, Circuit

\* What replacing one entry of the map does to the map.
LEMMA EntryReplaced ==
  ASSUME CircuitTypeOK, NEW p \in Provider, NEW c \in Circuit,
         c.retryIn <= ResetTimeout[p],
         circuit' = [circuit EXCEPT ![p] = c]
  PROVE  /\ CircuitTypeOK'
         /\ circuit'[p] = c
         /\ \A q \in Provider \ {p} : circuit'[q] = circuit[q]
BY DEF CircuitTypeOK

\* on_request_start touches its own circuit only, counts one attempt on a
\* half-open one and none on the one it makes half-open.
LEMMA OnRequestStartEffect ==
  ASSUME CircuitTypeOK, NEW p \in Provider, OnRequestStart(p)
  PROVE  /\ CircuitTypeOK'
         /\ \A q \in Provider \ {p} : circuit'[q] = circuit[q]
         /\ IsClosed(p) => IsClosed(p)'
         /\ IsHalfOpen(p)' =>
              \/ circuit'[p].attempts = 0
              \/ IsHalfOpen(p) /\ circuit'[p].attempts <= circuit[p].attempts + 1
<1> DEFINE c == circuit[p]
           a == SaturatingIncrement(c.attempts)
           d == CASE c.state = "open" /\ c.retryIn = 0 -> HalfOpen(c.failures, 0)
                  [] c.state = "half_open" -> HalfOpen(c.failures, a)
                  [] OTHER -> c
<1>1. /\ c \in Circuit /\ c.retryIn <= ResetTimeout[p]
      /\ c.failures \in 0 .. U32Max /\ c.attempts \in 0 .. U32Max
  BY DEF CircuitTypeOK, Circuit
<1>2. a \in 0 .. U32Max /\ a <= c.attempts + 1
  BY <1>1, SaturatingIncrementType, BreakerAssumption DEF SaturatingIncrement
<1>3. circuit' = [circuit EXCEPT ![p] = d]
  BY DEF OnRequestStart, CircuitTypeOK
<1> HIDE DEF a, c
<1>4. CASE c.state = "open" /\ c.retryIn = 0
  <2>1. d = HalfOpen(c.failures, 0)
    BY <1>4
  <2>2. HalfOpen(c.failures, 0) \in Circuit
        /\ HalfOpen(c.failures, 0).retryIn <= ResetTimeout[p]
        /\ HalfOpen(c.failures, 0).attempts = 0
    BY <1>1, CircuitKinds, BreakerAssumption
  <2> QED
    BY <1>3, <1>4, <2>1, <2>2, EntryReplaced DEF IsClosed, c
<1>5. CASE c.state = "half_open"
  <2>1. d = HalfOpen(c.failures, a)
    BY <1>5
  <2>2. HalfOpen(c.failures, a) \in Circuit
        /\ HalfOpen(c.failures, a).retryIn <= ResetTimeout[p]
        /\ HalfOpen(c.failures, a).attempts = a
    BY <1>1, <1>2, CircuitKinds, BreakerAssumption
  <2> QED
    BY <1>2, <1>3, <1>5, <2>1, <2>2, EntryReplaced DEF IsClosed, IsHalfOpen, c
<1>6. CASE ~ (c.state = "open" /\ c.retryIn = 0) /\ c.state # "half_open"
  <2>1. d = c
    BY <1>6
  <2> QED
    BY <1>1, <1>3, <1>6, <2>1, EntryReplaced DEF IsClosed, IsHalfOpen, c
<1> QED
  BY <1>4, <1>5, <1>6

\* on_success closes its circuit, on_failure leaves it closed or open; neither
\* touches another one.
LEMMA OnSuccessEffect ==
  ASSUME CircuitTypeOK, NEW p \in Provider, OnSuccess(p)
  PROVE  /\ CircuitTypeOK'
         /\ \A q \in Provider \ {p} : circuit'[q] = circuit[q]
         /\ IsClosed(p)'
<1> DEFINE c == Closed(0)
<1>1. c \in Circuit /\ c.retryIn <= ResetTimeout[p] /\ c.state = "closed"
  BY CircuitKinds, BreakerAssumption
<1>2. circuit' = [circuit EXCEPT ![p] = c]
  BY DEF OnSuccess
<1> HIDE DEF c
<1> QED
  BY <1>1, <1>2, EntryReplaced DEF IsClosed

\* on_failure charges one provider and leaves every other circuit alone.
LEMMA OnFailureEffect ==
  ASSUME CircuitTypeOK, NEW p \in Provider, OnFailure(p)
  PROVE  /\ CircuitTypeOK'
         /\ \A q \in Provider \ {p} : circuit'[q] = circuit[q]
         /\ ~ IsHalfOpen(p)'
<1> DEFINE c == circuit[p]
           f == SaturatingIncrement(c.failures)
           d == IF c.state = "closed" /\ f < FailureThreshold[p]
                  THEN Closed(f) ELSE Open(f, ResetTimeout[p])
<1>1. f \in 0 .. U32Max
  BY SaturatingIncrementType DEF CircuitTypeOK, Circuit
<1>2. circuit' = [circuit EXCEPT ![p] = d]
  BY DEF OnFailure, CircuitTypeOK
<1> HIDE DEF f, c
<1>3. d \in Circuit /\ d.retryIn <= ResetTimeout[p] /\ d.state # "half_open"
  BY <1>1, CircuitKinds, BreakerAssumption
<1> QED
  BY <1>2, <1>3, EntryReplaced DEF IsHalfOpen

\* Time passing changes no circuit's state or counters.
LEMMA TickEffect ==
  ASSUME CircuitTypeOK, Tick
  PROVE  /\ CircuitTypeOK'
         /\ \A p \in Provider : /\ circuit'[p].state = circuit[p].state
                                /\ circuit'[p].attempts = circuit[p].attempts
<1>1. ASSUME NEW p \in Provider
      PROVE  /\ circuit'[p] \in Circuit
             /\ circuit'[p].retryIn <= ResetTimeout[p]
             /\ circuit'[p].state = circuit[p].state
             /\ circuit'[p].attempts = circuit[p].attempts
  <2>1. circuit[p] \in Circuit /\ circuit[p].retryIn <= ResetTimeout[p]
    BY DEF CircuitTypeOK
  <2>2. CASE IsCooling(p)
    <3>1. circuit'[p] = [circuit[p] EXCEPT !.retryIn = circuit[p].retryIn - 1]
      BY <2>2 DEF Tick
    <3>2. circuit[p].retryIn \in Nat /\ circuit[p].retryIn > 0
      BY <2>1, <2>2 DEF Circuit, IsCooling
    <3> QED
      BY <2>1, <3>1, <3>2, BreakerAssumption DEF Circuit
  <2>3. CASE ~ IsCooling(p)
    BY <2>1, <2>3 DEF Tick
  <2> QED
    BY <2>2, <2>3
<1>2. circuit' = [p \in Provider |-> circuit'[p]]
  BY DEF Tick
<1> QED
  BY <1>1, <1>2 DEF CircuitTypeOK

-----------------------------------------------------------------------------
(* The balancer.                                                           *)

\* The pool is not empty, so the cursor always has a place to be.
LEMMA PoolLength == Len(Pool) \in Nat /\ Len(Pool) > 0
BY PoolAssumption

\* select answers with one of the providers it found eligible.
LEMMA SelectEffect ==
  ASSUME CursorTypeOK, NEW eligible, NEW p, Select(eligible, p)
  PROVE  CursorTypeOK' /\ p \in eligible
<1>1. CASE WeightedRandom(eligible, p)
  BY <1>1 DEF WeightedRandom, CursorTypeOK
<1>2. CASE NextRoundRobin(eligible, p)
  <2>1. PICK k \in 0 .. (Len(Pool) - 1) :
          /\ p \in eligible
          /\ cursor' = (((cursor + k) % Len(Pool)) + 1) % Len(Pool)
    BY <1>2 DEF NextRoundRobin
  <2> QED
    BY <2>1, PoolLength DEF CursorTypeOK
<1> QED
  BY <1>1, <1>2 DEF Select

-----------------------------------------------------------------------------
(* Types, and what a request holds at each of its locations.               *)

\* At least one attempt is allowed.
LEMMA AttemptsAllowed == MaxAttempts \in Nat /\ MaxAttempts >= 1
BY GatewayAssumption DEF MaxAttempts

\* No request has any locals initially.
LEMMA BookkeepingInit == Init => TypeOK /\ Bookkeeping
<1> SUFFICES ASSUME Init PROVE TypeOK /\ Bookkeeping
  OBVIOUS
<1>1. CircuitTypeOK
  BY CircuitKinds, BreakerAssumption DEF Init, CircuitInit, CircuitTypeOK
<1>2. CursorTypeOK
  BY PoolLength DEF Init, CursorInit, CursorTypeOK
<1> QED
  BY <1>1, <1>2, AttemptsAllowed, GatewayAssumption
     DEF Init, TypeOK, Bookkeeping, Locations, Ended, InSelection, InExchange

\* Every step keeps a request's locals in the order its loop relies on.
LEMMA BookkeepingStep ==
  ASSUME TypeOK, Bookkeeping, [Next]_vars
  PROVE  TypeOK' /\ Bookkeeping'
<1> USE DEF TypeOK, Bookkeeping, Goto, End, locals,
            Locations, Ended, InSelection, InExchange
<1> USE AttemptsAllowed
<1>1. CASE TimePasses
  BY <1>1, TickEffect DEF TimePasses, CursorTypeOK
<1>2. ASSUME NEW r \in Request, NEW id \in OverrideIds, Arrive(r, id)
      PROVE  TypeOK' /\ Bookkeeping'
  BY <1>2 DEF Arrive, Active, CircuitTypeOK, CursorTypeOK
<1>3. ASSUME NEW r \in Request, SelectOverride(r)
      PROVE  TypeOK' /\ Bookkeeping'
  BY <1>3 DEF SelectOverride, CircuitTypeOK, CursorTypeOK
<1>4. ASSUME NEW r \in Request, RejectForeignOverride(r)
      PROVE  TypeOK' /\ Bookkeeping'
  BY <1>4 DEF RejectForeignOverride, CircuitTypeOK, CursorTypeOK
<1>5. ASSUME NEW r \in Request, BypassOverride(r)
      PROVE  TypeOK' /\ Bookkeeping'
  BY <1>5 DEF BypassOverride, CircuitTypeOK, CursorTypeOK
<1>6. ASSUME NEW r \in Request, Pick(r)
      PROVE  TypeOK' /\ Bookkeeping'
  <2>1. PICK healthy \in HealthViews :
          \E p \in Eligible(healthy, excluded[r]) :
            /\ Select(Eligible(healthy, excluded[r]), p)
            /\ candidate' = [candidate EXCEPT ![r] = p]
    BY <1>6 DEF Pick
  <2>2. PICK p \in Eligible(healthy, excluded[r]) :
            /\ Select(Eligible(healthy, excluded[r]), p)
            /\ candidate' = [candidate EXCEPT ![r] = p]
    BY <2>1
  <2>3. p \in Provider /\ p \notin excluded[r]
    BY GatewayAssumption DEF Eligible
  <2>4. CursorTypeOK'
    BY <2>2, SelectEffect
  <2> QED
    BY <1>6, <2>2, <2>3, <2>4 DEF Pick, CircuitTypeOK
<1>7. ASSUME NEW r \in Request, PickNone(r)
      PROVE  TypeOK' /\ Bookkeeping'
  BY <1>7 DEF PickNone, CircuitTypeOK, CursorTypeOK
<1>8. ASSUME NEW r \in Request, Admit(r)
      PROVE  TypeOK' /\ Bookkeeping'
  BY <1>8 DEF Admit, CircuitTypeOK, CursorTypeOK
<1>9. ASSUME NEW r \in Request, SkipUnavailable(r)
      PROVE  TypeOK' /\ Bookkeeping'
  BY <1>9 DEF SkipUnavailable, CircuitTypeOK, CursorTypeOK
<1>10. ASSUME NEW r \in Request, Start(r)
       PROVE  TypeOK' /\ Bookkeeping'
  <2>1. CircuitTypeOK'
    BY <1>10, OnRequestStartEffect DEF Start
  <2> QED
    BY <1>10, <2>1 DEF Start, CursorTypeOK
<1>11. ASSUME NEW r \in Request, HeadersArrive(r)
       PROVE  TypeOK' /\ Bookkeeping'
  BY <1>11 DEF HeadersArrive, CircuitTypeOK, CursorTypeOK
<1>12. ASSUME NEW r \in Request, BodyArrives(r)
       PROVE  TypeOK' /\ Bookkeeping'
  <2>1. CircuitTypeOK'
    BY <1>12, OnSuccessEffect DEF BodyArrives
  <2> QED
    BY <1>12, <2>1 DEF BodyArrives, CursorTypeOK
<1>13. ASSUME NEW r \in Request, SendFails(r) \/ BodyFails(r)
       PROVE  TypeOK' /\ Bookkeeping'
  <2>1. CircuitTypeOK'
    BY <1>13, OnFailureEffect DEF SendFails, BodyFails, AttemptFails
  <2>2. CursorTypeOK'
    BY <1>13 DEF SendFails, BodyFails, AttemptFails, CursorTypeOK
  <2>3. CASE attempt[r] + 1 < MaxAttempts
    BY <1>13, <2>1, <2>2, <2>3 DEF SendFails, BodyFails, AttemptFails
  <2>4. CASE attempt[r] + 1 >= MaxAttempts
    BY <1>13, <2>1, <2>2, <2>4 DEF SendFails, BodyFails, AttemptFails
  <2> QED
    BY <2>3, <2>4
<1>14. ASSUME NEW r \in Request, BackoffElapses(r)
       PROVE  TypeOK' /\ Bookkeeping'
  BY <1>14 DEF BackoffElapses, CircuitTypeOK, CursorTypeOK
<1>15. ASSUME NEW r \in Request, ClientDisconnects(r)
       PROVE  TypeOK' /\ Bookkeeping'
  BY <1>15 DEF ClientDisconnects, CircuitTypeOK, CursorTypeOK
<1>16. CASE UNCHANGED vars
  BY <1>16 DEF vars, CircuitTypeOK, CursorTypeOK
<1> QED
  BY <1>1, <1>2, <1>3, <1>4, <1>5, <1>6, <1>7, <1>8, <1>9, <1>10, <1>11,
     <1>12, <1>13, <1>14, <1>15, <1>16
     DEF Next, Step, Selecting, Sending, ReadingBody

\* Every variable keeps to its type, u32 counters included, and a request in
\* selection or in an exchange holds what the code assumes it holds.
THEOREM TypeCorrect == Spec => []TypeOK
<1>1. Init => TypeOK /\ Bookkeeping
  BY BookkeepingInit
<1>2. TypeOK /\ Bookkeeping /\ [Next]_vars => TypeOK' /\ Bookkeeping'
  BY BookkeepingStep
<1> QED
  BY <1>1, <1>2, PTL DEF Spec

-----------------------------------------------------------------------------
(* The attempt budget.                                                     *)

\* What a request has tried is finite, and grows by one at a time.
LEMMA TriedGrows ==
  ASSUME TypeOK, NEW r \in Request, NEW p \in Provider, p \notin tried[r]
  PROVE  Cardinality(tried[r] \cup {p}) = Cardinality(tried[r]) + 1
<1>1. tried[r] \in SUBSET Provider
  BY DEF TypeOK
<1>2. IsFiniteSet(tried[r])
  BY <1>1, FS_Subset, GatewayAssumption
<1> QED
  BY <1>2, FS_AddElement

\* Initially no provider has been tried.
LEMMA CountingInit == Init => Counting
BY FS_EmptySet DEF Init, Counting, InSelection, InExchange

\* Every step keeps the loop variable equal to the providers tried before.
LEMMA CountingStep ==
  ASSUME TypeOK, Bookkeeping, Counting, [Next]_vars
  PROVE  Counting'
<1> USE DEF Counting, Goto, End, locals, Ended, InSelection, InExchange
<1>1. /\ tried \in [Request -> SUBSET Provider]
      /\ attempt \in [Request -> 0 .. (MaxAttempts - 1)]
      /\ pc \in [Request -> Locations]
  BY DEF TypeOK
<1>2. CASE TimePasses
  BY <1>2 DEF TimePasses
<1>3. ASSUME NEW r \in Request, NEW id \in OverrideIds, Arrive(r, id)
      PROVE  Counting'
  BY <1>1, <1>3, FS_EmptySet DEF Arrive
<1>4. ASSUME NEW r \in Request, Selecting(r)
      PROVE  Counting'
  BY <1>1, <1>4
     DEF Selecting, SelectOverride, RejectForeignOverride, BypassOverride,
         Pick, PickNone, Admit, SkipUnavailable
<1>5. ASSUME NEW r \in Request, Start(r)
      PROVE  Counting'
  <2>1. candidate[r] \in Provider /\ candidate[r] \notin tried[r]
    BY <1>5 DEF Start, Bookkeeping
  <2>2. Cardinality(tried[r] \cup {candidate[r]}) = attempt[r] + 1
    BY <1>5, <2>1, TriedGrows DEF Start
  <2> QED
    BY <1>1, <1>5, <2>2 DEF Start
<1>6. ASSUME NEW r \in Request, HeadersArrive(r)
      PROVE  Counting'
  BY <1>1, <1>6 DEF HeadersArrive
<1>7. ASSUME NEW r \in Request, ReadingBody(r) \/ SendFails(r)
      PROVE  Counting'
  BY <1>1, <1>7, AttemptsAllowed
     DEF ReadingBody, SendFails, BodyArrives, BodyFails, AttemptFails
<1>8. ASSUME NEW r \in Request, BackoffElapses(r) \/ ClientDisconnects(r)
      PROVE  Counting'
  BY <1>1, <1>8 DEF BackoffElapses, ClientDisconnects
<1>9. CASE UNCHANGED vars
  BY <1>9 DEF vars
<1> QED
  BY <1>2, <1>3, <1>4, <1>5, <1>6, <1>7, <1>8, <1>9 DEF Next, Step, Sending

\* The loop variable, the set `tried` and the candidate tell the same story.
LEMMA LoopInvariant == Spec => [](TypeOK /\ Bookkeeping /\ Counting)
<1>1. Init => TypeOK /\ Bookkeeping /\ Counting
  BY BookkeepingInit, CountingInit
<1>2. TypeOK /\ Bookkeeping /\ Counting /\ [Next]_vars
        => TypeOK' /\ Bookkeeping' /\ Counting'
  BY BookkeepingStep, CountingStep
<1> QED
  BY <1>1, <1>2, PTL DEF Spec

-----------------------------------------------------------------------------
(* Failover is complete.                                                   *)

\* Initially every circuit is closed and no provider left behind.
LEMMA WorkingInit == Init => WorkingProviders /\ FailoverComplete
BY GatewayAssumption
   DEF Init, WorkingProviders, FailoverComplete, CircuitInit, IsClosed, Closed,
       InSelection, InExchange

\* Every step keeps working providers closed and in reach of each request.
LEMMA WorkingStep ==
  ASSUME HealthSparesReliable, TypeOK, Bookkeeping, Counting,
         WorkingProviders, FailoverComplete, [Next]_vars
  PROVE  WorkingProviders' /\ FailoverComplete'
<1> USE DEF WorkingProviders, FailoverComplete, Foreign, Goto, End, locals,
            Ended, InSelection, InExchange
<1>0. HealthSparesReliable'
  BY DEF HealthSparesReliable
<1>1. /\ tried \in [Request -> SUBSET Provider]
      /\ override \in [Request -> OverrideIds]
      /\ attempt \in [Request -> 0 .. (MaxAttempts - 1)]
      /\ excluded \in [Request -> SUBSET Provider]
      /\ candidate \in [Request -> Provider \cup {NoProvider}]
      /\ pc \in [Request -> Locations]
      /\ CircuitTypeOK
  BY DEF TypeOK
<1>2. Reliable \subseteq Provider
  BY GatewayAssumption
<1>3. \A p \in Reliable : IsAvailable(p)
  BY DEF IsAvailable
<1>4. CASE TimePasses
  BY <1>1, <1>2, <1>4, TickEffect DEF TimePasses, IsClosed
<1>5. ASSUME NEW r \in Request, NEW id \in OverrideIds, Arrive(r, id)
      PROVE  WorkingProviders' /\ FailoverComplete'
  BY <1>1, <1>5 DEF Arrive, IsClosed
<1>6. ASSUME NEW r \in Request, SelectOverride(r)
      PROVE  WorkingProviders' /\ FailoverComplete'
  BY <1>1, <1>6 DEF SelectOverride, IsClosed
<1>7. ASSUME NEW r \in Request, RejectForeignOverride(r)
      PROVE  WorkingProviders' /\ FailoverComplete'
  BY <1>1, <1>7 DEF RejectForeignOverride, IsClosed
<1>8. ASSUME NEW r \in Request, BypassOverride(r)
      PROVE  WorkingProviders' /\ FailoverComplete'
  <2>1. override[r] \notin Reliable
    BY <1>1, <1>2, <1>3, <1>8 DEF BypassOverride
  <2> QED
    BY <1>1, <1>8, <2>1 DEF BypassOverride, IsClosed
<1>9. ASSUME NEW r \in Request, Pick(r)
      PROVE  WorkingProviders' /\ FailoverComplete'
  BY <1>1, <1>9 DEF Pick, IsClosed
<1>10. ASSUME NEW r \in Request, PickNone(r)
       PROVE  WorkingProviders' /\ FailoverComplete'
  <2>1. Reliable \subseteq excluded[r]
    BY <1>2, <1>10, GatewayAssumption
       DEF PickNone, Eligible, HealthSparesReliable
  <2>2. Reliable = {}
    BY <1>10, <2>1 DEF PickNone
  <2> QED
    BY <1>1, <1>10, <2>2 DEF PickNone, IsClosed
<1>11. ASSUME NEW r \in Request, Admit(r)
       PROVE  WorkingProviders' /\ FailoverComplete'
  BY <1>1, <1>11 DEF Admit, IsClosed
<1>12. ASSUME NEW r \in Request, SkipUnavailable(r)
       PROVE  WorkingProviders' /\ FailoverComplete'
  <2>1. candidate[r] \notin Reliable
    BY <1>3, <1>12 DEF SkipUnavailable
  <2> QED
    BY <1>1, <1>12, <2>1 DEF SkipUnavailable, IsClosed
<1>13. ASSUME NEW r \in Request, Start(r)
       PROVE  WorkingProviders' /\ FailoverComplete'
  <2>1. candidate[r] \in Provider
    BY <1>13 DEF Start, Bookkeeping
  <2>2. \A p \in Reliable : IsClosed(p)'
    BY <1>1, <1>2, <1>13, <2>1, OnRequestStartEffect DEF Start, IsClosed
  <2> QED
    BY <1>1, <1>13, <2>2 DEF Start
<1>14. ASSUME NEW r \in Request, HeadersArrive(r)
       PROVE  WorkingProviders' /\ FailoverComplete'
  BY <1>1, <1>14 DEF HeadersArrive, IsClosed
<1>15. ASSUME NEW r \in Request, BodyArrives(r)
       PROVE  WorkingProviders' /\ FailoverComplete'
  <2>1. candidate[r] \in Provider
    BY <1>15 DEF BodyArrives, Bookkeeping
  <2>2. \A p \in Reliable : IsClosed(p)'
    BY <1>1, <1>2, <1>15, <2>1, OnSuccessEffect DEF BodyArrives, IsClosed
  <2> QED
    BY <1>1, <1>15, <2>2 DEF BodyArrives
<1>16. ASSUME NEW r \in Request, SendFails(r) \/ BodyFails(r)
       PROVE  WorkingProviders' /\ FailoverComplete'
  <2>1. candidate[r] \in Provider \ Reliable /\ AttemptFails(r)
    BY <1>16 DEF SendFails, BodyFails, Bookkeeping
  <2>2. \A p \in Reliable : IsClosed(p)'
    BY <1>1, <1>2, <2>1, OnFailureEffect DEF AttemptFails, IsClosed
  <2>3. tried[r] \cap Reliable = {} /\ Cardinality(tried[r]) = attempt[r] + 1
    BY <1>16, <2>1 DEF SendFails, BodyFails, Counting
  <2>4. CASE attempt[r] + 1 < MaxAttempts
    <3>1. PICK location \in {"select", "backoff"} :
            /\ pc' = [pc EXCEPT ![r] = location]
            /\ candidate' = [candidate EXCEPT ![r] = NoProvider]
            /\ UNCHANGED <<override, tried, excluded>>
      BY <1>1, <2>1, <2>4, AttemptsAllowed DEF AttemptFails
    <3> QED
      BY <1>1, <2>2, <2>3, <3>1
  <2>5. CASE attempt[r] + 1 >= MaxAttempts
    <3>1. Cardinality(tried[r]) = MaxAttempts
      BY <1>1, <2>3, <2>5, AttemptsAllowed
    <3>2. End(r, "failed")
      BY <1>1, <2>1, <2>5, AttemptsAllowed DEF AttemptFails
    <3> QED
      BY <1>1, <2>2, <2>3, <3>1, <3>2
  <2> QED
    BY <1>1, <2>4, <2>5, AttemptsAllowed
<1>17. ASSUME NEW r \in Request, BackoffElapses(r)
       PROVE  WorkingProviders' /\ FailoverComplete'
  BY <1>1, <1>17 DEF BackoffElapses, IsClosed
<1>18. ASSUME NEW r \in Request, ClientDisconnects(r)
       PROVE  WorkingProviders' /\ FailoverComplete'
  BY <1>1, <1>18 DEF ClientDisconnects, IsClosed
<1>19. CASE UNCHANGED vars
  BY <1>19 DEF vars, IsClosed
<1> QED
  BY <1>4, <1>5, <1>6, <1>7, <1>8, <1>9, <1>10, <1>11, <1>12, <1>13, <1>14,
     <1>15, <1>16, <1>17, <1>18, <1>19
     DEF Next, Step, Selecting, Sending, ReadingBody

\* However many requests run at once and whatever the breaker's settings, a
\* request fails only for the reasons FailoverComplete admits.
THEOREM FailoverIsComplete == Spec => []FailoverComplete
<1> DEFINE Inv == /\ TypeOK /\ Bookkeeping /\ Counting
                  /\ HealthSparesReliable => WorkingProviders
                  /\ FailoverComplete
<1>1. Init => Inv
  BY BookkeepingInit, CountingInit, WorkingInit
<1>2. Inv /\ [Next]_vars => Inv'
  <2> SUFFICES ASSUME Inv, [Next]_vars PROVE Inv'
    OBVIOUS
  <2>1. TypeOK' /\ Bookkeeping' /\ Counting'
    BY BookkeepingStep, CountingStep
  <2>2. CASE HealthSparesReliable
    BY <2>1, <2>2, WorkingStep
  <2>3. CASE ~ HealthSparesReliable
    BY <2>1, <2>3 DEF HealthSparesReliable, FailoverComplete
  <2> QED
    BY <2>2, <2>3
<1>3. Inv => FailoverComplete
  OBVIOUS
<1> QED
  BY <1>1, <1>2, <1>3, PTL DEF Spec

-----------------------------------------------------------------------------
(* Gateway implements Failover: the initial states correspond, and every   *)
(* step is a step of the promise or invisible to it.                       *)

\* What a location of the task is to the promise.
Seen(l) == CASE l \in InExchange -> "contacting"
             [] l \in Ended \cup {"idle"} -> l
             [] OTHER -> "choosing"

\* The mapped status of every request.
Status == [r \in Request |->
             CASE pc[r] \in InExchange -> "contacting"
               [] pc[r] \in Ended \cup {"idle"} -> pc[r]
               [] OTHER -> "choosing"]

\* The refinement's status of a request depends on its location only.
LEMMA StatusSeen == \A r \in Request : Status[r] = Seen(pc[r])
BY DEF Status, Seen

\* A step moves the status of its own request alone.
LEMMA StatusMoves ==
  ASSUME pc \in [Request -> Locations],
         NEW r \in Request, NEW l \in Locations, Goto(r, l)
  PROVE  Status' = [Status EXCEPT ![r] = Seen(l)]
<1>1. Status' = [x \in Request |-> Seen(pc'[x])]
  BY DEF Status, Seen
<1>2. Status = [x \in Request |-> Seen(pc[x])]
  BY DEF Status, Seen
<1>3. \A x \in Request : pc'[x] = IF x = r THEN l ELSE pc[x]
  BY DEF Goto
<1> QED
  BY <1>1, <1>2, <1>3

\* The instance's Cardinality is the module's.
LEMMA SameCardinality == \A S : Promise!Cardinality(S) = Cardinality(S)
BY DEF Promise!Cardinality, Cardinality

\* Initial states map to initial states of the contract.
LEMMA PromiseInit == Init => Promise!Init
<1> SUFFICES ASSUME Init PROVE Promise!Init
  OBVIOUS
<1>1. Status = [r \in Request |-> "idle"]
  BY DEF Init, Status, InExchange, Ended
<1> QED
  BY <1>1 DEF Init, Promise!Init, Status

\* Every step maps to a step of the contract or to a stutter.
LEMMA PromiseStep ==
  ASSUME TypeOK, Bookkeeping, Counting, [Next]_vars
  PROVE  [Promise!Next]_(Promise!vars)
<1> USE DEF InSelection, InExchange, Ended, Locations, Seen
<1>1. /\ pc \in [Request -> Locations]
      /\ tried \in [Request -> SUBSET Provider]
      /\ attempt \in [Request -> 0 .. (MaxAttempts - 1)]
  BY DEF TypeOK
<1> DEFINE Invisible == Status' = Status /\ tried' = tried
<1>2. Invisible => UNCHANGED Promise!vars
  BY DEF Promise!vars, Status
<1>3. CASE TimePasses \/ UNCHANGED vars
  BY <1>3 DEF TimePasses, vars, locals, Status, Promise!vars
<1>4. ASSUME NEW r \in Request, NEW id \in OverrideIds, Arrive(r, id)
      PROVE  Promise!Accept(r)
  <2>1. Status' = [Status EXCEPT ![r] = "choosing"]
    BY <1>1, <1>4, StatusMoves DEF Arrive
  <2>2. Status[r] \notin {"choosing", "contacting"}
    BY <1>1, <1>4, StatusSeen DEF Arrive, Active
  <2> QED
    BY <1>4, <2>1, <2>2
       DEF Promise!Accept, Promise!Open, Promise!Become, Arrive, Status
<1>5. ASSUME NEW r \in Request,
             NEW l \in InSelection \cup {"start", "backoff"}, Goto(r, l),
             pc[r] \in InSelection \cup {"start", "backoff"}, tried' = tried
      PROVE  Invisible
  <2>1. Status' = [Status EXCEPT ![r] = "choosing"]
    BY <1>1, <1>5, StatusMoves
  <2>2. Status[r] = "choosing"
    BY <1>1, <1>5, StatusSeen
  <2> QED
    BY <1>5, <2>1, <2>2 DEF Status
<1>6. ASSUME NEW r \in Request,
             \/ SelectOverride(r) \/ BypassOverride(r) \/ Pick(r) \/ Admit(r)
             \/ SkipUnavailable(r) \/ BackoffElapses(r)
      PROVE  Invisible
  BY <1>1, <1>5, <1>6
     DEF SelectOverride, BypassOverride, Pick, Admit, SkipUnavailable,
         BackoffElapses, locals
<1>7. ASSUME NEW r \in Request, RejectForeignOverride(r) \/ PickNone(r)
      PROVE  Promise!GiveUp(r)
  <2>1. Status' = [Status EXCEPT ![r] = "failed"]
    BY <1>1, <1>7, StatusMoves DEF RejectForeignOverride, PickNone, End
  <2>2. Status[r] = "choosing" /\ tried' = tried
    BY <1>1, <1>7, StatusSeen DEF RejectForeignOverride, PickNone, End
  <2> QED
    BY <2>1, <2>2 DEF Promise!GiveUp, Promise!Become, Status
<1>8. ASSUME NEW r \in Request, Start(r)
      PROVE  \E p \in Provider : Promise!Contact(r, p)
  <2>1. Status' = [Status EXCEPT ![r] = "contacting"]
    BY <1>1, <1>8, StatusMoves DEF Start
  <2>2. Status[r] = "choosing"
    BY <1>1, <1>8, StatusSeen DEF Start
  <2>3. candidate[r] \in Provider /\ candidate[r] \notin tried[r]
    BY <1>8 DEF Start, Bookkeeping
  <2>4. Cardinality(tried[r]) < MaxAttempts
    BY <1>1, <1>8, AttemptsAllowed DEF Start, Counting
  <2>5. Promise!Contact(r, candidate[r])
    BY <1>8, <2>1, <2>2, <2>3, <2>4, SameCardinality
       DEF Promise!Contact, Promise!Become, Start, Status
  <2> QED
    BY <2>3, <2>5
<1>9. ASSUME NEW r \in Request, HeadersArrive(r)
      PROVE  Invisible
  <2>1. Status' = [Status EXCEPT ![r] = "contacting"]
    BY <1>1, <1>9, StatusMoves DEF HeadersArrive
  <2>2. Status[r] = "contacting" /\ tried' = tried
    BY <1>1, <1>9, StatusSeen DEF HeadersArrive, locals
  <2> QED
    BY <2>1, <2>2 DEF Status
<1>10. ASSUME NEW r \in Request, BodyArrives(r)
       PROVE  Promise!Answer(r)
  <2>1. Status' = [Status EXCEPT ![r] = "ok"]
    BY <1>1, <1>10, StatusMoves DEF BodyArrives, End
  <2>2. Status[r] = "contacting" /\ tried' = tried
    BY <1>1, <1>10, StatusSeen DEF BodyArrives, End
  <2> QED
    BY <2>1, <2>2 DEF Promise!Answer, Promise!Become, Status
<1>11. ASSUME NEW r \in Request, SendFails(r) \/ BodyFails(r)
       PROVE  Promise!TryAnother(r) \/ Promise!RunOut(r)
  <2>1. /\ Status[r] = "contacting" /\ AttemptFails(r)
        /\ Cardinality(tried[r]) = attempt[r] + 1
    BY <1>1, <1>11, StatusSeen DEF SendFails, BodyFails, Counting
  <2>2. CASE attempt[r] + 1 < MaxAttempts
    <3>1. PICK l \in {"select", "backoff"} : Goto(r, l)
      BY <1>1, <2>1, <2>2, AttemptsAllowed DEF AttemptFails, Goto
    <3>2. tried' = tried
      BY <1>1, <2>1, <2>2, AttemptsAllowed DEF AttemptFails
    <3>3. Status' = [Status EXCEPT ![r] = "choosing"]
      BY <1>1, <3>1, StatusMoves
    <3> QED
      BY <2>1, <2>2, <3>2, <3>3, SameCardinality
         DEF Promise!TryAnother, Promise!Become, Status
  <2>3. CASE attempt[r] + 1 >= MaxAttempts
    <3>1. Goto(r, "failed") /\ tried' = tried
      BY <1>1, <2>1, <2>3, AttemptsAllowed DEF AttemptFails, End
    <3>2. Status' = [Status EXCEPT ![r] = "failed"]
      BY <1>1, <3>1, StatusMoves
    <3>3. Cardinality(tried[r]) = MaxAttempts
      BY <1>1, <2>1, <2>3, AttemptsAllowed
    <3> QED
      BY <2>1, <3>1, <3>2, <3>3, SameCardinality
         DEF Promise!RunOut, Promise!Become, Status
  <2> QED
    BY <1>1, <2>2, <2>3, AttemptsAllowed
<1>12. ASSUME NEW r \in Request, ClientDisconnects(r)
       PROVE  Promise!Abandon(r)
  <2>1. Status' = [Status EXCEPT ![r] = "dropped"]
    BY <1>1, <1>12, StatusMoves DEF ClientDisconnects, End
  <2>2. Status[r] \in {"choosing", "contacting"} /\ tried' = tried
    BY <1>1, <1>12, StatusSeen DEF ClientDisconnects, End
  <2> QED
    BY <1>12, <2>1, <2>2
       DEF Promise!Abandon, Promise!Open, Promise!Become, ClientDisconnects,
           Status
<1> HIDE DEF Invisible
<1>13. \/ TimePasses \/ UNCHANGED vars \/ Invisible
       \/ \E r \in Request :
            \/ Promise!Accept(r) \/ Promise!Answer(r) \/ Promise!TryAnother(r)
            \/ Promise!RunOut(r) \/ Promise!GiveUp(r) \/ Promise!Abandon(r)
            \/ \E p \in Provider : Promise!Contact(r, p)
  BY <1>4, <1>6, <1>7, <1>8, <1>9, <1>10, <1>11, <1>12
     DEF Next, Step, Selecting, Sending, ReadingBody
<1> QED
  BY <1>2, <1>3, <1>13 DEF Promise!Next

\* Every request is served as Failover promises, in every configuration.
THEOREM GatewayKeepsPromise == Spec => ImplementsFailover
<1>1. Init => Promise!Init
  BY PromiseInit
<1>2. TypeOK /\ Bookkeeping /\ Counting /\ [Next]_vars
        => [Promise!Next]_(Promise!vars)
  BY PromiseStep
<1> QED
  BY <1>1, <1>2, LoopInvariant, PTL DEF Spec, ImplementsFailover, Promise!Spec
=============================================================================
