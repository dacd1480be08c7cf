--------------------------- MODULE BreakerProofs ---------------------------
(***************************************************************************)
(* How the circuits and the requests in flight constrain each other, for   *)
(* any number of requests and any breaker settings, zeros included.        *)
(***************************************************************************)
EXTENDS GatewayProofs

-----------------------------------------------------------------------------
(* Which steps admit requests to a provider, and which touch its circuit.  *)

\* A request is admitted only by a step that finds its provider available.
LEMMA AdmissionAsksBreaker ==
  ASSUME TypeOK, [Next]_vars, NEW r \in Request, NEW p \in Provider,
         r \in Admitted(p)', r \notin Admitted(p)
  PROVE  /\ IsAvailable(p)
         /\ UNCHANGED circuit
<1> USE DEF Admitted, Goto, End, locals
<1>1. /\ pc \in [Request -> Locations]
      /\ candidate \in [Request -> Provider \cup {NoProvider}]
  BY DEF TypeOK
<1>2. CASE TimePasses \/ UNCHANGED vars
  BY <1>2 DEF TimePasses, vars
<1>3. ASSUME NEW s \in Request, Step(s)
      PROVE  IsAvailable(p) /\ UNCHANGED circuit
  <2>1. CASE SelectOverride(s)
    BY <1>1, <2>1 DEF SelectOverride
  <2>2. CASE Admit(s)
    BY <1>1, <2>2 DEF Admit
  <2>3. CASE \E id \in OverrideIds : Arrive(s, id)
    BY <1>1, <2>3 DEF Arrive
  <2>4. CASE RejectForeignOverride(s) \/ BypassOverride(s) \/ Pick(s)
             \/ PickNone(s) \/ SkipUnavailable(s)
    BY <1>1, <2>4
       DEF RejectForeignOverride, BypassOverride, Pick, PickNone, SkipUnavailable
  <2>5. CASE Start(s) \/ HeadersArrive(s) \/ BodyArrives(s)
             \/ BackoffElapses(s) \/ ClientDisconnects(s)
    BY <1>1, <2>5
       DEF Start, HeadersArrive, BodyArrives, BackoffElapses, ClientDisconnects
  <2>6. CASE SendFails(s) \/ BodyFails(s)
    <3>1. PICK location \in {"select", "backoff", "failed"} :
            /\ pc' = [pc EXCEPT ![s] = location]
            /\ candidate' = [candidate EXCEPT ![s] = NoProvider]
      BY <2>6 DEF SendFails, BodyFails, AttemptFails
    <3> QED
      BY <1>1, <3>1
  <2> QED
    BY <1>3, <2>1, <2>2, <2>3, <2>4, <2>5, <2>6
       DEF Step, Selecting, Sending, ReadingBody
<1> QED
  BY <1>2, <1>3 DEF Next

\* A circuit that is half-open after a step was so before, with no more than
\* one attempt less, or has just been made so by a request's start.
LEMMA HalfOpenArises ==
  ASSUME TypeOK, Bookkeeping, [Next]_vars, NEW p \in Provider, IsHalfOpen(p)'
  PROVE  \/ /\ IsHalfOpen(p)
            /\ circuit'[p].attempts = circuit[p].attempts
            /\ \A r \in Request :
                 candidate[r] = p => ~ (BodyArrives(r) \/ SendFails(r) \/ BodyFails(r))
         \/ \E r \in Request :
              /\ Start(r) /\ candidate[r] = p
              /\ \/ circuit'[p].attempts = 0
                 \/ /\ IsHalfOpen(p)
                    /\ circuit'[p].attempts <= circuit[p].attempts + 1
<1> USE DEF IsHalfOpen, InExchange
<1>1. CircuitTypeOK
  BY DEF TypeOK
<1>2. ASSUME NEW r \in Request, candidate[r] = p,
             BodyArrives(r) \/ SendFails(r) \/ BodyFails(r)
      PROVE  FALSE
  BY <1>1, <1>2, OnSuccessEffect, OnFailureEffect
     DEF BodyArrives, SendFails, BodyFails, AttemptFails, IsClosed
<1>3. CASE \E r \in Request : Start(r) /\ candidate[r] = p
  <2>1. PICK r \in Request : Start(r) /\ candidate[r] = p
    BY <1>3
  <2> QED
    BY <1>1, <2>1, OnRequestStartEffect DEF Start
<1>4. CASE ~ \E r \in Request : Start(r) /\ candidate[r] = p
  <2>1. CASE TimePasses
    BY <1>1, <1>2, <2>1, TickEffect DEF TimePasses
  <2>2. CASE UNCHANGED circuit
    BY <1>2, <2>2
  <2>3. ASSUME NEW r \in Request, Start(r)
        PROVE  circuit'[p] = circuit[p]
    BY <1>1, <1>4, <2>3, OnRequestStartEffect DEF Start, Bookkeeping
  <2>4. ASSUME NEW r \in Request, BodyArrives(r)
        PROVE  circuit'[p] = circuit[p]
    BY <1>1, <1>2, <2>4, OnSuccessEffect DEF BodyArrives, Bookkeeping
  <2>5. ASSUME NEW r \in Request, SendFails(r) \/ BodyFails(r)
        PROVE  circuit'[p] = circuit[p]
    BY <1>1, <1>2, <2>5, OnFailureEffect
       DEF SendFails, BodyFails, AttemptFails, Bookkeeping
  <2>6. \/ TimePasses \/ UNCHANGED circuit
        \/ \E r \in Request : Start(r) \/ BodyArrives(r) \/ SendFails(r) \/ BodyFails(r)
    BY DEF Next, Step, Selecting, Sending, ReadingBody, vars, Arrive,
           SelectOverride, RejectForeignOverride, BypassOverride, Pick, PickNone,
           Admit, SkipUnavailable, HeadersArrive, BackoffElapses,
           ClientDisconnects
  <2> QED
    BY <1>2, <2>1, <2>2, <2>3, <2>4, <2>5, <2>6
<1> QED
  BY <1>3, <1>4

-----------------------------------------------------------------------------
(* The three theorems.                                                     *)

\* The breaker lets nobody in while it cools, by either way of selection.
THEOREM NoAdmission == Spec => NoAdmissionWhileCooling
<1> DEFINE Refused ==
      \A p \in Provider :
        IsCooling(p) /\ IsCooling(p)' => Admitted(p)' \subseteq Admitted(p)
<1>1. TypeOK /\ [Next]_vars => [Refused]_vars
  <2> SUFFICES ASSUME TypeOK, [Next]_vars,
                      NEW p \in Provider, IsCooling(p),
                      NEW r \in Admitted(p)', r \notin Admitted(p)
               PROVE  FALSE
    OBVIOUS
  <2>1. r \in Request
    BY DEF Admitted
  <2>2. IsAvailable(p)
    BY <2>1, AdmissionAsksBreaker
  <2> QED
    BY <2>2 DEF IsAvailable, IsCooling, IsClosed, IsHalfOpen
<1> QED
  BY <1>1, TypeCorrect, PTL DEF Spec, NoAdmissionWhileCooling

\* Every step keeps a half-open circuit watched: the request that half-opens
\* it is out, and whichever answers or fails last closes it or opens it.
LEMMA WatchedStep ==
  ASSUME TypeOK, Bookkeeping, HalfOpenIsWatched, [Next]_vars
  PROVE  HalfOpenIsWatched'
<1> SUFFICES ASSUME ~ ClientsDisconnect, NEW p \in Provider, IsHalfOpen(p)'
             PROVE  \E r \in Request : /\ candidate'[r] = p
                                       /\ pc'[r] \in InExchange
  BY DEF HalfOpenIsWatched
<1> USE DEF InExchange, Goto, End, locals
<1>1. /\ pc \in [Request -> Locations]
      /\ candidate \in [Request -> Provider \cup {NoProvider}]
  BY DEF TypeOK
<1>2. CASE \E r \in Request : Start(r) /\ candidate[r] = p
  BY <1>1, <1>2 DEF Start
<1>3. CASE /\ IsHalfOpen(p)
           /\ \A r \in Request : candidate[r] = p =>
                ~ (BodyArrives(r) \/ SendFails(r) \/ BodyFails(r))
  <2>1. PICK w \in Request : candidate[w] = p /\ pc[w] \in InExchange
    BY <1>3 DEF HalfOpenIsWatched
  <2>2. CASE TimePasses \/ UNCHANGED vars
    BY <2>1, <2>2 DEF TimePasses, vars
  <2>3. ASSUME NEW r \in Request, HeadersArrive(r)
        PROVE  candidate'[w] = p /\ pc'[w] \in InExchange
    BY <1>1, <2>1, <2>3 DEF HeadersArrive
  <2>4. ASSUME NEW r \in Request, r # w, Step(r), ~ HeadersArrive(r)
        PROVE  candidate'[w] = candidate[w] /\ pc'[w] = pc[w]
    <3>1. CASE SendFails(r) \/ BodyFails(r)
      <4>1. PICK location \in {"select", "backoff", "failed"} :
              /\ pc' = [pc EXCEPT ![r] = location]
              /\ candidate' = [candidate EXCEPT ![r] = NoProvider]
        BY <3>1 DEF SendFails, BodyFails, AttemptFails
      <4> QED
        BY <1>1, <2>4, <4>1
    <3>2. CASE Selecting(r)
      BY <1>1, <2>4, <3>2
         DEF Selecting, SelectOverride, RejectForeignOverride, BypassOverride,
             Pick, PickNone, Admit, SkipUnavailable
    <3>3. CASE \/ \E id \in OverrideIds : Arrive(r, id)
               \/ Start(r) \/ BodyArrives(r) \/ BackoffElapses(r)
               \/ ClientDisconnects(r)
      BY <1>1, <2>4, <3>3
         DEF Arrive, Start, BodyArrives, BackoffElapses, ClientDisconnects
    <3> QED
      BY <2>4, <3>1, <3>2, <3>3 DEF Step, Sending, ReadingBody
  <2>5. ~ Step(w) \/ HeadersArrive(w)
    BY <1>3, <2>1
       DEF Step, Sending, ReadingBody, Selecting, Arrive, Active, Ended,
           SelectOverride, RejectForeignOverride, BypassOverride, Pick, PickNone,
           Admit, SkipUnavailable, Start, BackoffElapses, ClientDisconnects
  <2> QED
    BY <2>1, <2>2, <2>3, <2>4, <2>5 DEF Next
<1> QED
  BY <1>2, <1>3, HalfOpenArises

\* Without disconnects no half-open circuit is ever left without a request to
\* settle it.
THEOREM HalfOpenIsAlwaysWatched == Spec => []HalfOpenIsWatched
<1>1. Init => HalfOpenIsWatched
  BY BreakerAssumption
     DEF Init, CircuitInit, HalfOpenIsWatched, IsHalfOpen, Closed
<1>2. TypeOK /\ Bookkeeping /\ HalfOpenIsWatched /\ [Next]_vars
        => HalfOpenIsWatched'
  BY WatchedStep
<1> QED
  BY <1>1, <1>2, LoopInvariant, PTL DEF Spec

\* Those admitted are some of the requests, before and after a step.
LEMMA AdmittedFinite ==
  ASSUME NEW S \in SUBSET Request
  PROVE  /\ IsFiniteSet(S) /\ IsFiniteSet(Request)
         /\ Cardinality(S) \in Nat /\ Cardinality(Request) \in Nat
         /\ Cardinality(S) <= Cardinality(Request)
         /\ \A T \in SUBSET S : Cardinality(T) <= Cardinality(S)
         /\ \A r \in S : Cardinality(S \ {r}) = Cardinality(S) - 1
BY GatewayAssumption, FS_Subset, FS_CardinalityType, FS_RemoveElement

\* Every step keeps the attempts within the bound: one is counted only for a
\* request that was admitted, and it was admitted below the limit.
LEMMA ProbeStep ==
  ASSUME TypeOK, Bookkeeping, ProbeOverrunBound, [Next]_vars
  PROVE  ProbeOverrunBound'
<1> SUFFICES ASSUME NEW p \in Provider, IsHalfOpen(p)'
             PROVE  circuit'[p].attempts + Cardinality(Admitted(p)')
                      < HalfOpenProbe[p] + Cardinality(Request)
  BY DEF ProbeOverrunBound
<1> DEFINE before == Admitted(p)
           after == Admitted(p)'
<1>1. before \in SUBSET Request /\ after \in SUBSET Request
  BY DEF Admitted
<1>2. /\ Cardinality(before) \in Nat /\ Cardinality(after) \in Nat
      /\ Cardinality(Request) \in Nat
      /\ HalfOpenProbe[p] \in Nat
      /\ circuit[p].attempts \in Nat
  BY <1>1, AdmittedFinite, BreakerAssumption DEF TypeOK, CircuitTypeOK, Circuit
<1>3. circuit'[p].attempts \in Nat
  BY BookkeepingStep, BreakerAssumption DEF TypeOK, CircuitTypeOK, Circuit
<1>4. IsHalfOpen(p) => circuit[p].attempts + Cardinality(before)
                         < HalfOpenProbe[p] + Cardinality(Request)
  BY DEF ProbeOverrunBound
<1>5. CASE ~ (after \subseteq before)
  <2>1. IsAvailable(p) /\ UNCHANGED circuit
    BY <1>1, <1>5, AdmissionAsksBreaker
  <2>2. circuit'[p].attempts < HalfOpenProbe[p]
    BY <2>1 DEF IsAvailable, IsHalfOpen, IsClosed
  <2>3. Cardinality(after) <= Cardinality(Request)
    BY <1>1, AdmittedFinite
  <2> QED
    BY <1>2, <1>3, <2>2, <2>3
<1>6. CASE after \subseteq before
  <2>1. Cardinality(after) <= Cardinality(before)
    BY <1>1, <1>6, AdmittedFinite
  <2>2. CASE IsHalfOpen(p) /\ circuit'[p].attempts = circuit[p].attempts
    BY <1>2, <1>4, <2>1, <2>2
  <2>3. ASSUME NEW r \in Request, Start(r), candidate[r] = p,
               \/ circuit'[p].attempts = 0
               \/ /\ IsHalfOpen(p)
                  /\ circuit'[p].attempts <= circuit[p].attempts + 1
        PROVE  circuit'[p].attempts + Cardinality(after)
                 < HalfOpenProbe[p] + Cardinality(Request)
    <3>1. r \in before
      BY <2>3 DEF Start, Admitted
    <3>2. r \notin after
      BY <2>3 DEF Start, Admitted, Goto, TypeOK
    <3>3. after \in SUBSET (before \ {r})
      BY <1>6, <3>2
    <3>4. Cardinality(before \ {r}) = Cardinality(before) - 1
      BY <1>1, <3>1, AdmittedFinite
    <3>5. Cardinality(after) <= Cardinality(before \ {r})
      BY <1>1, <3>3, AdmittedFinite
    <3>6. Cardinality(before) <= Cardinality(Request)
      BY <1>1, AdmittedFinite
    <3> HIDE DEF before, after
    <3> QED
      BY <1>2, <1>3, <1>4, <2>3, <3>4, <3>5, <3>6
  <2> QED
    BY <2>2, <2>3, HalfOpenArises
<1> QED
  BY <1>5, <1>6

\* However many requests race for a half-open circuit, half_open_probe is
\* exceeded by less than their number.
THEOREM ProbeOverrunIsBounded == Spec => []ProbeOverrunBound
<1>1. Init => ProbeOverrunBound
  BY BreakerAssumption
     DEF Init, CircuitInit, ProbeOverrunBound, IsHalfOpen, Closed
<1>2. TypeOK /\ Bookkeeping /\ ProbeOverrunBound /\ [Next]_vars
        => ProbeOverrunBound'
  BY ProbeStep
<1> QED
  BY <1>1, <1>2, LoopInvariant, PTL DEF Spec
=============================================================================
