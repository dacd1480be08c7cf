--------------------------- MODULE ProbingProofs ---------------------------
(***************************************************************************)
(* How scores follow the nodes, for any number of providers, any latencies *)
(* and any resolution of the averages: a score never moves the wrong way,  *)
(* a good one lasts as long as its node is fine, and each probe of a fine  *)
(* node brings a bad one closer to good.                                   *)
(***************************************************************************)
EXTENDS HealthProbing, TLAPS

-----------------------------------------------------------------------------
(* The averages and the score.                                             *)

\* A smoothed value lies between the old one and the sample.
LEMMA SmoothBetween ==
  ASSUME NEW old \in Nat, NEW sample \in Nat
  PROVE  /\ Smooth(old, sample) \in Nat
         /\ old <= sample =>
              Smooth(old, sample) >= old /\ Smooth(old, sample) <= sample
         /\ sample <= old =>
              Smooth(old, sample) <= old /\ Smooth(old, sample) >= sample
         /\ sample < old => Smooth(old, sample) < old
BY DEF Smooth

\* A smoothed rate is a rate.
LEMMA SmoothRange ==
  ASSUME NEW rate \in 0 .. Unit
  PROVE  /\ Smooth(rate, 0) \in 0 .. rate
         /\ Smooth(rate, Unit) \in rate .. Unit
BY HealthAssumption DEF Smooth

\* Dividing by more gives less.
LEMMA SmallerShare ==
  ASSUME NEW n \in Nat, NEW a \in Nat \ {0}, NEW b \in Nat \ {0}, a <= b
  PROVE  n \div b <= n \div a
<1> DEFINE q == n \div b
           t == n \div a
<1>1. q \in Int /\ t \in Int
  BY Z3
<1>2. q * b <= n /\ n < (t + 1) * a /\ n < (q + 1) * b
  BY Z3
<1> HIDE DEF q, t
<1>3. q >= 0
  BY <1>1, <1>2, Z3
<1>4. q * a <= q * b
  BY <1>1, <1>3, Z3
<1>5. q * a < (t + 1) * a
  BY <1>1, <1>2, <1>4, Z3
<1>6. q < t + 1
  BY <1>1, <1>5, Z3
<1> QED
  BY <1>1, <1>6 DEF q, t

\* A whole number of shares divides into that number.
LEMMA WholeShares ==
  ASSUME NEW n \in Nat, NEW a \in Nat \ {0}
  PROVE  n * a \in Nat /\ (n * a) \div a = n
<1> DEFINE t == (n * a) \div a
<1>1. n * a \in Nat /\ t \in Int
  BY Z3
<1>2. t * a <= n * a /\ n * a < (t + 1) * a
  BY Z3
<1> HIDE DEF t
<1>3. t <= n /\ n < t + 1
  BY <1>1, <1>2, Z3
<1>4. t = n
  BY <1>1, <1>3
<1> QED
  BY <1>1, <1>4 DEF t

\* The slower, the lower the latency score, which is 0.3 at most, and 0.3 up
\* to two seconds.
LEMMA LatencyScoreFalls ==
  ASSUME NEW a \in Nat, NEW b \in Nat, a <= b
  PROVE  /\ LatencyScore(a) \in 0 .. 3 * Unit
         /\ LatencyScore(b) <= LatencyScore(a)
         /\ a <= PromptLatency => LatencyScore(a) = 3 * Unit
<1> DEFINE N == 3 * Unit * PromptLatency
<1>1. 3 * Unit \in Nat /\ PromptLatency \in Nat \ {0}
  BY HealthAssumption
<1>2. N \in Nat /\ N \div PromptLatency = 3 * Unit
  <2> DEFINE n == 3 * Unit
  <2>1. n \in Nat
    BY <1>1
  <2> HIDE DEF n
  <2>2. n * PromptLatency \in Nat /\ (n * PromptLatency) \div PromptLatency = n
    BY <1>1, <2>1, WholeShares
  <2> QED
    BY <2>2 DEF n
<1>3. \A l \in Nat :
        LatencyScore(l) = IF l <= PromptLatency THEN 3 * Unit ELSE N \div l
  BY DEF LatencyScore
<1> HIDE DEF N
<1>4. ASSUME NEW l \in Nat, l > PromptLatency
      PROVE  N \div l \in 0 .. 3 * Unit
  <2>1. N \div l \in Nat
    BY <1>1, <1>2, <1>4, Z3
  <2>2. N \div l <= N \div PromptLatency
    <3>1. l \in Nat \ {0} /\ PromptLatency <= l
      BY <1>1, <1>4
    <3> QED
      BY <1>1, <1>2, <3>1, SmallerShare
  <2> QED
    BY <1>1, <1>2, <2>1, <2>2
<1>5. CASE b <= PromptLatency
  BY <1>1, <1>3, <1>5
<1>6. CASE a <= PromptLatency /\ b > PromptLatency
  BY <1>1, <1>3, <1>4, <1>6
<1>7. CASE a > PromptLatency
  <2>1. N \div b <= N \div a
    <3>1. a \in Nat \ {0} /\ b \in Nat \ {0}
      BY <1>1, <1>7
    <3> QED
      BY <1>2, <3>1, SmallerShare
  <2> QED
    BY <1>1, <1>3, <1>4, <1>7, <2>1
<1> QED
  BY <1>1, <1>5, <1>6, <1>7

\* A record's score, from its parts; it is never more than 1.0.
LEMMA ScoreParts ==
  ASSUME HealthTypeOK, NEW p \in Provider
  PROVE  /\ health[p].latency \in Nat
         /\ health[p].success \in 0 .. Unit
         /\ LatencyScore(health[p].latency) \in 0 .. 3 * Unit
         /\ Score(p) =
              5 * Unit + LatencyScore(health[p].latency) + 2 * health[p].success
         /\ Score(p) \in 0 .. Perfect
<1> DEFINE l == health[p].latency
           s == health[p].success
           c == LatencyScore(l)
<1>1. l \in Nat /\ s \in 0 .. Unit
  BY DEF HealthTypeOK, Record
<1>2. c \in 0 .. 3 * Unit
  BY <1>1, LatencyScoreFalls
<1>3. Score(p) = 5 * Unit + c + 2 * s
  BY DEF Score, Base
<1> HIDE DEF l, s, c
<1>4. Score(p) \in 0 .. Perfect
  BY <1>1, <1>2, <1>3, HealthAssumption DEF Perfect
<1> QED
  BY <1>1, <1>2, <1>3, <1>4 DEF l, s, c

-----------------------------------------------------------------------------
(* What a step does to the records.                                        *)

\* The records a probe can leave behind: a success in the time it may have
\* taken, or a failure, if its node may fail.
Succeeded(p, latency) ==
  [latency |-> IF health[p].latency = 0 THEN latency
               ELSE Smooth(health[p].latency, latency),
   success |-> Smooth(health[p].success, Unit)]

Failed(p) ==
  [latency |-> health[p].latency, success |-> Smooth(health[p].success, 0)]

ResultOf(p) ==
  \/ health'[p] = health[p]
  \/ \E latency \in MayTake(p) : health'[p] = Succeeded(p, latency)
  \/ MayFail(p) /\ health'[p] = Failed(p)

\* What a probe leaves behind is a record.
LEMMA ResultsAreRecords ==
  ASSUME HealthTypeOK, NEW p \in Provider
  PROVE  /\ Failed(p) \in Record
         /\ \A latency \in MayTake(p) : Succeeded(p, latency) \in Record
<1>1. health[p].latency \in Nat /\ health[p].success \in 0 .. Unit
  BY DEF HealthTypeOK, Record
<1>2. /\ Smooth(health[p].success, 0) \in 0 .. health[p].success
      /\ Smooth(health[p].success, Unit) \in health[p].success .. Unit
  BY <1>1, SmoothRange
<1>3. /\ Smooth(health[p].success, 0) \in 0 .. Unit
      /\ Smooth(health[p].success, Unit) \in 0 .. Unit
  BY <1>1, <1>2, HealthAssumption
<1>4. ASSUME NEW latency \in MayTake(p)
      PROVE  Succeeded(p, latency) \in Record
  <2>1. latency \in Nat
    BY <1>4, HealthAssumption DEF MayTake
  <2>2. Smooth(health[p].latency, latency) \in Nat
    BY <1>1, <2>1, SmoothBetween
  <2> QED
    BY <1>3, <2>1, <2>2 DEF Succeeded, Record
<1>5. Failed(p) \in Record
  BY <1>1, <1>3 DEF Failed, Record
<1> QED
  BY <1>4, <1>5

\* Only the end of its own probe changes a provider's record.
LEMMA StepIsResult ==
  ASSUME TypeOK, [Next]_vars
  PROVE  TypeOK' /\ \A p \in Provider : ResultOf(p)
<1> DEFINE Waiting == [Provider -> {"waiting", "chain_id", "block_number"}]
<1>1. /\ health \in [Provider -> Record]
      /\ node \in [Provider -> Condition]
      /\ probe \in Waiting
      /\ changed \subseteq {p \in Provider : probe[p] # "waiting"}
  BY DEF TypeOK, HealthTypeOK
<1>2. ASSUME UNCHANGED health
      PROVE  \A p \in Provider : ResultOf(p)
  BY <1>2 DEF ResultOf
<1>3. CASE Launch \/ UNCHANGED vars
  <2>1. UNCHANGED <<health, node, changed>> /\ probe' \in Waiting
    BY <1>1, <1>3 DEF Launch, vars
  <2>2. changed' \subseteq {p \in Provider : probe'[p] # "waiting"}
    BY <1>1, <1>3 DEF Launch, vars
  <2> QED
    BY <1>1, <1>2, <2>1, <2>2 DEF TypeOK, HealthTypeOK
<1>4. ASSUME NEW p \in Provider, NEW c \in Condition, NodeChanges(p, c)
      PROVE  TypeOK' /\ \A q \in Provider : ResultOf(q)
  <2>1. UNCHANGED <<health, probe>> /\ node' \in [Provider -> Condition]
    BY <1>1, <1>4 DEF NodeChanges
  <2>2. changed' \subseteq {q \in Provider : probe'[q] # "waiting"}
    BY <1>1, <1>4 DEF NodeChanges
  <2> QED
    BY <1>1, <1>2, <2>1, <2>2 DEF TypeOK, HealthTypeOK
<1>5. ASSUME NEW p \in Provider, ChainIdAnswers(p)
      PROVE  TypeOK' /\ \A q \in Provider : ResultOf(q)
  <2>1. UNCHANGED <<health, node, changed>> /\ probe' \in Waiting
    BY <1>1, <1>5 DEF ChainIdAnswers
  <2>2. changed' \subseteq {q \in Provider : probe'[q] # "waiting"}
    BY <1>1, <1>5 DEF ChainIdAnswers
  <2> QED
    BY <1>1, <1>2, <2>1, <2>2 DEF TypeOK, HealthTypeOK
<1>6. ASSUME NEW p \in Provider, NEW record \in Record, Ends(p),
             health' = [health EXCEPT ![p] = record],
             \/ \E latency \in MayTake(p) : record = Succeeded(p, latency)
             \/ MayFail(p) /\ record = Failed(p)
      PROVE  TypeOK' /\ \A q \in Provider : ResultOf(q)
  <2>1. \A q \in Provider : health'[q] = IF q = p THEN record ELSE health[q]
    BY <1>1, <1>6
  <2>2. \A q \in Provider : ResultOf(q)
    BY <1>6, <2>1 DEF ResultOf
  <2>3. health' \in [Provider -> Record]
    BY <1>1, <1>6
  <2>4. /\ UNCHANGED node /\ probe' \in Waiting
        /\ changed' \subseteq {q \in Provider : probe'[q] # "waiting"}
    BY <1>1, <1>6 DEF Ends
  <2> QED
    BY <1>1, <2>2, <2>3, <2>4 DEF TypeOK, HealthTypeOK
<1>7. ASSUME NEW p \in Provider, BlockNumberAnswers(p)
      PROVE  TypeOK' /\ \A q \in Provider : ResultOf(q)
  <2>1. PICK latency \in MayTake(p) : ProbeSucceeds(p, latency)
    BY <1>7 DEF BlockNumberAnswers
  <2>2. health' = [health EXCEPT ![p] = Succeeded(p, latency)]
    BY <1>1, <2>1 DEF ProbeSucceeds, Succeeded
  <2>3. Succeeded(p, latency) \in Record
    BY <2>1, ResultsAreRecords DEF TypeOK
  <2> QED
    BY <1>6, <1>7, <2>1, <2>2, <2>3 DEF BlockNumberAnswers
<1>8. ASSUME NEW p \in Provider, CallFails(p)
      PROVE  TypeOK' /\ \A q \in Provider : ResultOf(q)
  <2>1. health' = [health EXCEPT ![p] = Failed(p)]
    <3> DEFINE record == [health[p] EXCEPT !.success = Smooth(@, 0)]
    <3>1. health' = [health EXCEPT ![p] = record]
      BY <1>1, <1>8 DEF CallFails, ProbeFails
    <3>2. health[p] = [latency |-> health[p].latency,
                       success |-> health[p].success]
      BY <1>1 DEF Record
    <3>3. record = Failed(p)
      BY <3>2 DEF Failed
    <3> QED
      BY <3>1, <3>3
  <2>2. Failed(p) \in Record
    BY ResultsAreRecords DEF TypeOK
  <2> QED
    BY <1>6, <1>8, <2>1, <2>2 DEF CallFails
<1> QED
  BY <1>3, <1>4, <1>5, <1>7, <1>8 DEF Next, Probe

\* Averages stay in range whatever the nodes do.
THEOREM ProbingTypeCorrect == Spec => []TypeOK
<1>1. Init => TypeOK
  BY HealthAssumption DEF Init, HealthInit, TypeOK, HealthTypeOK, Record
<1>2. TypeOK /\ [Next]_vars => TypeOK'
  BY StepIsResult
<1> QED
  BY <1>1, <1>2, PTL DEF Spec

-----------------------------------------------------------------------------
(* Scores follow nodes.                                                    *)

\* Between two results a score stays; the result of a node that was fine
\* throughout does not lower it, and that of a failing one does not raise it.
LEMMA FollowStep ==
  ASSUME TypeOK, [Next]_vars, NEW p \in Provider \ changed
  PROVE  /\ node[p] = "fine" => Score(p)' >= Score(p)
         /\ node[p] = "failing" => Score(p)' <= Score(p)
<1> DEFINE l == health[p].latency
           s == health[p].success
           l2 == health'[p].latency
           s2 == health'[p].success
<1>1. /\ l \in Nat /\ s \in 0 .. Unit
      /\ LatencyScore(l) \in 0 .. 3 * Unit
      /\ Score(p) = 5 * Unit + LatencyScore(l) + 2 * s
  BY ScoreParts DEF TypeOK
<1>2. /\ l2 \in Nat /\ s2 \in 0 .. Unit
      /\ LatencyScore(l2) \in 0 .. 3 * Unit
      /\ Score(p)' = 5 * Unit + LatencyScore(l2) + 2 * s2
  <2>1. health' \in [Provider -> Record]
    BY StepIsResult DEF TypeOK, HealthTypeOK
  <2>2. l2 \in Nat /\ s2 \in 0 .. Unit
    BY <2>1 DEF Record
  <2>3. Score(p)' = 5 * Unit + LatencyScore(l2) + 2 * s2
    BY DEF Score, Base, LatencyScore
  <2> QED
    BY <2>2, <2>3, LatencyScoreFalls
<1>3. ResultOf(p)
  BY StepIsResult
<1>4. /\ Fast \in Nat /\ Fast <= PromptLatency
      /\ Unit \in Nat /\ PromptLatency \in Nat
  BY ProbingAssumption, HealthAssumption
<1>5. \/ l2 = l /\ s2 = s
      \/ /\ s2 = Smooth(s, Unit)
         /\ node[p] = "fine" =>
              l2 = IF l = 0 THEN Fast ELSE Smooth(l, Fast)
         /\ node[p] # "failing"
      \/ l2 = l /\ s2 = Smooth(s, 0) /\ node[p] = "failing"
  <2>1. CASE health'[p] = health[p]
    BY <2>1
  <2>2. ASSUME NEW latency \in MayTake(p), health'[p] = Succeeded(p, latency)
        PROVE  /\ s2 = Smooth(s, Unit)
               /\ node[p] = "fine" =>
                    l2 = IF l = 0 THEN Fast ELSE Smooth(l, Fast)
               /\ node[p] # "failing"
    <3>1. \/ node[p] = "fine" /\ latency = Fast
          \/ node[p] = "slow"
      BY <2>2 DEF MayTake
    <3>2. /\ s2 = Smooth(s, Unit)
          /\ l2 = IF l = 0 THEN latency ELSE Smooth(l, latency)
      BY <2>2 DEF Succeeded
    <3> HIDE DEF l, s, l2, s2
    <3> QED
      BY <3>1, <3>2
  <2>3. ASSUME MayFail(p), health'[p] = Failed(p)
        PROVE  l2 = l /\ s2 = Smooth(s, 0) /\ node[p] = "failing"
    BY <2>3 DEF MayFail, Failed
  <2> QED
    BY <1>3, <2>1, <2>2, <2>3 DEF ResultOf
<1> HIDE DEF l, s, l2, s2
<1>6. ASSUME node[p] = "fine"
      PROVE  LatencyScore(l2) >= LatencyScore(l) /\ s2 >= s
  <2>1. CASE l2 = l /\ s2 = s
    BY <1>1, <2>1
  <2>2. CASE s2 = Smooth(s, Unit) /\ l2 = IF l = 0 THEN Fast ELSE Smooth(l, Fast)
    <3>1. s2 >= s
      BY <1>1, <2>2, SmoothRange
    <3>2. CASE l <= PromptLatency
      <4>1. l2 <= PromptLatency
        <5>1. Smooth(l, Fast) <= l \/ Smooth(l, Fast) <= Fast
          BY <1>1, <1>4, SmoothBetween
        <5>2. Smooth(l, Fast) \in Nat
          BY <1>1, <1>4, SmoothBetween
        <5> QED
          BY <1>1, <1>4, <2>2, <3>2, <5>1, <5>2
      <4>2. /\ LatencyScore(l2) = 3 * Unit
            /\ LatencyScore(l) = 3 * Unit
        BY <1>1, <1>2, <3>2, <4>1, LatencyScoreFalls
      <4> QED
        BY <1>4, <3>1, <4>2
    <3>3. CASE l > PromptLatency
      <4>1. l2 <= l
        <5>1. Smooth(l, Fast) <= l
          BY <1>1, <1>4, <3>3, SmoothBetween
        <5> QED
          BY <1>1, <1>4, <2>2, <3>3, <5>1
      <4> QED
        BY <1>1, <1>2, <3>1, <4>1, LatencyScoreFalls
    <3> QED
      BY <1>1, <1>4, <3>2, <3>3
  <2> QED
    BY <1>5, <1>6, <2>1, <2>2
<1>7. ASSUME node[p] = "failing"
      PROVE  l2 = l /\ s2 <= s
  BY <1>1, <1>5, <1>7, SmoothRange
<1>8. node[p] = "fine" => Score(p)' >= Score(p)
  BY <1>1, <1>2, <1>4, <1>6
<1>9. node[p] = "failing" => Score(p)' <= Score(p)
  BY <1>1, <1>2, <1>4, <1>7
<1> QED
  BY <1>8, <1>9

\* No result moves a score against the node it comes from, whatever the
\* averages were, unless the node changed while its probe was under way.
THEOREM ScoresFollow == Spec => ScoreFollowsNode
<1>1. TypeOK /\ [Next]_vars =>
        [\A p \in Provider \ changed :
           /\ node[p] = "fine" => Score(p)' >= Score(p)
           /\ node[p] = "failing" => Score(p)' <= Score(p)]_vars
  BY FollowStep
<1> QED
  BY <1>1, ProbingTypeCorrect, PTL DEF Spec, ScoreFollowsNode

-----------------------------------------------------------------------------
(* Recovery, but for the fairness that drives it.                          *)

\* Within Strict of a perfect score.
Well(p) == WithinTolerance(Score(p), Perfect, Strict)

\* Who is well is within Strict of whoever scores best.
LEMMA WellScoresWell ==
  ASSUME TypeOK, NEW p \in Provider, Well(p)
  PROVE  ScoresWell(p)
<1> SUFFICES ASSUME NEW q \in Provider
             PROVE  WithinTolerance(Score(p), Score(q), Strict)
  BY DEF ScoresWell
<1>1. Score(p) \in 0 .. Perfect /\ Score(q) \in 0 .. Perfect
  BY ScoreParts DEF TypeOK
<1>2. Perfect \in Nat \ {0}
  BY HealthAssumption DEF Perfect
<1> QED
  BY <1>1, <1>2 DEF Well, WithinTolerance, Strict

\* What keeps a provider's record from a perfect one.
Deficit(p) ==
  (Unit - health[p].success)
    + (IF health[p].latency <= PromptLatency THEN 0
       ELSE health[p].latency - PromptLatency)

\* A step of a good record keeps it, and one of any other does not move it away
\* from a perfect one, and closer to it with an answer.
Gains(p) ==
  /\ Well(p) => Well(p)'
  /\ Deficit(p) \in Nat /\ Deficit(p)' \in 0 .. Deficit(p)
  /\ BlockNumberAnswers(p) /\ ~ Well(p) => Deficit(p)' < Deficit(p)

\* While a node is fine, and was when its probe began, what is well stays so,
\* and each answer brings what is not closer to it.
LEMMA RecoveryStep ==
  ASSUME TypeOK, [Next]_vars, NEW p \in Provider \ changed, node[p] = "fine"
  PROVE  Gains(p)
<1> DEFINE l == health[p].latency
           s == health[p].success
           l2 == health'[p].latency
           s2 == health'[p].success
           x == IF l <= PromptLatency THEN 0 ELSE l - PromptLatency
           x2 == IF l2 <= PromptLatency THEN 0 ELSE l2 - PromptLatency
<1>1. /\ l \in Nat /\ s \in 0 .. Unit
      /\ LatencyScore(l) \in 0 .. 3 * Unit
      /\ l <= PromptLatency => LatencyScore(l) = 3 * Unit
      /\ Score(p) = 5 * Unit + LatencyScore(l) + 2 * s
      /\ Score(p) \in 0 .. Perfect
  BY ScoreParts, LatencyScoreFalls DEF TypeOK
<1>2. l2 \in Nat /\ s2 \in 0 .. Unit /\ Score(p)' \in 0 .. Perfect
  <2>1. TypeOK'
    BY StepIsResult
  <2>2. HealthTypeOK'
    BY <2>1 DEF TypeOK
  <2>3. l2 \in Nat /\ s2 \in 0 .. Unit
    BY <2>2 DEF HealthTypeOK, Record
  <2>4. Score(p)' = 5 * Unit + LatencyScore(l2) + 2 * s2
    BY DEF Score, Base, LatencyScore
  <2>5. LatencyScore(l2) \in 0 .. 3 * Unit
    BY <2>3, LatencyScoreFalls
  <2> HIDE DEF l2, s2
  <2> QED
    BY <2>3, <2>4, <2>5, HealthAssumption DEF Perfect
<1>3. /\ Fast \in Nat /\ Fast <= PromptLatency
      /\ Unit \in Nat \ {0} /\ PromptLatency \in Nat
      /\ Perfect = 10 * Unit
  BY ProbingAssumption, HealthAssumption DEF Perfect
<1>4. \/ l2 = l /\ s2 = s
      \/ /\ s2 = Smooth(s, Unit)
         /\ l2 = IF l = 0 THEN Fast ELSE Smooth(l, Fast)
  <2>1. ~ MayFail(p) /\ \A latency \in MayTake(p) : latency = Fast
    BY DEF MayFail, MayTake
  <2>2. CASE health'[p] = health[p]
    BY <2>2
  <2>3. ASSUME NEW latency \in MayTake(p), health'[p] = Succeeded(p, latency)
        PROVE  /\ s2 = Smooth(s, Unit)
               /\ l2 = IF l = 0 THEN Fast ELSE Smooth(l, Fast)
    BY <2>1, <2>3 DEF Succeeded
  <2> QED
    BY StepIsResult, <2>1, <2>2, <2>3 DEF ResultOf
<1>5. BlockNumberAnswers(p) =>
        /\ s2 = Smooth(s, Unit)
        /\ l2 = IF l = 0 THEN Fast ELSE Smooth(l, Fast)
  BY DEF BlockNumberAnswers, ProbeSucceeds, MayTake, TypeOK, HealthTypeOK
<1>6. Deficit(p) = (Unit - s) + x /\ Deficit(p)' = (Unit - s2) + x2
  BY DEF Deficit
<1>7. Well(p) <=> 10 * (Perfect - Score(p)) <= Perfect
  BY <1>3 DEF Well, WithinTolerance, Strict
<1>8. Well(p)' <=> 10 * (Perfect - Score(p)') <= Perfect
  BY <1>3 DEF Well, WithinTolerance, Strict, Score, Base, LatencyScore
<1> HIDE DEF l, s, l2, s2
<1>9. Well(p) => Well(p)'
  <2>1. Score(p)' >= Score(p)
    BY FollowStep
  <2> HIDE DEF Well, Score
  <2> QED
    BY <1>1, <1>2, <1>3, <1>7, <1>8, <2>1
<1>10. x \in Nat /\ x2 \in Nat
  BY <1>1, <1>2, <1>3
<1>11. Smooth(s, Unit) >= s /\ (s <= Unit - 4 => Smooth(s, Unit) > s)
  BY <1>1, <1>3 DEF Smooth
<1>12. ASSUME l2 = IF l = 0 THEN Fast ELSE Smooth(l, Fast)
       PROVE  x2 <= x /\ (l > PromptLatency => x2 < x)
  <2>1. CASE l <= PromptLatency
    <3>1. Smooth(l, Fast) <= PromptLatency
      BY <1>1, <1>3, <2>1 DEF Smooth
    <3> QED
      BY <1>1, <1>2, <1>3, <1>12, <2>1, <3>1
  <2>2. CASE l > PromptLatency
    <3>1. l2 < l
      BY <1>1, <1>3, <1>12, <2>2 DEF Smooth
    <3> QED
      BY <1>1, <1>2, <1>3, <2>2, <3>1
  <2> QED
    BY <1>1, <1>3, <2>1, <2>2
<1>13. ~ Well(p) => l > PromptLatency \/ s <= Unit - 4
  <2> SUFFICES ASSUME ~ Well(p), l <= PromptLatency
               PROVE  s <= Unit - 4
    BY <1>1, <1>3
  <2>1. 10 * (2 * Unit - 2 * s) > 10 * Unit
    BY <1>1, <1>3, <1>7
  <2> QED
    BY <1>1, <1>3, <2>1, ResolutionAssumption
<1> HIDE DEF x, x2
<1>14. x2 <= x /\ s2 >= s
  BY <1>1, <1>4, <1>10, <1>11, <1>12 DEF x, x2
<1>15. BlockNumberAnswers(p) /\ ~ Well(p) => x2 < x \/ s2 > s
  BY <1>5, <1>11, <1>12, <1>13
<1> QED
  BY <1>1, <1>2, <1>3, <1>6, <1>9, <1>10, <1>14, <1>15 DEF Gains

\* However badly a provider did, and whatever the others do: while its node is
\* fine, and once the probe under way when it became so has ended, a score
\* within Strict of a perfect one, and so of everyone's, lasts, and any other
\* gains on it with every answer, of which finitely many therefore suffice:
\* that probes go on is all RecoversScore adds.
THEOREM RecoveryAdvances ==
  Spec => /\ [](\A p \in Provider : Well(p) => ScoresWell(p))
          /\ [][\A p \in Provider \ changed :
                  node[p] = "fine" => Gains(p)]_vars
<1>1. TypeOK => \A p \in Provider : Well(p) => ScoresWell(p)
  BY WellScoresWell
<1>2. TypeOK /\ [Next]_vars =>
        [\A p \in Provider \ changed : node[p] = "fine" => Gains(p)]_vars
  BY RecoveryStep
<1> QED
  BY <1>1, <1>2, ProbingTypeCorrect, PTL DEF Spec
=============================================================================
