---------------------------- MODULE HealthProofs ----------------------------
(***************************************************************************)
(* What the health filter may never drop, for every set of providers, of   *)
(* latencies and of tolerances, and any number of probes.                  *)
(***************************************************************************)
EXTENDS HealthSelection, TLAPS

-----------------------------------------------------------------------------
(* The score                                                               *)

\* A smoothed success rate stays a rate, and stays 1.0 without a failure.
LEMMA SmoothRate ==
  ASSUME NEW rate \in 0 .. Unit
  PROVE  /\ Smooth(rate, 0) \in 0 .. Unit
         /\ Smooth(rate, Unit) \in 0 .. Unit
         /\ Smooth(Unit, Unit) = Unit
BY HealthAssumption DEF Smooth

\* A smoothed latency is no larger than both values, and rounding it down
\* never takes a positive one to zero, which means `no success yet'.
LEMMA SmoothLatency ==
  ASSUME NEW old \in Nat \ {0}, NEW sample \in Nat \ {0}
  PROVE  /\ Smooth(old, sample) \in Nat \ {0}
         /\ old <= PromptLatency /\ sample <= PromptLatency =>
              Smooth(old, sample) <= PromptLatency
BY HealthAssumption DEF Smooth

\* A part smaller than one of a.
LEMMA PartOf ==
  ASSUME NEW a \in Nat, NEW m \in Nat \ {0}, NEW n \in Nat, n > m
  PROVE  (a * m) \div n \in 0 .. a
<1> DEFINE q == (a * m) \div n
<1>1. a * m \in Nat /\ q \in Int
  BY Z3
<1>2. q * n <= a * m /\ a * m < (q + 1) * n
  BY Z3
<1>3. a * m <= a * n
  BY Z3
<1> HIDE DEF q
<1>4. q * n <= a * n
  BY <1>1, <1>2, <1>3, Z3
<1>5. q <= a
  BY <1>1, <1>4, Z3
<1>6. q >= 0
  BY <1>1, <1>2, Z3
<1> QED
  BY <1>1, <1>5, <1>6 DEF q

\* The latency score is clamped: it never exceeds 0.3, and is 0.3 for every
\* latency of at most two seconds and for none at all.
LEMMA LatencyScoreBounds ==
  ASSUME NEW latency \in Nat
  PROVE  /\ LatencyScore(latency) \in 0 .. 3 * Unit
         /\ latency <= PromptLatency => LatencyScore(latency) = 3 * Unit
<1>1. CASE latency <= PromptLatency
  BY <1>1, HealthAssumption DEF LatencyScore
<1>2. CASE latency > PromptLatency
  <2>1. 3 * Unit \in Nat
    BY HealthAssumption
  <2>2. (3 * Unit * PromptLatency) \div latency \in 0 .. 3 * Unit
    BY <1>2, <2>1, PartOf, HealthAssumption
  <2> QED
    BY <1>2, <2>2, HealthAssumption DEF LatencyScore
<1> QED
  BY <1>1, <1>2, HealthAssumption

\* A score is at most perfect, 0.8 of it whatever fails as long as the latency
\* is prompt or unknown, and perfect if also nothing failed.
LEMMA ScoreBounds ==
  ASSUME HealthTypeOK, NEW p \in Provider
  PROVE  /\ Score(p) \in 0 .. Perfect
         /\ health[p].latency <= PromptLatency => Score(p) >= 8 * Unit
         /\ health[p].latency <= PromptLatency /\ health[p].success = Unit
              => Score(p) = Perfect
<1> DEFINE l == health[p].latency
           s == health[p].success
           c == LatencyScore(l)
<1>1. l \in Nat /\ s \in 0 .. Unit
  BY DEF HealthTypeOK, Record
<1>2. c \in 0 .. 3 * Unit /\ (l <= PromptLatency => c = 3 * Unit)
  BY <1>1, LatencyScoreBounds
<1>3. Score(p) = 5 * Unit + c + 2 * s
  BY DEF Score, Base
<1> HIDE DEF l, s, c
<1>4. /\ Score(p) \in 0 .. Perfect
      /\ l <= PromptLatency => Score(p) >= 8 * Unit
      /\ l <= PromptLatency /\ s = Unit => Score(p) = Perfect
  BY <1>1, <1>2, <1>3, HealthAssumption DEF Perfect
<1> QED
  BY <1>4 DEF l, s

\* A perfect score is within every tolerance of every score.
LEMMA PerfectFits ==
  ASSUME NEW top \in 0 .. Perfect, NEW tol \in Tolerance
  PROVE  WithinTolerance(Perfect, top, tol)
BY HealthAssumption DEF WithinTolerance, Tolerance, Perfect

\* 0.8 is within Balanced and Relaxed of every score.
LEMMA EightTenthsFit ==
  ASSUME NEW top \in 0 .. Perfect, NEW tol \in Tolerance \ {Strict},
         NEW score \in 0 .. Perfect, score >= 8 * Unit
  PROVE  WithinTolerance(score, top, tol)
BY HealthAssumption DEF WithinTolerance, Tolerance, Perfect, Strict

-----------------------------------------------------------------------------
(* Type correctness                                                        *)

\* A probe result keeps the records well-formed.
LEMMA ProbeResultType ==
  ASSUME HealthTypeOK, NEW p \in Provider,
         ProbeFails(p) \/ \E latency \in Latencies : ProbeSucceeds(p, latency)
  PROVE  HealthTypeOK'
<1>0. health[p].latency \in Nat /\ health[p].success \in 0 .. Unit
  BY DEF HealthTypeOK, Record
<1>1. ASSUME NEW latency \in Latencies, ProbeSucceeds(p, latency)
      PROVE  HealthTypeOK'
  <2>1. Smooth(health[p].success, Unit) \in 0 .. Unit
    BY <1>0, SmoothRate
  <2>2. latency \in Nat /\ Smooth(health[p].latency, latency) \in Nat
    BY <1>0, HealthAssumption DEF Smooth
  <2>3. [latency |-> IF health[p].latency = 0 THEN latency
                     ELSE Smooth(health[p].latency, latency),
         success |-> Smooth(health[p].success, Unit)] \in Record
    BY <2>1, <2>2 DEF Record
  <2> QED
    BY <1>1, <2>3 DEF ProbeSucceeds, HealthTypeOK
<1>2. CASE ProbeFails(p)
  <2>1. Smooth(health[p].success, 0) \in 0 .. Unit
    BY <1>0, SmoothRate
  <2> QED
    BY <1>0, <1>2, <2>1 DEF ProbeFails, HealthTypeOK, Record
<1> QED
  BY <1>1, <1>2

\* Every step of the selection keeps the types.
LEMMA TypeStep ==
  TypeOK /\ [Next]_vars => TypeOK'
<1> SUFFICES ASSUME TypeOK, [Next]_vars
             PROVE  TypeOK'
  OBVIOUS
<1> USE SelectionAssumption DEF TypeOK, Passes
<1>1. ASSUME NEW exclude \in SUBSET Provider, NEW policy \in PolicyTolerances,
             Begin(exclude, policy)
      PROVE  TypeOK'
  BY <1>1 DEF Begin, probes, HealthTypeOK
<1>2. ASSUME NEW p \in Provider, ReadForBest(p)
      PROVE  TypeOK'
  <2>1. Larger(best, Score(p)) \in 0 .. Perfect
    BY ScoreBounds DEF Larger
  <2> QED
    BY <1>2, <2>1 DEF ReadForBest, EndsPass, probes, HealthTypeOK
<1>3. ASSUME NEW p \in Provider, ReadSnapshot(p)
      PROVE  TypeOK'
  <2>1. seen' \in [Provider -> 0 .. Perfect]
    BY <1>3, ScoreBounds DEF ReadSnapshot
  <2>2. eligible' \in SUBSET Provider
    BY <1>3 DEF ReadSnapshot
  <2>3. phase' \in {"idle", "done"} \cup Passes /\ unread' \in SUBSET Provider
    BY <1>3 DEF ReadSnapshot, EndsPass
  <2> QED
    BY <1>3, <2>1, <2>2, <2>3 DEF ReadSnapshot, probes, HealthTypeOK
<1>4. ASSUME NEW p \in Provider, ReadForCeiling(p)
      PROVE  TypeOK'
  <2>1. Larger(ceiling, Score(p)) \in 0 .. Perfect
    BY ScoreBounds DEF Larger
  <2>2. eligible' \in SUBSET Provider
    BY <1>4 DEF ReadForCeiling, Filtered
  <2>3. phase' \in {"idle", "done"} \cup Passes /\ unread' \in SUBSET Provider
    BY <1>4 DEF ReadForCeiling, EndsPass
  <2> QED
    BY <1>4, <2>1, <2>2, <2>3 DEF ReadForCeiling, probes, HealthTypeOK
<1>5. CASE Return
  <2>1. 0 \in 0 .. Perfect /\ NothingSeen \in [Provider -> 0 .. Perfect]
    BY HealthAssumption DEF NothingSeen, Perfect
  <2> QED
    BY <1>5, <2>1 DEF Return, probes, HealthTypeOK
<1>6. ASSUME NEW p \in Provider, Disturb(p)
      PROVE  TypeOK'
  <2>1. HealthTypeOK'
    BY <1>6, ProbeResultType DEF Disturb
  <2>2. results' \in [Provider -> 0 .. MaxResults]
    BY <1>6 DEF Disturb
  <2> QED
    BY <1>6, <2>1, <2>2 DEF Disturb, selection
<1>7. CASE UNCHANGED vars
  BY <1>7 DEF vars, selection, probes, HealthTypeOK
<1> QED
  BY <1>1, <1>2, <1>3, <1>4, <1>5, <1>6, <1>7 DEF Next, Read

\* Every variable of the health selection stays in its domain: in particular
\* no score, and no best score, is ever above 1.0.
THEOREM SelectionTypeCorrect == Spec => []TypeOK
<1>1. Init => TypeOK
  <2> SUFFICES ASSUME Init
               PROVE  TypeOK
    OBVIOUS
  <2>1. 0 \in 0 .. Perfect /\ NothingSeen \in [Provider -> 0 .. Perfect]
    BY HealthAssumption DEF NothingSeen, Perfect
  <2>2. HealthTypeOK
    BY HealthAssumption DEF Init, HealthInit, HealthTypeOK, Record
  <2>3. results \in [Provider -> 0 .. MaxResults]
    BY SelectionAssumption DEF Init
  <2> QED
    BY <2>1, <2>2, <2>3, SelectionAssumption DEF Init, TypeOK
<1> QED
  BY <1>1, TypeStep, PTL DEF Spec

-----------------------------------------------------------------------------
(* What the filter spares                                                  *)

\* A result leaves the success rate of a reliable provider at 1.0, and the
\* latency of a prompt one within two seconds.
LEMMA DisturbEffect ==
  ASSUME TypeOK, ReliableArePerfect, PromptScoreHigh,
         NEW q \in Provider, Disturb(q)
  PROVE  /\ \A p \in reliable : health'[p].success = Unit
         /\ \A p \in prompt : health'[p].latency <= PromptLatency
<1> DEFINE l == health[q].latency
           s == health[q].success
<1>0. /\ health \in [Provider -> Record] /\ l \in Nat /\ s \in 0 .. Unit
      /\ prompt \subseteq Provider /\ reliable \subseteq prompt
  BY DEF TypeOK, HealthTypeOK, Record
<1>1. ASSUME NEW latency \in Latencies, ProbeSucceeds(q, latency),
             q \in prompt => latency <= PromptLatency
      PROVE  /\ q \in reliable => health'[q].success = Unit
             /\ q \in prompt => health'[q].latency <= PromptLatency
             /\ \A p \in Provider \ {q} : health'[p] = health[p]
  <2>1. /\ health'[q].latency = IF l = 0 THEN latency ELSE Smooth(l, latency)
        /\ health'[q].success = Smooth(s, Unit)
        /\ \A p \in Provider \ {q} : health'[p] = health[p]
    BY <1>0, <1>1 DEF ProbeSucceeds
  <2>2. /\ latency \in Nat \ {0}
        /\ q \in reliable => s = Unit
        /\ q \in prompt => l <= PromptLatency
    BY <1>0, HealthAssumption DEF ReliableArePerfect, PromptScoreHigh
  <2> HIDE DEF l, s
  <2>3. q \in reliable => health'[q].success = Unit
    BY <1>0, <2>1, <2>2, SmoothRate
  <2>4. CASE l = 0
    BY <1>1, <2>1, <2>3, <2>4
  <2>5. CASE l # 0
    <3>1. l \in Nat \ {0}
      BY <1>0, <2>5
    <3> QED
      BY <1>1, <2>1, <2>2, <2>3, <2>5, <3>1, SmoothLatency
  <2> QED
    BY <2>4, <2>5
<1>2. CASE ProbeFails(q) /\ q \notin reliable
  <2>1. /\ health'[q].latency = l
        /\ \A p \in Provider \ {q} : health'[p] = health[p]
    BY <1>0, <1>2 DEF ProbeFails, Record
  <2> QED
    BY <1>0, <1>2, <2>1 DEF ReliableArePerfect, PromptScoreHigh
<1>3. CASE \E latency \in Latencies :
             /\ q \in prompt => latency <= PromptLatency
             /\ ProbeSucceeds(q, latency)
  BY <1>0, <1>1, <1>3 DEF ReliableArePerfect, PromptScoreHigh
<1> QED
  BY <1>2, <1>3 DEF Disturb

SpareInv ==
  /\ ReliableArePerfect /\ PromptScoreHigh
  /\ ReliableStayEligible /\ FailingStayEligible

\* The invariant holds initially: nothing is read, every record is perfect.
LEMMA SpareInit == Init => SpareInv
BY HealthAssumption
DEF Init, HealthInit, SpareInv, ReliableArePerfect, PromptScoreHigh, Taken,
    ReliableStayEligible, FailingStayEligible

\* Every step of the selection, and every result that arrives during it,
\* keeps the invariant.
LEMMA SpareStep ==
  TypeOK /\ SpareInv /\ [Next]_vars => SpareInv'
<1> SUFFICES ASSUME TypeOK, SpareInv, [Next]_vars
             PROVE  SpareInv'
  OBVIOUS
<1> USE HealthAssumption, SelectionAssumption
<1>0. /\ HealthTypeOK /\ best \in 0 .. Perfect /\ ceiling \in 0 .. Perfect
      /\ tolerance \in Tolerance /\ seen \in [Provider -> 0 .. Perfect]
      /\ prompt \subseteq Provider /\ reliable \subseteq prompt
  BY DEF TypeOK
<1>1. ASSUME NEW exclude \in SUBSET Provider, NEW policy \in PolicyTolerances,
             Begin(exclude, policy)
      PROVE  SpareInv'
  BY <1>1 DEF Begin, probes, SpareInv, ReliableArePerfect, PromptScoreHigh, Taken,
              ReliableStayEligible, FailingStayEligible
<1>2. ASSUME NEW p \in Provider, ReadForBest(p)
      PROVE  SpareInv'
  <2>1. /\ UNCHANGED <<health, prompt, reliable, seen, eligible>>
        /\ phase' # "done" /\ \A q \in Provider : ~ Taken(q)'
    BY <1>2 DEF ReadForBest, EndsPass, probes, Taken
  <2> QED
    BY <1>0, <2>1 DEF SpareInv, ReliableArePerfect, PromptScoreHigh,
                      ReliableStayEligible, FailingStayEligible
<1>3. ASSUME NEW p \in Provider, ReadSnapshot(p)
      PROVE  SpareInv'
  <2>1. /\ UNCHANGED <<health, prompt, reliable, excluded, tolerance>>
        /\ \A q \in Provider : seen'[q] = IF q = p THEN Score(p) ELSE seen[q]
    BY <1>0, <1>3 DEF ReadSnapshot, probes
  <2>2. p \in reliable => Score(p) = Perfect
    BY <1>0, ScoreBounds DEF SpareInv, ReliableArePerfect, PromptScoreHigh
  <2>3. p \in prompt => Score(p) >= 8 * Unit
    BY <1>0, ScoreBounds DEF SpareInv, PromptScoreHigh
  <2>4. \A q \in Provider : Taken(q)' => q = p \/ Taken(q)
    BY <1>3 DEF ReadSnapshot, EndsPass, Taken
  <2>5. ReliableArePerfect'
    BY <1>0, <2>1, <2>2, <2>4 DEF SpareInv, ReliableArePerfect
  <2>6. PromptScoreHigh'
    BY <1>0, <2>1, <2>3, <2>4 DEF SpareInv, PromptScoreHigh
  <2>7. phase' = "done" => eligible' = Provider \ excluded
    BY <1>3 DEF ReadSnapshot, EndsPass
  <2> QED
    BY <1>0, <2>1, <2>5, <2>6, <2>7
    DEF SpareInv, ReliableStayEligible, FailingStayEligible
<1>4. ASSUME NEW p \in Provider, ReadForCeiling(p)
      PROVE  SpareInv'
  <2>1. UNCHANGED <<health, prompt, reliable, best, seen, excluded, tolerance>>
    BY <1>4 DEF ReadForCeiling, probes
  <2>2. ReliableArePerfect' /\ PromptScoreHigh'
    BY <1>4, <2>1 DEF ReadForCeiling, EndsPass, SpareInv, ReliableArePerfect,
                      PromptScoreHigh, Taken
  <2>3. ceiling' \in 0 .. Perfect
    BY <1>0, <1>4, ScoreBounds DEF ReadForCeiling, Larger
  <2>4. \A q \in Provider : phase' = "done" =>
          (q \in eligible' <=>
             /\ q \notin excluded
             /\ WithinTolerance(seen[q], best, ChainTolerance)
             /\ WithinTolerance(seen[q], ceiling', tolerance))
    BY <1>4 DEF ReadForCeiling, EndsPass, Filtered
  <2>5. ReliableStayEligible'
    <3>1. \A q \in reliable : seen[q] = Perfect
      BY <1>4 DEF ReadForCeiling, SpareInv, ReliableArePerfect, Taken
    <3>2. /\ WithinTolerance(Perfect, best, ChainTolerance)
          /\ WithinTolerance(Perfect, ceiling', tolerance)
      BY <1>0, <2>3, PerfectFits
    <3> QED
      BY <1>0, <2>1, <2>4, <3>1, <3>2 DEF ReliableStayEligible
  <2>6. FailingStayEligible'
    <3> SUFFICES ASSUME phase' = "done", ChainTolerance # Strict,
                        tolerance # Strict, NEW q \in prompt \ excluded
                 PROVE  q \in eligible'
      BY <2>1 DEF FailingStayEligible
    <3>1. seen[q] \in 0 .. Perfect /\ seen[q] >= 8 * Unit
      BY <1>0, <1>4 DEF ReadForCeiling, SpareInv, PromptScoreHigh, Taken
    <3>2. ChainTolerance \in Tolerance \ {Strict}
            /\ tolerance \in Tolerance \ {Strict}
      BY <1>0
    <3>3. /\ WithinTolerance(seen[q], best, ChainTolerance)
          /\ WithinTolerance(seen[q], ceiling', tolerance)
      BY <1>0, <2>3, <3>1, <3>2, EightTenthsFit
    <3> QED
      BY <1>0, <2>4, <3>3
  <2> QED
    BY <2>2, <2>5, <2>6 DEF SpareInv
<1>5. CASE Return
  BY <1>5 DEF Return, probes, SpareInv, ReliableArePerfect, PromptScoreHigh, Taken,
              ReliableStayEligible, FailingStayEligible
<1>6. ASSUME NEW p \in Provider, Disturb(p)
      PROVE  SpareInv'
  <2>1. /\ \A q \in reliable : health'[q].success = Unit
        /\ \A q \in prompt : health'[q].latency <= PromptLatency
    BY <1>6, DisturbEffect DEF SpareInv
  <2>2. UNCHANGED <<prompt, reliable, selection>>
    BY <1>6 DEF Disturb
  <2> QED
    BY <2>1, <2>2 DEF selection, SpareInv, ReliableArePerfect, PromptScoreHigh,
      Taken, ReliableStayEligible, FailingStayEligible
<1>7. CASE UNCHANGED vars
  BY <1>7 DEF vars, selection, probes, SpareInv, ReliableArePerfect, PromptScoreHigh,
              Taken, ReliableStayEligible, FailingStayEligible
<1> QED
  BY <1>1, <1>2, <1>3, <1>4, <1>5, <1>6, <1>7 DEF Next, Read

\* Both invariants of the filter, in every behaviour.
LEMMA SpareInvariant == Spec => []SpareInv
<1> QED
  BY SpareInit, SpareStep, SelectionTypeCorrect, PTL DEF Spec

\* The filter always lets a provider through whose probes all succeed within
\* two seconds, whatever the others do and whenever their results arrive.
THEOREM ReliableAreSpared == Spec => []ReliableStayEligible
<1>1. SpareInv => ReliableStayEligible
  BY DEF SpareInv
<1> QED
  BY <1>1, SpareInvariant, PTL

\* Balanced and Relaxed never drop a provider because its probes fail.
THEOREM FailingAreSpared == Spec => []FailingStayEligible
<1>1. SpareInv => FailingStayEligible
  BY DEF SpareInv
<1> QED
  BY <1>1, SpareInvariant, PTL

-----------------------------------------------------------------------------
(* An undisturbed call answers                                             *)

\* top is the best of the scores that are not among the rest, still to be read.
Peak(top, rest) ==
  /\ \A q \in Provider \ rest : Score(q) <= top
  /\ (rest = Provider /\ top = 0) \/ \E q \in Provider : top = Score(q)

\* What the three passes have found, if no result came in between: both best
\* scores those of the records, each snapshot taken its provider's score.
QuietInv ==
  /\ phase \in {"idle", "done"} \cup Passes
  /\ phase = "idle" => best = 0
  /\ phase \in {"idle", "best", "snapshots"} => ceiling = 0
  /\ ~ disturbed =>
       /\ phase = "best" => Peak(best, unread)
       /\ phase \in {"snapshots", "ceiling"} => Peak(best, {})
       /\ phase = "ceiling" => Peak(ceiling, unread)
       /\ \A q \in Provider : Taken(q) => seen[q] = Score(q)
  /\ AnswersWhenQuiet

\* Reading one more score keeps the best of those read.
LEMMA PeakGrows ==
  ASSUME HealthTypeOK, NEW top \in 0 .. Perfect, NEW rest \in SUBSET Provider,
         NEW p \in rest, Peak(top, rest)
  PROVE  Peak(Larger(top, Score(p)), rest \ {p})
<1> DEFINE s == Score(p)
           best2 == Larger(top, s)
<1>1. s \in 0 .. Perfect /\ \A q \in Provider : Score(q) \in 0 .. Perfect
  BY ScoreBounds
<1>2. Perfect \in Nat
  BY HealthAssumption DEF Perfect
<1>3. /\ best2 \in {top, s} /\ top <= best2 /\ s <= best2
      /\ top = 0 => best2 = s
  <2> HIDE DEF s
  <2> QED
    BY <1>1, <1>2 DEF Larger
<1>4. ASSUME NEW q \in Provider \ (rest \ {p})
      PROVE  Score(q) <= best2
  <2>1. CASE q = p
    BY <1>3, <2>1
  <2>2. CASE q # p
    <3>1. Score(q) <= top
      BY <2>2 DEF Peak
    <3> HIDE DEF best2
    <3> QED
      BY <1>1, <1>2, <1>3, <3>1
  <2> QED
    BY <2>1, <2>2
<1>5. \E q \in Provider : best2 = Score(q)
  <2>1. CASE top = 0 \/ best2 = s
    BY <1>3, <2>1
  <2>2. CASE top # 0 /\ best2 = top
    BY <2>2 DEF Peak
  <2> QED
    BY <1>3, <2>1, <2>2
<1> QED
  BY <1>4, <1>5 DEF Peak

\* The best score is within every tolerance of itself.
LEMMA BestFits ==
  ASSUME NEW score \in 0 .. Perfect, NEW tol \in Tolerance
  PROVE  WithinTolerance(score, score, tol)
BY HealthAssumption DEF WithinTolerance, Tolerance, Perfect

\* Two bests of all the scores are the same.
LEMMA PeakIsUnique ==
  ASSUME HealthTypeOK, NEW a, NEW b, Peak(a, {}), Peak(b, {})
  PROVE  a = b /\ \E q \in Provider : a = Score(q)
<1>1. /\ \E q \in Provider : a = Score(q)
      /\ \E q \in Provider : b = Score(q)
  BY SelectionAssumption DEF Peak
<1>2. PICK q \in Provider : a = Score(q)
  BY <1>1
<1>3. PICK r \in Provider : b = Score(r)
  BY <1>1
<1>4. a <= b /\ b <= a
  BY <1>2, <1>3 DEF Peak
<1>5. a \in Int /\ b \in Int
  BY <1>2, <1>3, ScoreBounds
<1> QED
  BY <1>1, <1>4, <1>5

\* Nothing has been read initially.
LEMMA QuietInit == Init => QuietInv
BY DEF Init, QuietInv, AnswersWhenQuiet, Passes, Taken

\* Every read keeps the invariant; a result that arrives meanwhile ends it.
LEMMA QuietStep ==
  ASSUME TypeOK, QuietInv, [Next]_vars
  PROVE  QuietInv'
<1>0. /\ HealthTypeOK /\ best \in 0 .. Perfect /\ ceiling \in 0 .. Perfect
      /\ tolerance \in Tolerance /\ unread \in SUBSET Provider
      /\ seen \in [Provider -> 0 .. Perfect]
  BY DEF TypeOK
<1>1. ASSUME NEW exclude \in SUBSET Provider, NEW policy \in PolicyTolerances,
             Begin(exclude, policy)
      PROVE  QuietInv'
  <2>1. Peak(best, unread)'
    BY <1>1 DEF Begin, QuietInv, Peak
  <2> QED
    BY <1>1, <2>1 DEF Begin, QuietInv, AnswersWhenQuiet, Passes, Taken
<1>2. ASSUME NEW p \in Provider, ReadForBest(p)
      PROVE  QuietInv'
  <2>1. /\ phase = "best" /\ p \in unread
        /\ best' = Larger(best, Score(p))
        /\ UNCHANGED <<health, ceiling, seen, disturbed>>
        /\ \/ unread = {p} /\ phase' = "snapshots" /\ unread' = Provider
           \/ phase' = "best" /\ unread' = unread \ {p}
    BY <1>2 DEF ReadForBest, EndsPass
  <2>2. \A q \in Provider : Score(q)' = Score(q)
    BY <2>1 DEF Score
  <2>3. ~ disturbed => Peak(best', unread \ {p})
    BY <1>0, <2>1, PeakGrows DEF QuietInv
  <2>4. CASE unread = {p} /\ phase' = "snapshots" /\ unread' = Provider
    <3>1. ~ disturbed => Peak(best', {})
      BY <2>3, <2>4
    <3>2. Peak(best', {}) => Peak(best, {})'
      BY <2>2 DEF Peak
    <3>3. \A q \in Provider : ~ Taken(q)'
      BY <2>4 DEF Taken
    <3> QED
      BY <2>1, <2>4, <3>1, <3>2, <3>3 DEF QuietInv, AnswersWhenQuiet, Passes
  <2>5. CASE phase' = "best" /\ unread' = unread \ {p}
    <3>1. Peak(best', unread \ {p}) => Peak(best, unread)'
      BY <2>2, <2>5 DEF Peak
    <3>2. \A q \in Provider : ~ Taken(q)'
      BY <2>5 DEF Taken
    <3> QED
      BY <2>1, <2>3, <2>5, <3>1, <3>2 DEF QuietInv, AnswersWhenQuiet, Passes
  <2> QED
    BY <2>1, <2>4, <2>5
<1>3. ASSUME NEW p \in Provider, ReadSnapshot(p)
      PROVE  QuietInv'
  <2>1. /\ phase = "snapshots" /\ p \in unread
        /\ seen' = [seen EXCEPT ![p] = Score(p)]
        /\ UNCHANGED <<health, best, ceiling, excluded, disturbed>>
    BY <1>3 DEF ReadSnapshot
  <2>2. \A q \in Provider : Score(q)' = Score(q)
    BY <2>1 DEF Score
  <2>3. ~ disturbed => Peak(best, {})'
    BY <2>1, <2>2 DEF QuietInv, Peak
  <2>4. ~ disturbed => \A q \in Provider : Taken(q)' => seen'[q] = Score(q)'
    <3>1. \A q \in Provider : Taken(q)' => q = p \/ Taken(q)
      BY <1>3 DEF ReadSnapshot, EndsPass, Taken
    <3> QED
      BY <1>0, <2>1, <2>2, <3>1 DEF QuietInv
  <2>5. ceiling' = 0
    BY <2>1 DEF QuietInv
  <2>6. CASE phase' = "done" /\ eligible' = Provider \ excluded
    BY <2>1, <2>6, SelectionAssumption
       DEF QuietInv, AnswersWhenQuiet, Passes, Taken
  <2>7. CASE phase' = "ceiling" /\ unread' = Provider
    <3>1. Peak(ceiling, unread)'
      BY <2>5, <2>7 DEF Peak
    <3> QED
      BY <2>1, <2>3, <2>4, <2>7, <3>1 DEF QuietInv, AnswersWhenQuiet, Passes
  <2>8. CASE phase' = "snapshots"
    BY <2>1, <2>3, <2>4, <2>5, <2>8 DEF QuietInv, AnswersWhenQuiet, Passes
  <2> QED
    BY <1>3, <2>1, <2>6, <2>7, <2>8 DEF ReadSnapshot, EndsPass
<1>4. ASSUME NEW p \in Provider, ReadForCeiling(p)
      PROVE  QuietInv'
  <2>1. /\ phase = "ceiling" /\ p \in unread
        /\ ceiling' = Larger(ceiling, Score(p))
        /\ UNCHANGED <<health, best, seen, excluded, disturbed>>
    BY <1>4 DEF ReadForCeiling
  <2>2. \A q \in Provider : Score(q)' = Score(q)
    BY <2>1 DEF Score
  <2>3. ~ disturbed => Peak(ceiling', unread \ {p})
    BY <1>0, <2>1, PeakGrows DEF QuietInv
  <2>4. CASE unread = {p} /\ phase' = "done"
               /\ eligible' = {q \in Filtered(seen) \ excluded :
                                 WithinTolerance(seen[q], ceiling', tolerance)}
    <3>1. ASSUME ~ disturbed, excluded = {}
          PROVE  eligible' # {}
      <4>1. Peak(ceiling', {}) /\ Peak(best, {})
        BY <2>1, <2>3, <2>4, <3>1 DEF QuietInv
      <4>2. ceiling' = best
        BY <1>0, <4>1, PeakIsUnique
      <4>3. PICK q \in Provider : best = Score(q)
        BY <1>0, <4>1, PeakIsUnique
      <4>4. seen[q] = best
        BY <2>1, <3>1, <4>3 DEF QuietInv, Taken
      <4>5. /\ WithinTolerance(best, best, ChainTolerance)
            /\ WithinTolerance(best, best, tolerance)
        BY <1>0, BestFits, SelectionAssumption
      <4> QED
        BY <2>4, <3>1, <4>2, <4>4, <4>5 DEF Filtered
    <3>2. \A q \in Provider : ~ Taken(q)'
      BY <2>4 DEF Taken
    <3> QED
      BY <2>1, <2>4, <3>1, <3>2 DEF QuietInv, AnswersWhenQuiet, Passes
  <2>5. CASE phase' = "ceiling" /\ unread' = unread \ {p}
    <3>1. Peak(ceiling', unread \ {p}) => Peak(ceiling, unread)'
      BY <2>2, <2>5 DEF Peak
    <3>2. ~ disturbed => Peak(best, {})'
      BY <2>1, <2>2 DEF QuietInv, Peak
    <3>3. ~ disturbed => \A q \in Provider : seen'[q] = Score(q)'
      BY <2>1, <2>2 DEF QuietInv, Taken
    <3> QED
      BY <2>1, <2>3, <2>5, <3>1, <3>2, <3>3
         DEF QuietInv, AnswersWhenQuiet, Passes
  <2> QED
    BY <1>4, <2>1, <2>4, <2>5 DEF ReadForCeiling, EndsPass
<1>5. CASE Return
  BY <1>5 DEF Return, QuietInv, AnswersWhenQuiet, Passes, Taken
<1>6. ASSUME NEW p \in Provider, Disturb(p)
      PROVE  QuietInv'
  <2>1. UNCHANGED selection /\ disturbed' = (phase \in Passes \/ disturbed)
    BY <1>6 DEF Disturb
  <2> QED
    BY <2>1 DEF selection, QuietInv, AnswersWhenQuiet, Passes, Taken
<1>7. CASE UNCHANGED vars
  BY <1>7 DEF vars, selection, QuietInv, AnswersWhenQuiet, Passes, Taken,
              Peak, Score
<1> QED
  BY <1>1, <1>2, <1>3, <1>4, <1>5, <1>6, <1>7 DEF Next, Read

\* A call of select with nothing excluded finds a provider, unless a probe
\* result arrives between its passes.
THEOREM QuietCallsAnswer == Spec => []AnswersWhenQuiet
<1>1. Init => QuietInv
  BY QuietInit
<1>2. TypeOK /\ QuietInv /\ [Next]_vars => QuietInv'
  BY QuietStep
<1>3. QuietInv => AnswersWhenQuiet
  BY DEF QuietInv
<1> QED
  BY <1>1, <1>2, <1>3, SelectionTypeCorrect, PTL DEF Spec
=============================================================================
