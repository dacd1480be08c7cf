---------------------------- MODULE PolicyProofs ----------------------------
(***************************************************************************)
(* The policy a request runs with, for every methods section there can be: *)
(* any number of settings, groups, overrides and patterns.                 *)
(***************************************************************************)
EXTENDS MethodPolicies, FiniteSetTheorems, TLAPS

-----------------------------------------------------------------------------
(* The last override that matches.                                         *)

\* A finite set of integers that is not empty has a greatest member.
LEMMA Greatest ==
  ASSUME NEW S, S \subseteq Int, IsFiniteSet(S), S # {}
  PROVE  \E i \in S : \A j \in S : j <= i
<1> DEFINE Above(i) == {j \in S : i < j}
           T == {Above(i) : i \in S}
<1>1. T \subseteq FiniteSubsetsOf(S) /\ T # {}
  <2>1. T \subseteq SUBSET S /\ T # {}
    OBVIOUS
  <2> QED
    BY <2>1, FS_FiniteSubsetsOfFinite
<1>2. IsWellFoundedOn(StrictSubsetOrdering(S), FiniteSubsetsOf(S))
  BY FS_StrictSubsetOrderingWellFounded
<1>3. PICK U \in T : \A V \in T : <<V, U>> \notin StrictSubsetOrdering(S)
  <2> HIDE DEF T
  <2> QED
    BY <1>1, <1>2, WFMin
<1>4. PICK i \in S : U = Above(i)
  OBVIOUS
<1>5. ASSUME NEW j \in S, i < j
      PROVE  FALSE
  <2>1. \A k \in S : j < k => i < k
    BY <1>5
  <2>2. ~ (j < j)
    BY <1>5
  <2>3. Above(j) \subseteq U /\ j \in U /\ j \notin Above(j)
    BY <1>4, <1>5, <2>1, <2>2
  <2>4. Above(j) \in SUBSET S /\ U \in SUBSET S
    BY <1>4
  <2>5. <<Above(j), U>> \in StrictSubsetOrdering(S)
    BY <2>3, <2>4 DEF StrictSubsetOrdering
  <2> QED
    BY <1>3, <2>5
<1>6. \A j \in S : j <= i
  BY <1>5
<1> QED
  BY <1>6

\* OverrideSet::matches finds a matching override if there is one, and none
\* that matches comes after it.
LEMMA ChosenIsLast ==
  ASSUME config \in Configs, NEW m, Matching(m) # {}
  PROVE  /\ Chosen(Matching(m)) \in Matching(m)
         /\ \A i \in Matching(m) : i <= Chosen(Matching(m))
<1>1. Matching(m) \subseteq 1 .. Len(config.overrides)
  BY PolicyAssumption DEF Matching
<1>2. Len(config.overrides) \in Nat
  BY PolicyAssumption
<1>3. IsFiniteSet(Matching(m))
  <2>1. IsFiniteSet(1 .. Len(config.overrides))
    BY <1>2, FS_Interval
  <2> QED
    BY <1>1, <2>1, FS_Subset
<1>4. Matching(m) \subseteq Int
  BY <1>1
<1>5. \E i \in Matching(m) : \A j \in Matching(m) : j <= i
  BY <1>3, <1>4, Greatest
<1> QED
  BY <1>5 DEF Chosen

-----------------------------------------------------------------------------
(* What is true whenever a request is answered.                            *)

Accepted == (\A layer \in Layers : LayerValid(layer)) /\ GroupsExist

\* Only an accepted section is served, the policy at hand is the one of the
\* method at hand, and a panic is over this policy's backoff.
Served ==
  /\ config \in Configs
  /\ phase \in {"loading", "rejected", "serving", "panicked"}
  /\ phase \in {"serving", "panicked"} => Accepted
  /\ phase \in {"loading", "rejected"} => policy = Unset
  /\ policy # Unset => policy = Resolve(method)
  /\ phase = "panicked" => policy = Resolve(method) /\ Refused(policy.backoff)

\* Nothing is served before the section is loaded.
LEMMA ServedInit == Init => Served
BY DEF Init, Served

\* A request only sees what Load accepted.
LEMMA ServedStep ==
  ASSUME Served, [Next]_vars
  PROVE  Served'
<1> USE DEF Served
<1>1. CASE Load
  BY <1>1 DEF Load, Accepted, GroupsExist, Layers
<1>2. ASSUME NEW m \in Method, Request(m)
      PROVE  Served'
  <2>1. config' = config /\ Accepted' /\ phase = "serving"
    BY <1>2 DEF Request, Accepted, GroupsExist, Layers
  <2>2. policy' = Resolve(m) /\ method' = m
    BY <1>2 DEF Request
  <2>3. Resolve(m)' = Resolve(m)
    BY <2>1 DEF Resolve, Matching, Defaults, OverridePolicy, GroupPolicy
  <2>4. policy' = Resolve(method)'
    BY <2>1, <2>2
       DEF Resolve, Matching, Defaults, OverridePolicy, GroupPolicy
  <2> QED
    BY <1>2, <2>1, <2>4 DEF Request
<1>3. CASE NextRequest
  BY <1>3 DEF NextRequest, Accepted, GroupsExist, Layers
<1>4. CASE UNCHANGED vars
  BY <1>4 DEF vars, Accepted, GroupsExist, Layers, Refused,
              Resolve, Matching, Defaults, OverridePolicy, GroupPolicy
<1> QED
  BY <1>1, <1>2, <1>3, <1>4 DEF Next

\* Served holds in every reachable state.
LEMMA AlwaysServed == Spec => []Served
<1> QED
  BY ServedInit, ServedStep, PTL DEF Spec

-----------------------------------------------------------------------------
(* Validation reaches every policy.                                        *)

NonZeroHold(p) == \A s \in NonZero : p.settings[s] # 0

\* A valid layer over a policy without zeros has none.
LEMMA OverKeepsNonZero ==
  ASSUME NEW layer, NEW base, LayerValid(layer), NonZeroHold(base)
  PROVE  NonZeroHold(Over(layer, base))
BY PolicyAssumption DEF Over, Or, NonZeroHold, LayerValid

\* No policy that is put together from accepted layers holds a zero.
LEMMA ResolveKeepsNonZero ==
  ASSUME config \in Configs, Accepted, NEW m
  PROVE  NonZeroHold(Resolve(m))
<1>1. NonZeroHold(Defaults)
  <2>1. NonZeroHold([settings |-> BuiltIn, backoff |-> Unset])
    BY PolicyAssumption DEF NonZeroHold
  <2>2. LayerValid(config.defaults)
    BY DEF Accepted, Layers, LayersOf
  <2> QED
    BY <2>1, <2>2, OverKeepsNonZero DEF Defaults
<1>2. ASSUME NEW g \in DOMAIN config.groups
      PROVE  NonZeroHold(GroupPolicy(g))
  <2>1. LayerValid(config.groups[g])
    BY DEF Accepted, Layers, LayersOf
  <2> QED
    BY <1>1, <2>1, OverKeepsNonZero DEF GroupPolicy
<1>3. ASSUME NEW i \in DOMAIN config.overrides
      PROVE  NonZeroHold(OverridePolicy(i))
  <2>1. LayerValid(config.overrides[i])
    BY DEF Accepted, Layers, LayersOf
  <2> QED
    BY <1>1, <1>2, <2>1, OverKeepsNonZero DEF OverridePolicy
<1>4. Matching(m) # {} => Chosen(Matching(m)) \in DOMAIN config.overrides
  BY ChosenIsLast DEF Matching
<1> QED
  BY <1>1, <1>3, <1>4 DEF Resolve

\* No policy holds a zero that validation refuses, whichever layers it was put
\* together from.
THEOREM ServedPoliciesAreUsable == Spec => []PoliciesUsable
<1>1. Served => PoliciesUsable
  BY ResolveKeepsNonZero DEF Served, PoliciesUsable, Answered, NonZeroHold
<1> QED
  BY <1>1, AlwaysServed, PTL

-----------------------------------------------------------------------------
(* Precedence.                                                             *)

\* A request's settings are its nearest layer's that sets them: the last
\* override that matches, then its group, then the defaults.
THEOREM NearestLayerWins == Spec => []NearestLayerDecides
<1>1. ASSUME Served, Answered
      PROVE  NearestLayerDecides
  <2>1. config \in Configs /\ GroupsExist /\ policy = Resolve(method)
    BY <1>1 DEF Served, Answered, Accepted
  <2>2. \A i \in Matching(method) : i <= Chosen(Matching(method))
    BY <2>1, ChosenIsLast
  <2>3. ASSUME NEW s \in Setting
        PROVE  LET layers == Nearest(method)
                   set == {k \in DOMAIN layers : layers[k].settings[s] # Unset}
               IN IF set = {} THEN policy.settings[s] = BuiltIn[s]
                  ELSE \E k \in set :
                         /\ \A l \in set : k <= l
                         /\ policy.settings[s] = layers[k].settings[s]
    <3> DEFINE d == config.defaults
               i == Chosen(Matching(method))
               o == config.overrides[i]
               g == config.groups[o.group]
    <3>1. Defaults.settings[s] =
            IF d.settings[s] = Unset THEN BuiltIn[s] ELSE d.settings[s]
      BY DEF Defaults, Over, Or
    <3>2. CASE Matching(method) = {}
      <4>1. policy.settings[s] = Defaults.settings[s]
        BY <2>1, <3>2 DEF Resolve
      <4>2. Nearest(method) = <<d>>
        BY <3>2 DEF Nearest
      <4> HIDE DEF d
      <4> QED
        BY <3>1, <4>1, <4>2
    <3>3. CASE Matching(method) # {} /\ o.group = Unset
      <4>1. policy.settings[s] =
              IF o.settings[s] = Unset THEN Defaults.settings[s]
                                       ELSE o.settings[s]
        BY <2>1, <3>3, PolicyAssumption DEF Resolve, OverridePolicy, Over, Or
      <4>2. Nearest(method) = <<o, d>>
        BY <3>3 DEF Nearest
      <4> HIDE DEF d, o
      <4> QED
        BY <3>1, <4>1, <4>2
    <3>4. CASE Matching(method) # {} /\ o.group # Unset
      <4>1. o.group \in DOMAIN config.groups
        BY <2>1, <3>4, ChosenIsLast DEF GroupsExist, Matching
      <4>2. GroupPolicy(o.group).settings[s] =
              IF g.settings[s] = Unset THEN Defaults.settings[s]
                                       ELSE g.settings[s]
        BY DEF GroupPolicy, Over, Or
      <4>3. policy.settings[s] =
              IF o.settings[s] = Unset THEN GroupPolicy(o.group).settings[s]
                                       ELSE o.settings[s]
        BY <2>1, <3>4, <4>1 DEF Resolve, OverridePolicy, Over, Or
      <4>4. Nearest(method) = <<o, g, d>>
        BY <3>4 DEF Nearest
      <4> HIDE DEF d, o, g
      <4> QED
        BY <3>1, <4>2, <4>3, <4>4
    <3> QED
      BY <3>2, <3>3, <3>4
  <2> QED
    BY <2>2, <2>3 DEF NearestLayerDecides
<1>2. Served => NearestLayerDecides
  BY <1>1 DEF NearestLayerDecides
<1> QED
  BY <1>2, AlwaysServed, PTL

-----------------------------------------------------------------------------
(* Backoffs.                                                               *)

Whole(b) == b # Unset => /\ b.min \in Nat /\ b.max \in Nat
                         /\ b.min <= b.max

\* A backoff whose layers set both ends takes no end from a base.
LEMMA OverKeepsWhole ==
  ASSUME NEW b, NEW base, Whole(b), Whole(base)
  PROVE  Whole(OverBackoff(b, base))
<1>1. CASE b = Unset
  BY <1>1 DEF OverBackoff
<1>2. CASE b # Unset
  <2>1. b.min \in Nat /\ b.max \in Nat /\ b.min <= b.max
    BY <1>2 DEF Whole
  <2>2. b.min # Unset /\ b.max # Unset
    BY <2>1, PolicyAssumption
  <2>3. OverBackoff(b, base).min = b.min /\ OverBackoff(b, base).max = b.max
    BY <1>2, <2>2 DEF OverBackoff, Or
  <2> QED
    BY <2>1, <2>3 DEF Whole
<1> QED
  BY <1>1, <1>2

\* What validate_backoff says of the layers then holds of the policies.
LEMMA ResolveKeepsWhole ==
  ASSUME config \in Configs, Accepted, WholeBackoffs, NEW m
  PROVE  Whole(Resolve(m).backoff)
<1>1. ASSUME NEW layer \in Layers
      PROVE  Whole(layer.backoff)
  <2>1. layer \in LayersOf(config)
    BY DEF Layers
  <2>2. CASE layer.backoff # Unset
    <3>1. Unset \notin {layer.backoff.min, layer.backoff.max}
      BY <2>2 DEF WholeBackoffs
    <3>2. layer.backoff.min \in Nat /\ layer.backoff.max \in Nat
      BY <2>1, <2>2, <3>1, PolicyAssumption
    <3>3. layer.backoff.max >= layer.backoff.min
      BY <2>2, <3>1 DEF Accepted, LayerValid, BackoffValid
    <3> QED
      BY <3>2, <3>3 DEF Whole
  <2> QED
    BY <2>2 DEF Whole
<1>2. \A layer, base : Over(layer, base).backoff
                         = OverBackoff(layer.backoff, base.backoff)
  BY DEF Over
<1>3. Whole(Defaults.backoff)
  <2>1. Whole(Unset)
    BY DEF Whole
  <2> QED
    BY <1>1, <1>2, <2>1, OverKeepsWhole DEF Defaults, Layers, LayersOf
<1>4. ASSUME NEW g \in DOMAIN config.groups
      PROVE  Whole(GroupPolicy(g).backoff)
  BY <1>1, <1>2, <1>3, OverKeepsWhole DEF GroupPolicy, Layers, LayersOf
<1>5. ASSUME NEW i \in DOMAIN config.overrides
      PROVE  Whole(OverridePolicy(i).backoff)
  BY <1>1, <1>2, <1>3, <1>4, OverKeepsWhole
     DEF OverridePolicy, Layers, LayersOf
<1>6. Matching(m) # {} => Chosen(Matching(m)) \in DOMAIN config.overrides
  BY ChosenIsLast DEF Matching
<1> QED
  BY <1>3, <1>5, <1>6 DEF Resolve

\* Where every layer with a backoff sets both of its ends, an accepted section
\* makes no request panic.
THEOREM WholeBackoffsNeverPanic == Spec => []WholeBackoffsBuild
<1>1. ASSUME Served, WholeBackoffs
      PROVE  phase # "panicked"
  <2>1. SUFFICES ASSUME phase = "panicked" PROVE FALSE
    OBVIOUS
  <2>2. Refused(Resolve(method).backoff)
    BY <1>1, <2>1 DEF Served
  <2>3. Whole(Resolve(method).backoff)
    BY <1>1, <2>1, ResolveKeepsWhole DEF Served
  <2> QED
    BY <2>2, <2>3 DEF Refused, Whole
<1>2. Served => WholeBackoffsBuild
  BY <1>1 DEF WholeBackoffsBuild
<1> QED
  BY <1>2, AlwaysServed, PTL
=============================================================================
