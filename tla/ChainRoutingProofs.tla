------------------------- MODULE ChainRoutingProofs -------------------------
(***************************************************************************)
(* What validate_chains makes sure of, what ProxyState::new builds from it *)
(* and where a request ends up, for every configuration, every spelling,   *)
(* every query and every order of the two walks.                           *)
(***************************************************************************)
EXTENDS Frontend, FiniteSetTheorems, TLAPS

\* The chains entered so far have no folded name in common, and none of their
\* names is blank.
Apart ==
  LET entered == IF phase = "validating" THEN Keys \ todo ELSE Keys IN
  phase # "rejected" =>
    /\ \A k \in entered : Blank \notin Reserved(k)
    /\ \A k, l \in entered : k # l => Reserved(k) \cap Reserved(l) = {}
    /\ phase = "validating" => \A k \in entered : Reserved(k) \subseteq used

\* Each chain built is in the map under all its names.
Entered(k) ==
  /\ k \in DOMAIN pools
  /\ \A n \in Names(k) :
       /\ Fold[Decode[n]] \in DOMAIN aliasMap
       /\ DecodingNeutral => aliasMap[Fold[Decode[n]]] = k

Mapped ==
  phase \in {"building", "serving"} =>
    \A k \in Keys : (phase = "building" /\ k \in todo) \/ Entered(k)

RouteInv == config \in Configs /\ todo \subseteq Keys /\ Apart /\ Mapped

\* The names of a chain are spellings, and folding keeps them so.
LEMMA NamesAreSpellings ==
  ASSUME config \in Configs, NEW k \in Keys
  PROVE  /\ Names(k) \subseteq Spelling
         /\ Reserved(k) \subseteq Spelling
         /\ \A i \in DOMAIN Aliases(k) : Aliases(k)[i] \in Spelling
<1>1. k \in Spelling /\ Aliases(k) \in Seq(Spelling)
  BY RoutingAssumption DEF Keys, Aliases
<1>2. \A i \in DOMAIN Aliases(k) : Aliases(k)[i] \in Spelling
  BY <1>1
<1>3. Names(k) \subseteq Spelling
  BY <1>1, <1>2 DEF Names, Range
<1> QED
  BY <1>2, <1>3, RoutingAssumption DEF Reserved

\* A chain that passes adds names that are not blank and not used before.
LEMMA ValidNamesAreFresh ==
  ASSUME NEW k \in Keys, NamesValid(k)
  PROVE  Blank \notin Reserved(k) /\ Reserved(k) \cap used = {}
BY DEF NamesValid, Reserved, Names, Range

\* The invariant holds before the first chain is looked at.
LEMMA RouteInit == Init => RouteInv
BY DEF Init, RouteInv, Apart, Mapped

\* Every step of the two walks keeps it.
LEMMA RouteStep ==
  RouteInv /\ [Next]_vars => RouteInv'
<1> SUFFICES ASSUME RouteInv, [Next]_vars
             PROVE  RouteInv'
  OBVIOUS
<1> USE DEF RouteInv
<1>1. CASE Reject
  BY <1>1 DEF Reject, Apart, Mapped, Keys
<1>2. CASE Accept
  BY <1>2 DEF Accept, Apart, Mapped, Keys, Reserved, Names, Aliases
<1>3. CASE BuildLegacy
  BY <1>3 DEF BuildLegacy, Apart, Mapped, Keys
<1>4. CASE Serve
  BY <1>4 DEF Serve, Apart, Mapped, Keys, Reserved, Names, Aliases, Entered,
    DecodingNeutral
<1>5. ASSUME NEW k \in Keys, ValidateChain(k)
      PROVE  RouteInv'
  <2>1. /\ phase = "validating" /\ phase' = phase /\ config' = config
        /\ todo' = todo \ {k} /\ used' = used \cup Reserved(k)
        /\ k \in todo
    BY <1>5 DEF ValidateChain
  <2>2. Blank \notin Reserved(k) /\ Reserved(k) \cap used = {}
    BY <1>5, ValidNamesAreFresh DEF ValidateChain
  <2>3. \A l \in Keys : Reserved(l)' = Reserved(l)
    BY <2>1 DEF Reserved, Names, Aliases
  <2>4. Keys' = Keys
    BY <2>1 DEF Keys
  <2>5. Apart'
    BY <2>1, <2>2, <2>3, <2>4 DEF Apart
  <2>6. Mapped'
    BY <2>1 DEF Mapped
  <2> QED
    BY <2>1, <2>4, <2>5, <2>6
<1>6. ASSUME NEW k \in Keys, BuildChain(k)
      PROVE  RouteInv'
  <2>1. /\ phase = "building" /\ phase' = phase /\ config' = config
        /\ todo' = todo \ {k}
        /\ DOMAIN pools' = DOMAIN pools \cup {k}
        /\ DOMAIN aliasMap' = DOMAIN aliasMap \cup Registered(k)
        /\ \A n \in DOMAIN aliasMap' :
             aliasMap'[n] = IF n \in Registered(k) THEN k ELSE aliasMap[n]
    BY <1>6 DEF BuildChain
  <2>2. Keys' = Keys /\ DecodingNeutral' = DecodingNeutral
    BY <2>1 DEF Keys, DecodingNeutral, Names, Aliases
  <2>3. \A l \in Keys : Names(l)' = Names(l) /\ Reserved(l)' = Reserved(l)
    BY <2>1 DEF Reserved, Names, Aliases
  <2>4. Apart'
    BY <2>1, <2>2, <2>3 DEF Apart
  <2>5. ASSUME NEW l \in Keys, l \notin todo'
        PROVE  Entered(l)'
    <3>1. CASE l = k
      BY <2>1, <2>2, <2>3, <3>1 DEF Entered, Registered
    <3>2. CASE l # k
      <4>1. Entered(l)
        BY <2>1, <2>5, <3>2 DEF Mapped
      <4>2. DecodingNeutral =>
              \A n \in Names(l) : Fold[Decode[n]] \notin Registered(k)
        <5> SUFFICES ASSUME DecodingNeutral, NEW n \in Names(l),
                            NEW m \in Names(k), Fold[Decode[n]] = Fold[Decode[m]]
                     PROVE  FALSE
          BY DEF Registered
        <5>1. Fold[n] = Fold[m]
          BY DEF DecodingNeutral
        <5>2. Fold[n] \in Reserved(l) /\ Fold[n] \in Reserved(k)
          BY <5>1 DEF Reserved
        <5> QED
          BY <2>1, <3>2, <5>2 DEF Apart
      <4> QED
        BY <2>1, <2>2, <2>3, <4>1, <4>2 DEF Entered
    <3> QED
      BY <3>1, <3>2
  <2>6. Mapped'
    BY <2>1, <2>2, <2>5 DEF Mapped
  <2> QED
    BY <2>1, <2>2, <2>4, <2>6
<1>7. CASE UNCHANGED vars
  BY <1>7 DEF vars, Apart, Mapped, Keys, Reserved, Names, Aliases, Entered,
    DecodingNeutral
<1> QED
  BY <1>1, <1>2, <1>3, <1>4, <1>5, <1>6, <1>7 DEF Next

\* A name that decoding leaves alone resolves to its chain.
LEMMA NamesResolve ==
  ASSUME RouteInv, phase = "serving", DecodingNeutral,
         NEW k \in Keys, NEW n \in Names(k)
  PROVE  Resolve(n) = k
<1>1. n \in Spelling
  BY NamesAreSpellings DEF RouteInv
<1>2. n \notin {NoName, Blank}
  <2>1. Fold[n] # Blank
    BY DEF RouteInv, Apart, Reserved
  <2> QED
    BY <1>1, <2>1, RoutingAssumption
<1>3. Entered(k)
  BY DEF RouteInv, Mapped
<1> QED
  BY <1>2, <1>3 DEF Resolve, Entered

\* Once the proxy serves, every key and alias of the configuration leads to
\* the chain it was written for, provided decoding changes none of them.
THEOREM NamesAreRouted == Spec => []NamesRouteToOwner
<1>1. RouteInv => NamesRouteToOwner
  BY NamesResolve DEF NamesRouteToOwner
<1>2. Spec => []RouteInv
  BY RouteInit, RouteStep, PTL DEF Spec
<1> QED
  BY <1>1, <1>2, PTL

-----------------------------------------------------------------------------
(* The verdict.                                                            *)

\* The folded names of a chain, by their place: its key, then its aliases.
FoldedName(k) ==
  [i \in 0 .. Len(Aliases(k)) |->
     IF i = 0 THEN Fold[k] ELSE Fold[Aliases(k)[i]]]

Distinct(k) ==
  /\ \A i \in DOMAIN Aliases(k) : Fold[Aliases(k)[i]] # Fold[k]
  /\ \A i, j \in DOMAIN Aliases(k) :
       Fold[Aliases(k)[i]] = Fold[Aliases(k)[j]] => i = j

\* A chain enters as many names as it writes if and only if no two of them
\* fold to the same one.
LEMMA CountOfNames ==
  ASSUME config \in Configs, NEW k \in Keys
  PROVE  Cardinality(Reserved(k)) = 1 + Len(Aliases(k)) <=> Distinct(k)
<1> DEFINE n == Len(Aliases(k))
           f == FoldedName(k)
<1>1. Aliases(k) \in Seq(Spelling) /\ n \in Nat /\ DOMAIN Aliases(k) = 1 .. n
  BY RoutingAssumption DEF Keys, Aliases
<1>2. IsFiniteSet(0 .. n) /\ Cardinality(0 .. n) = n + 1
  BY <1>1, FS_Interval
<1>3. /\ \A i \in 0 .. n : f[i] \in Reserved(k)
      /\ \A s \in Reserved(k) : \E i \in 0 .. n : f[i] = s
  <2>1. 0 \in 0 .. n /\ f[0] = Fold[k]
    BY <1>1 DEF FoldedName
  <2>2. \A i \in 1 .. n : i \in 0 .. n /\ f[i] = Fold[Aliases(k)[i]]
    BY <1>1 DEF FoldedName
  <2>3. Reserved(k) = {Fold[k]} \cup {Fold[Aliases(k)[i]] : i \in 1 .. n}
    BY <1>1 DEF Reserved, Names, Range
  <2>4. \A i \in 0 .. n : i = 0 \/ i \in 1 .. n
    BY <1>1
  <2> HIDE DEF f
  <2> QED
    BY <2>1, <2>2, <2>3, <2>4
<1>4. f \in Surjection(0 .. n, Reserved(k))
  BY <1>3 DEF Surjection, FoldedName
<1>5. Cardinality(Reserved(k)) = n + 1 <=> f \in Injection(0 .. n, Reserved(k))
  <2> HIDE DEF f
  <2> QED
    BY <1>2, <1>4, FS_Surjection
<1>6. f \in Injection(0 .. n, Reserved(k)) <=>
        \A i, j \in 0 .. n : f[i] = f[j] => i = j
  BY <1>3 DEF Injection, IsInjective, FoldedName
<1>7. (\A i, j \in 0 .. n : f[i] = f[j] => i = j) <=> Distinct(k)
  BY <1>1 DEF Distinct, FoldedName
<1>8. n + 1 = 1 + n
  BY <1>1
<1> QED
  BY <1>5, <1>6, <1>7, <1>8

\* What the validator has established of the section so far, and of what.
Walked ==
  /\ phase \in {"validating", "rejected", "building", "serving"}
  /\ phase = "rejected" => ~ Sound
  /\ phase \in {"building", "serving"} => Sound
  /\ phase = "validating" =>
       /\ \A name \in used : \E l \in Keys \ todo : name \in Reserved(l)
       /\ \A k \in Keys \ todo :
            /\ ProvidersValid(k)
            /\ Cardinality(Reserved(k)) = 1 + Len(Aliases(k))

\* All of it is said of the section alone, which no step changes.
LEMMA SectionOnly ==
  ASSUME config' = config
  PROVE  /\ Sound' = Sound /\ Keys' = Keys
         /\ \A k \in Keys : /\ Reserved(k)' = Reserved(k)
                            /\ Names(k)' = Names(k)
                            /\ Registered(k)' = Registered(k)
                            /\ Aliases(k)' = Aliases(k)
                            /\ ProvidersValid(k)' = ProvidersValid(k)
BY DEF Sound, DefaultValid, ProvidersValid, Reserved, Registered, Names,
       Aliases, Keys

\* A chain that is refused is refused for something Sound forbids.
LEMMA RefusalIsJust ==
  ASSUME RouteInv, Walked, phase = "validating", NEW k \in todo,
         ~ (ProvidersValid(k) /\ NamesValid(k))
  PROVE  ~ Sound
<1>1. config \in Configs /\ k \in Keys
  BY DEF RouteInv
<1>2. CASE ~ ProvidersValid(k)
  BY <1>1, <1>2 DEF Sound
<1>3. ASSUME NEW n \in Names(k), Fold[n] = Blank
      PROVE  ~ Sound
  BY <1>1, <1>3 DEF Sound, Reserved
<1>4. ASSUME NEW n \in Names(k), Fold[n] \in used
      PROVE  ~ Sound
  <2>1. PICK l \in Keys \ todo : Fold[n] \in Reserved(l)
    BY <1>4 DEF Walked
  <2>2. l # k /\ Fold[n] \in Reserved(k)
    BY <2>1 DEF Reserved
  <2> QED
    BY <1>1, <2>1, <2>2 DEF Sound
<1>5. CASE ~ Distinct(k)
  BY <1>1, <1>5, CountOfNames DEF Sound
<1>6. k \in Names(k) /\ \A i \in DOMAIN Aliases(k) : Aliases(k)[i] \in Names(k)
  BY DEF Names, Range
<1> QED
  BY <1>2, <1>3, <1>4, <1>5, <1>6 DEF NamesValid, Distinct

\* The invariant of the verdict is established by the steps of the validator.
LEMMA WalkedStep ==
  ASSUME RouteInv, Walked, [Next]_vars
  PROVE  Walked'
<1> USE DEF Walked
<1>1. config' = config
  BY DEF Next, Reject, Accept, BuildLegacy, Serve, ValidateChain, BuildChain,
         vars
<1>2. /\ Sound' = Sound /\ Keys' = Keys
      /\ \A k \in Keys : /\ Reserved(k)' = Reserved(k)
                         /\ Aliases(k)' = Aliases(k)
                         /\ ProvidersValid(k)' = ProvidersValid(k)
  BY <1>1, SectionOnly
<1>3. CASE Reject
  <2>1. ~ Sound
    BY <1>3, RefusalIsJust DEF Reject, Sound
  <2> QED
    BY <1>2, <1>3, <2>1 DEF Reject
<1>4. CASE Accept
  <2>1. Sound
    BY <1>4 DEF Accept, Sound, RouteInv, Apart
  <2> QED
    BY <1>2, <1>4, <2>1 DEF Accept
<1>5. ASSUME NEW k \in Keys, ValidateChain(k)
      PROVE  Walked'
  <2>1. Cardinality(Reserved(k)) = 1 + Len(Aliases(k)) /\ ProvidersValid(k)
    BY <1>5, CountOfNames DEF ValidateChain, NamesValid, Distinct, RouteInv
  <2>2. /\ phase = "validating" /\ phase' = phase /\ k \in todo
        /\ todo' = todo \ {k} /\ used' = used \cup Reserved(k)
    BY <1>5 DEF ValidateChain
  <2> QED
    BY <1>2, <2>1, <2>2
<1>6. CASE BuildLegacy \/ Serve
  BY <1>2, <1>6 DEF BuildLegacy, Serve
<1>7. ASSUME NEW k \in Keys, BuildChain(k)
      PROVE  Walked'
  BY <1>2, <1>7 DEF BuildChain
<1>8. CASE UNCHANGED vars
  BY <1>2, <1>8 DEF vars
<1> QED
  BY <1>3, <1>4, <1>5, <1>6, <1>7, <1>8 DEF Next

\* In whatever order the chains are walked, the validator rejects exactly the
\* sections in which a chain, or two of them, cannot stand.
THEOREM VerdictIsOrderFree == Spec => []VerdictIsSound
<1>1. Init => RouteInv /\ Walked
  BY RouteInit DEF Init, Walked
<1>2. RouteInv /\ Walked /\ [Next]_vars => RouteInv' /\ Walked'
  BY RouteStep, WalkedStep
<1>3. Walked => VerdictIsSound
  BY DEF Walked, VerdictIsSound
<1> QED
  BY <1>1, <1>2, <1>3, PTL DEF Spec

-----------------------------------------------------------------------------
(* What is served.                                                         *)

\* The state as far as it is built: a pool that is not empty for each chain
\* reached, the names they were given, and then a default that is there.
Built ==
  /\ phase \in {"validating", "rejected"} =>
       DOMAIN pools = {} /\ DOMAIN aliasMap = {}
  /\ phase = "building" => DOMAIN pools = Keys \ todo
  /\ phase = "serving" =>
       IF Keys = {} THEN DOMAIN pools = {Legacy} /\ defaultChain = Legacy
       ELSE /\ DOMAIN pools = Keys
            /\ defaultChain = config.default /\ config.default \in Keys
  /\ \A c \in DOMAIN pools : pools[c] # {}
  /\ \A n \in DOMAIN aliasMap :
       aliasMap[n] \in Keys /\ n \in Registered(aliasMap[n])

\* Nothing is built initially.
LEMMA BuiltInit == Init => Built
BY DEF Init, Built

\* ProxyState::new builds the state the invariant describes.
LEMMA BuiltStep ==
  ASSUME RouteInv, Walked, Built, [Next]_vars
  PROVE  Built'
<1> USE DEF Built
<1>1. config' = config
  BY DEF Next, Reject, Accept, BuildLegacy, Serve, ValidateChain, BuildChain,
         vars
<1>2. /\ Keys' = Keys
      /\ \A k \in Keys : Registered(k)' = Registered(k)
  BY <1>1, SectionOnly
<1>3. CASE Reject
  BY <1>1, <1>2, <1>3 DEF Reject
<1>4. CASE Accept
  BY <1>1, <1>2, <1>4 DEF Accept
<1>5. ASSUME NEW k \in Keys, ValidateChain(k)
      PROVE  Built'
  BY <1>1, <1>2, <1>5 DEF ValidateChain
<1>6. CASE BuildLegacy
  <2>1. DOMAIN pools' = {Legacy} /\ pools'[Legacy] # {}
    BY <1>6, RoutingAssumption DEF BuildLegacy
  <2> QED
    BY <1>1, <1>2, <1>6, <2>1 DEF BuildLegacy
<1>7. CASE Serve
  <2>1. config.default \in Keys
    BY <1>7 DEF Serve, Walked, Sound, DefaultValid
  <2> QED
    BY <1>1, <1>2, <1>7, <2>1 DEF Serve
<1>8. ASSUME NEW k \in Keys, BuildChain(k)
      PROVE  Built'
  <2>1. /\ phase = "building" /\ phase' = phase
        /\ k \in todo /\ todo' = todo \ {k}
        /\ DOMAIN pools' = DOMAIN pools \cup {k}
        /\ \A c \in DOMAIN pools' : pools'[c] =
             IF c = k THEN config.chains[k].providers \cap Providers
                      ELSE pools[c]
        /\ DOMAIN aliasMap' = DOMAIN aliasMap \cup Registered(k)
        /\ \A n \in DOMAIN aliasMap' :
             aliasMap'[n] = IF n \in Registered(k) THEN k ELSE aliasMap[n]
    BY <1>8 DEF BuildChain
  <2>2. config.chains[k].providers \cap Providers # {}
    BY <2>1 DEF Walked, Sound, ProvidersValid
  <2>3. DOMAIN pools' = Keys \ todo'
    BY <2>1 DEF RouteInv
  <2>4. \A c \in DOMAIN pools' : pools'[c] # {}
    BY <2>1, <2>2
  <2>5. \A n \in DOMAIN aliasMap' :
          aliasMap'[n] \in Keys /\ n \in Registered(aliasMap'[n])
    BY <2>1
  <2> QED
    BY <1>1, <1>2, <2>1, <2>3, <2>4, <2>5
<1>9. CASE UNCHANGED vars
  BY <1>1, <1>2, <1>9 DEF vars
<1> QED
  BY <1>3, <1>4, <1>5, <1>6, <1>7, <1>8, <1>9 DEF Next

\* What the rest of the project may rely on once the proxy serves.
LEMMA StateIsBuilt == Spec => [](RouteInv /\ Walked /\ Built)
<1>1. Init => RouteInv /\ Walked /\ Built
  BY RouteInit, BuiltInit DEF Init, Walked
<1>2. RouteInv /\ Walked /\ Built /\ [Next]_vars
        => RouteInv' /\ Walked' /\ Built'
  BY RouteStep, WalkedStep, BuiltStep
<1> QED
  BY <1>1, <1>2, PTL DEF Spec

\* A proxy that serves has a default chain, and every chain of it has a
\* provider: the balancer's assumption that its pool is not empty is met.
THEOREM RootAlwaysServed == Spec => []RootIsServed
<1>1. Built => RootIsServed
  BY DEF Built, RootIsServed, Resolve
<1> QED
  BY <1>1, StateIsBuilt, PTL

-----------------------------------------------------------------------------
(* From a URL to a chain.                                                  *)

\* What is forwarded goes to the chain that was named or, if none was, to the
\* default one.
THEOREM NothingGoesAstray == Spec => []NothingStrays
<1>1. ASSUME RouteInv, Built, phase = "serving", NEW path \in Paths,
             ChainOf(path) # NoName
      PROVE  IF path = Root THEN ChainOf(path) = defaultChain
             ELSE /\ ChainOf(path) \in Keys
                  /\ \E n \in Names(ChainOf(path)) :
                       Fold[Decode[n]] = Fold[Decode[Decode[path]]]
  <2>1. CASE path = Root
    BY <1>1, <2>1 DEF ChainOf, Resolve
  <2>2. CASE path # Root
    <3> DEFINE name == Fold[Decode[Decode[path]]]
    <3>1. path \in Spelling /\ path # Blank
      BY <2>2 DEF Paths
    <3>2. Decode[path] \in Spelling /\ Decode[path] \notin {NoName, Blank}
      BY <3>1, RoutingAssumption, FrontendAssumption
    <3>3. name \in DOMAIN aliasMap /\ ChainOf(path) = aliasMap[name]
      BY <1>1, <2>2, <3>2 DEF ChainOf, Resolve
    <3>4. ChainOf(path) \in Keys /\ name \in Registered(ChainOf(path))
      BY <1>1, <3>3 DEF Built
    <3> QED
      BY <2>2, <3>4 DEF Registered
  <2> QED
    BY <2>1, <2>2
<1>2. RouteInv /\ Built => NothingStrays
  BY <1>1 DEF NothingStrays
<1> QED
  BY <1>2, StateIsBuilt, PTL

\* A parameter at the end of a query replaces those of its name and leaves the
\* others as they were.
LEMMA LastParameterDecides ==
  ASSUME NEW query \in Seq(Parameter), NEW p \in Parameter, NEW name
  PROVE  Given(Append(query, p), name) =
           IF p.name = name THEN {p.value} ELSE Given(query, name)
<1> DEFINE q == Append(query, p)
           n == Len(query)
           Last(s, j) == /\ s[j].name = name
                         /\ \A k \in (j + 1) .. Len(s) : s[k].name # name
<1>1. /\ n \in Nat /\ DOMAIN query = 1 .. n
      /\ Len(q) = n + 1 /\ DOMAIN q = 1 .. (n + 1)
      /\ q[n + 1] = p /\ \A j \in 1 .. n : q[j] = query[j]
  OBVIOUS
<1> HIDE DEF q, n
<1>2. CASE p.name = name
  <2>1. \A j \in 1 .. n : ~ Last(q, j)
    <3> SUFFICES ASSUME NEW j \in 1 .. n
                 PROVE  \E k \in (j + 1) .. Len(q) : q[k].name = name
      OBVIOUS
    <3>1. n + 1 \in (j + 1) .. Len(q) /\ q[n + 1].name = name
      BY <1>1, <1>2
    <3> QED
      BY <3>1
  <2>2. Last(q, n + 1)
    BY <1>1, <1>2
  <2>3. \A j \in DOMAIN q : Last(q, j) <=> j = n + 1
    BY <1>1, <2>1, <2>2
  <2> HIDE DEF Last
  <2>4. {q[j].value : j \in {i \in DOMAIN q : Last(q, i)}} = {p.value}
    BY <1>1, <2>3
  <2> QED
    BY <1>2, <2>4 DEF Given, q, Last
<1>3. CASE p.name # name
  <2>1. \A j \in 1 .. n : Last(q, j) <=> Last(query, j)
    <3> SUFFICES ASSUME NEW j \in 1 .. n
                 PROVE  Last(q, j) <=> Last(query, j)
      OBVIOUS
    <3>1. \A k \in (j + 1) .. (n + 1) : k = n + 1 \/ k \in (j + 1) .. n
      BY <1>1
    <3>2. \A k \in (j + 1) .. n : k \in (j + 1) .. (n + 1) /\ k \in 1 .. n
      BY <1>1
    <3> QED
      BY <1>1, <1>3, <3>1, <3>2 DEF n
  <2>2. ~ Last(q, n + 1)
    BY <1>1, <1>3
  <2>3. \A j : j \in DOMAIN q /\ Last(q, j) <=> j \in DOMAIN query /\ Last(query, j)
    BY <1>1, <2>1, <2>2
  <2> HIDE DEF Last
  <2>4. {i \in DOMAIN q : Last(q, i)} = {i \in DOMAIN query : Last(query, i)}
    BY <2>3
  <2>5. {q[j].value : j \in {i \in DOMAIN q : Last(q, i)}}
          = {query[j].value : j \in {i \in DOMAIN query : Last(query, i)}}
    BY <1>1, <2>4
  <2> QED
    BY <1>3, <2>5 DEF Given, q, Last
<1> QED
  BY <1>2, <1>3

\* With the key at the end of any query whatever, a POST to a configured name
\* reaches the chain the name was given to, with the override the query asks
\* for, unless the name is a static route's.
THEOREM AnyQueryReachesOwner ==
  Spec => [](phase = "serving" /\ EscapeFree =>
               \A query \in Seq(Parameter) : ReachesOwner(query))
<1> DEFINE key == [name |-> "apikey", value |-> Secret]
<1>1. ASSUME RouteInv, phase = "serving", EscapeFree,
             NEW query \in Seq(Parameter), NEW k \in Keys, NEW n \in Names(k)
      PROVE  IF n \in StaticSegments
               THEN Reply(n, Append(query, key), TRUE).status = 405
             ELSE Reply(n, Append(query, key), TRUE)
                    = [status   |-> 200,
                       chain    |-> k,
                       override |-> Given(query, "provider_id")]
  <2>1. key \in Parameter /\ key.name = "apikey" /\ key.value = Secret
    BY FrontendAssumption DEF Parameter
  <2> HIDE DEF key
  <2>2. Authenticated(Append(query, key))
    BY <2>1, LastParameterDecides DEF Authenticated
  <2>3. Given(Append(query, key), "provider_id") = Given(query, "provider_id")
    BY <2>1, LastParameterDecides
  <2>4. n \in Spelling /\ k \in Spelling
    BY <1>1, NamesAreSpellings, RoutingAssumption DEF RouteInv, Keys
  <2>5. ChainOf(n) = k
    <3>1. DecodingNeutral /\ Decode[n] = n
      BY <1>1 DEF EscapeFree, DecodingNeutral
    <3>2. Resolve(n) = k
      BY <1>1, <3>1, NamesResolve
    <3> QED
      BY <2>4, <3>1, <3>2, FrontendAssumption DEF ChainOf
  <2>6. k # NoName
    BY <2>4, RoutingAssumption
  <2>7. CASE n \in StaticSegments
    BY <2>7 DEF Reply, Refused
  <2>8. CASE n \notin StaticSegments
    BY <2>2, <2>3, <2>5, <2>6, <2>8 DEF Reply
  <2> QED
    BY <2>7, <2>8
<1>2. RouteInv => (phase = "serving" /\ EscapeFree =>
                     \A query \in Seq(Parameter) : ReachesOwner(query))
  BY <1>1 DEF ReachesOwner
<1> QED
  BY <1>2, StateIsBuilt, PTL

\* In particular, behind no parameter at all or any one of them.
THEOREM NamesReachOwners == Spec => []NamesAreReachable
<1>1. {<<>>} \cup {<<p>> : p \in Parameter} \subseteq Seq(Parameter)
  <2>1. <<>> \in Seq(Parameter)
    OBVIOUS
  <2>2. ASSUME NEW p \in Parameter PROVE <<p>> \in Seq(Parameter)
    BY <2>2
  <2> HIDE DEF Parameter
  <2> QED
    BY <2>1, <2>2
<1>2. (phase = "serving" /\ EscapeFree =>
         \A query \in Seq(Parameter) : ReachesOwner(query))
        => NamesAreReachable
  BY <1>1 DEF NamesAreReachable
<1> QED
  BY <1>2, AnyQueryReachesOwner, PTL
=============================================================================
