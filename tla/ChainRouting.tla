---------------------------- MODULE ChainRouting ----------------------------
(***************************************************************************)
(* From the chains section of a configuration to the chain of a request:   *)
(* validate_chains (crates/proxy-core/src/config.rs:395-493) accepts or    *)
(* rejects it, ProxyState::new (crates/proxy-server/src/lib.rs:84-164)     *)
(* builds the pools and the alias map, resolve_chain looks a name up.      *)
(*                                                                         *)
(* Both walk a HashMap, so chains come in any order, and a chain is one    *)
(* action: no other task sees the state before it serves.                  *)
(*                                                                         *)
(* A name is written in some spelling.  The validator compares spellings   *)
(* trimmed and in lower case; the router percent-decodes them first.       *)
(***************************************************************************)
EXTENDS Naturals, Sequences, FiniteSets, Functions

CONSTANTS
  Spelling,    \* the names as written in a configuration or a URL
  Blank,       \* the one that is empty, once trimmed
  Fold,        \* trim().to_ascii_lowercase()
  Decode,      \* percent_decode_str
  NoName,      \* no default_chain; no chain in the URL
  Legacy,      \* the name ProxyState gives the only chain, "default"
  Providers,   \* the ids in the providers section
  Configs      \* the chains sections considered: .chains gives for each key
               \* its .providers and .aliases, .default is default_chain

ASSUME RoutingAssumption ==
  /\ IsFiniteSet(Spelling) /\ Blank \in Spelling
  /\ Fold \in [Spelling -> Spelling] /\ Fold[Blank] = Blank
  /\ Decode \in [Spelling -> Spelling]
  /\ NoName \notin Spelling /\ Legacy \in Spelling
  /\ Providers # {}
  /\ \A c \in Configs :
       /\ DOMAIN c.chains \subseteq Spelling
       /\ \A k \in DOMAIN c.chains :
            c.chains[k].aliases \in Seq(Spelling)
       /\ c.default \in Spelling \cup {NoName}

VARIABLES
  config,         \* the section being loaded
  phase,          \* "validating", "rejected", "building" or "serving"
  todo,           \* the chains the current walk has not reached
  used,           \* validate_chains' used_aliases
  pools,          \* chains: each built chain's providers
  aliasMap,       \* alias_map
  defaultChain    \* default_chain of the state

vars == <<config, phase, todo, used, pools, aliasMap, defaultChain>>

Keys == DOMAIN config.chains
Aliases(k) == config.chains[k].aliases
Names(k) == {k} \cup Range(Aliases(k))

Init ==
  /\ config \in Configs
  /\ phase = "validating"
  /\ todo = Keys
  /\ used = {}
  /\ pools = <<>> /\ aliasMap = <<>>
  /\ defaultChain = NoName

-----------------------------------------------------------------------------
(* Mutations of the definitions below.                                     *)

\* A chain's own key is not entered among the used names.
KeyNotReserved(k) == {Fold[n] : n \in Range(Aliases(k))}

\* An alias is compared with the names of its own chain only.
OwnNamesOnly(k) ==
  /\ Fold[k] \notin used \cup {Blank}
  /\ \A i \in DOMAIN Aliases(k) :
       /\ Fold[Aliases(k)[i]] \notin {Fold[k], Blank}
       /\ \A j \in DOMAIN Aliases(k) :
            Fold[Aliases(k)[i]] = Fold[Aliases(k)[j]] => i = j

\* default_chain is checked for being there, not for naming a chain.
DefaultNotLookedUp ==
  Keys = {} <=> config.default \in {NoName, Blank}

-----------------------------------------------------------------------------
(* validate_chains                                                         *)

\* What is demanded of default_chain before the walk.
DefaultValid ==
  LET blank == {s \in Spelling : Fold[s] = Blank} IN
  IF Keys = {} THEN config.default \in {NoName} \cup blank
               ELSE config.default \in Keys \ blank

ProvidersValid(k) ==
  /\ config.chains[k].providers # {}
  /\ config.chains[k].providers \subseteq Providers

\* The folded names a chain enters into used_aliases.
Reserved(k) == {Fold[n] : n \in Names(k)}

\* None of them blank, used by an earlier chain, or entered twice by this one.
NamesValid(k) ==
  /\ Fold[k] # Blank
  /\ Fold[k] \notin used
  /\ \A i \in DOMAIN Aliases(k) :
       /\ Fold[Aliases(k)[i]] \notin used \cup {Fold[k], Blank}
       /\ \A j \in DOMAIN Aliases(k) :
            Fold[Aliases(k)[i]] = Fold[Aliases(k)[j]] => i = j

Reject ==
  /\ phase = "validating"
  /\ \/ ~ DefaultValid
     \/ \E k \in todo : ~ (ProvidersValid(k) /\ NamesValid(k))
  /\ phase' = "rejected"
  /\ UNCHANGED <<config, todo, used, pools, aliasMap, defaultChain>>

ValidateChain(k) ==
  /\ phase = "validating" /\ DefaultValid
  /\ k \in todo
  /\ ProvidersValid(k) /\ NamesValid(k)
  /\ used' = used \cup Reserved(k)
  /\ todo' = todo \ {k}
  /\ UNCHANGED <<config, phase, pools, aliasMap, defaultChain>>

Accept ==
  /\ phase = "validating" /\ DefaultValid
  /\ todo = {}
  /\ phase' = "building"
  /\ todo' = Keys
  /\ UNCHANGED <<config, used, pools, aliasMap, defaultChain>>

-----------------------------------------------------------------------------
(* ProxyState::new                                                         *)

\* The names under which register_alias enters a chain.
Registered(k) == {Fold[Decode[n]] : n \in Names(k)}

\* The chain's runtime, with the providers that exist, and its names, which
\* replace what the map held for them.
BuildChain(k) ==
  /\ phase = "building" /\ k \in todo
  /\ pools' = [c \in DOMAIN pools \cup {k} |->
       IF c = k THEN config.chains[k].providers \cap Providers ELSE pools[c]]
  /\ aliasMap' = [n \in DOMAIN aliasMap \cup Registered(k) |->
       IF n \in Registered(k) THEN k ELSE aliasMap[n]]
  /\ todo' = todo \ {k}
  /\ UNCHANGED <<config, phase, used, defaultChain>>

\* No chains section: one chain with every provider, and no name for it.
BuildLegacy ==
  /\ phase = "building" /\ Keys = {}
  /\ pools' = [c \in {Legacy} |-> Providers]
  /\ defaultChain' = Legacy
  /\ phase' = "serving"
  /\ UNCHANGED <<config, todo, used, aliasMap>>

\* The configured default, if it is among the chains built.
Serve ==
  /\ phase = "building" /\ todo = {} /\ Keys # {}
  /\ defaultChain' =
       IF config.default \in DOMAIN pools THEN config.default ELSE NoName
  /\ phase' = "serving"
  /\ UNCHANGED <<config, todo, used, pools, aliasMap>>

\* resolve_chain: the key of a chain, or NoName for ChainError::Unsupported.
Resolve(name) ==
  LET key == IF name \in {NoName, Blank} THEN defaultChain
             ELSE IF Fold[Decode[name]] \in DOMAIN aliasMap
                    THEN aliasMap[Fold[Decode[name]]]
             ELSE NoName
  IN IF key \in DOMAIN pools THEN key ELSE NoName

Next ==
  \/ Reject \/ Accept \/ BuildLegacy \/ Serve
  \/ \E k \in Keys : ValidateChain(k) \/ BuildChain(k)

Spec == Init /\ [][Next]_vars

-----------------------------------------------------------------------------
(* Properties                                                              *)

\* Percent-decoding changes none of the configured names, folded or not.
DecodingNeutral ==
  \A k \in Keys : \A n \in Names(k) : Fold[Decode[n]] = Fold[n]

\* As long as no configured name holds a percent escape, the key and every
\* alias of every chain route to that chain, in any order of the two walks:
\* the validator rules every collision out that the map could have.
NamesRouteToOwner ==
  phase = "serving" /\ DecodingNeutral =>
    \A k \in Keys : \A n \in Names(k) : Resolve(n) = k

\* POST / is always served, and by a chain that has a provider to select:
\* so is every other chain (what LoadBalancer's PoolAssumption rests on).
RootIsServed ==
  phase = "serving" =>
    /\ Resolve(NoName) \in DOMAIN pools
    /\ Keys # {} => Resolve(NoName) = config.default
    /\ \A c \in DOMAIN pools : pools[c] # {}

\* The verdict does not depend on the order of the walk: a configuration is
\* rejected exactly when one of its chains, or two of them, cannot stand.
Sound ==
  /\ DefaultValid
  /\ \A k \in Keys :
       /\ ProvidersValid(k)
       /\ Blank \notin Reserved(k)
       /\ Cardinality(Reserved(k)) = 1 + Len(Aliases(k))
       /\ \A l \in Keys \ {k} : Reserved(k) \cap Reserved(l) = {}

VerdictIsSound ==
  /\ phase = "rejected" => ~ Sound
  /\ phase \in {"building", "serving"} => Sound
=============================================================================
