--------------------------- MODULE MethodPolicies ---------------------------
(***************************************************************************)
(* The policy of a method, from the methods section of a configuration:    *)
(* validate_methods (crates/proxy-core/src/config.rs:261-393) passes it,   *)
(* MethodRegistry::new and resolve (crates/proxy-core/src/methods.rs)      *)
(* layer override over group over defaults, and a request turns the        *)
(* policy's backoff into a delay generator (proxy-server/src/lib.rs:432).  *)
(*                                                                         *)
(* A layer is a record.  Its `settings` are the options that are taken     *)
(* over one by one: tolerance, timeout_ms, max_retries, weight_multiplier, *)
(* and the weight of each provider (merge_provider_weights).  Its          *)
(* `backoff` is Unset or a record of two options, min and max; jitter is   *)
(* taken over like them and left out.  A glob pattern is the set of the    *)
(* methods it matches.                                                     *)
(***************************************************************************)
EXTENDS Integers, Sequences

CONSTANTS
  Method,      \* the methods requests may name
  Setting,     \* the names of the settings
  NonZero,     \* the settings validate_methods demands to be positive
  BuiltIn,     \* their values where no layer sets them
  Unset,       \* None
  BuiltInMin, BuiltInMax,   \* resolve_backoff's 200 ms and 2000 ms
  Configs      \* the methods sections considered: .defaults is a layer,
               \* .groups a layer for each name, .overrides a sequence of
               \* layers that have a .pattern and a .group too

\* Every layer of a section.
LayersOf(c) ==
  {c.defaults}
    \cup {c.groups[g] : g \in DOMAIN c.groups}
    \cup {c.overrides[i] : i \in DOMAIN c.overrides}

ASSUME PolicyAssumption ==
  /\ NonZero \subseteq Setting
  /\ Unset \notin Int
  /\ BuiltInMin \in Nat \ {0} /\ BuiltInMax \in Nat \ {0}
  /\ BuiltInMin <= BuiltInMax
  /\ BuiltIn \in [Setting -> Nat \cup {Unset}]
  /\ \A s \in NonZero : BuiltIn[s] \in Nat \ {0}
  /\ \A c \in Configs :
       /\ Unset \notin DOMAIN c.groups
       /\ Len(c.overrides) \in Nat
       /\ DOMAIN c.overrides = 1 .. Len(c.overrides)
       /\ \A layer \in LayersOf(c) :
            layer.backoff # Unset =>
              {layer.backoff.min, layer.backoff.max} \subseteq Nat \cup {Unset}

VARIABLES
  config,    \* the section
  phase,     \* "loading", "rejected", "serving" or "panicked"
  method,    \* the method of the request at hand, Unset before the first
  policy     \* its policy, Unset before the first

vars == <<config, phase, method, policy>>

Init ==
  /\ config \in Configs
  /\ phase = "loading"
  /\ method = Unset
  /\ policy = Unset

-----------------------------------------------------------------------------
(* Mutations of the definitions below.                                     *)

\* The first matching override decides.
FirstMatch(matching) == CHOOSE i \in matching : \A j \in matching : i <= j

\* The two ends of a backoff are not compared.
OrderUnchecked(b) == b # Unset => b.min # 0 /\ b.max # 0

\* The groups are not validated.
GroupsUnchecked ==
  {config.defaults} \cup {config.overrides[i] : i \in DOMAIN config.overrides}

-----------------------------------------------------------------------------
(* validate_methods                                                        *)

\* validate_backoff: no zero, and in order if the layer sets both
BackoffValid(b) ==
  b # Unset =>
    /\ b.min # 0 /\ b.max # 0
    /\ Unset \notin {b.min, b.max} => b.max >= b.min

LayerValid(layer) ==
  /\ \A s \in NonZero : layer.settings[s] # 0
  /\ BackoffValid(layer.backoff)

Layers == LayersOf(config)

GroupsExist ==
  \A i \in DOMAIN config.overrides :
    config.overrides[i].group \in DOMAIN config.groups \cup {Unset}

-----------------------------------------------------------------------------
(* MethodRegistry                                                          *)

\* unwrap_or
Or(value, base) == IF value = Unset THEN base ELSE value

\* resolve_backoff, and a layer without a backoff taking over the base's
OverBackoff(backoff, base) ==
  IF backoff = Unset THEN base
  ELSE [min |-> Or(backoff.min, IF base = Unset THEN BuiltInMin ELSE base.min),
        max |-> Or(backoff.max, IF base = Unset THEN BuiltInMax ELSE base.max)]

\* A layer over a policy: the body of each of the three build functions.
Over(layer, base) ==
  [settings |-> [s \in Setting |-> Or(layer.settings[s], base.settings[s])],
   backoff  |-> OverBackoff(layer.backoff, base.backoff)]

\* resolve_defaults
Defaults == Over(config.defaults, [settings |-> BuiltIn, backoff |-> Unset])

\* build_group_policies
GroupPolicy(g) == Over(config.groups[g], Defaults)

\* build_override_policies, for one override
OverridePolicy(i) ==
  LET o == config.overrides[i] IN
  Over(o, IF o.group \in DOMAIN config.groups THEN GroupPolicy(o.group)
                                              ELSE Defaults)

\* The overrides whose pattern matches (globset's ascending indices).
Matching(m) ==
  {i \in DOMAIN config.overrides : m \in config.overrides[i].pattern}

\* OverrideSet::matches takes the last of them.
Chosen(matching) == CHOOSE i \in matching : \A j \in matching : j <= i

\* resolve
Resolve(m) ==
  IF Matching(m) = {} THEN Defaults ELSE OverridePolicy(Chosen(Matching(m)))

\* The delay generator is refused, and `expect` panics: make_backoff.
Refused(backoff) == backoff # Unset /\ backoff.min > backoff.max

-----------------------------------------------------------------------------
\* load_from_str validates; the server starts with a registry or not at all.
Load ==
  /\ phase = "loading"
  /\ phase' = IF (\A layer \in Layers : LayerValid(layer)) /\ GroupsExist
                THEN "serving" ELSE "rejected"
  /\ UNCHANGED <<config, method, policy>>

\* A request gets its method's policy and makes its backoff.
Request(m) ==
  /\ phase = "serving"
  /\ method' = m
  /\ policy' = Resolve(m)
  /\ phase' = IF Refused(policy'.backoff) THEN "panicked" ELSE phase
  /\ UNCHANGED config

\* The panic takes its connection down, not the server.
NextRequest ==
  /\ phase = "panicked"
  /\ phase' = "serving"
  /\ method' = Unset /\ policy' = Unset
  /\ UNCHANGED config

Next == Load \/ NextRequest \/ \E m \in Method : Request(m)

Spec == Init /\ [][Next]_vars

-----------------------------------------------------------------------------
(* Properties                                                              *)

Answered == policy # Unset

\* The layers that could speak for a method, the nearest first.
Nearest(m) ==
  IF Matching(m) = {} THEN <<config.defaults>>
  ELSE LET i == Chosen(Matching(m))
           o == config.overrides[i]
       IN IF o.group = Unset THEN <<o, config.defaults>>
          ELSE <<o, config.groups[o.group], config.defaults>>

\* Each setting of a request's policy is what the nearest layer that sets it
\* says: the last override that matches the method, in the order of the file,
\* then that override's group, then the defaults (methods.rs:103-160,206-262).
NearestLayerDecides ==
  Answered =>
    /\ \A i \in Matching(method) : i <= Chosen(Matching(method))
    /\ \A s \in Setting :
         LET layers == Nearest(method)
             set == {k \in DOMAIN layers : layers[k].settings[s] # Unset}
         IN IF set = {} THEN policy.settings[s] = BuiltIn[s]
            ELSE \E k \in set : /\ \A l \in set : k <= l
                                /\ policy.settings[s] = layers[k].settings[s]

\* What validation refuses in a layer (config.rs:262-305) never comes out of
\* several layers together: an option it wants positive is zero in no policy.
\* The request path would not notice: it takes the larger of two timeouts and
\* one attempt at least (lib.rs:428,513), so a zero would be without effect.
PoliciesUsable ==
  Answered => \A s \in NonZero : policy.settings[s] # 0

\* As long as every layer that sets one end of a backoff sets the other too,
\* no request panics over its backoff (lib.rs:656-665).
WholeBackoffs ==
  \A layer \in Layers :
    layer.backoff # Unset => Unset \notin {layer.backoff.min, layer.backoff.max}

WholeBackoffsBuild == WholeBackoffs => phase # "panicked"

-----------------------------------------------------------------------------
(* A claim of the code the validation does not keep                        *)

\* lib.rs:663, .expect("invalid backoff configuration"): a configuration
\* that was accepted makes no request panic.
AcceptedBackoffsBuild == phase # "panicked"
=============================================================================
