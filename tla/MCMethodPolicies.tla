-------------------------- MODULE MCMethodPolicies --------------------------
(* MethodPolicies with one group, up to two overrides and two methods.     *)
EXTENDS MethodPolicies

CONSTANTS read, write   \* methods

Values == {Unset, 0, 1, 2}
BuiltIns == [s \in Setting |-> 9]

Layer(values, backoffs) == [settings : [Setting -> values], backoff : backoffs]

OverrideLayer(values, backoffs, patterns, groups) ==
  [settings : [Setting -> values], backoff : backoffs,
   pattern : patterns, group : groups]

Patterns == {{read}, {read, write}}

\* Below, within and above the built-in bounds.
Ranges ==
  {Unset} \cup [min : {Unset, 0, 100, 3000}, max : {Unset, 100, 3000}]

\* Settings in every combination of the layers; two overrides, one group.
SettingConfigs ==
  [defaults  : Layer(Values, {Unset}),
   groups    : [{"g"} -> Layer(Values, {Unset})],
   overrides : UNION {[1 .. n -> OverrideLayer(Values, {Unset}, Patterns,
                                               {Unset, "g"})] : n \in {0, 1}}
               \cup {<<a, b>> : a \in OverrideLayer({Unset, 1}, {Unset},
                                        Patterns, {"g"}),
                                b \in OverrideLayer({Unset, 2}, {Unset},
                                        Patterns, {Unset, "gone"})}]

\* Backoffs in every combination of the layers.
BackoffConfigs ==
  [defaults  : Layer({1}, Ranges),
   groups    : [{"g"} -> Layer({1}, Ranges)],
   overrides : [{1} -> OverrideLayer({1}, Ranges, {{read}},
                                     {Unset, "g"})]]

AllConfigs == SettingConfigs \cup BackoffConfigs
=============================================================================
