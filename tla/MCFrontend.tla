----------------------------- MODULE MCFrontend -----------------------------
(* Frontend over a handful of spellings: two names, one of them also in     *)
(* upper case and percent-escaped, that of a static route, and the blank    *)
(* one.                                                                     *)
EXTENDS Frontend

Spellings == {"eth", "ETH", "%65th", "%2565th", "base", "healthz", "HEALTHZ",
              "", "default"}

FoldOf == [s \in Spellings |-> CASE s = "ETH"     -> "eth"
                                 [] s = "HEALTHZ" -> "healthz"
                                 [] OTHER         -> s]
DecodeOf == [s \in Spellings |-> CASE s = "%65th"   -> "eth"
                                   [] s = "%2565th" -> "%65th"
                                   [] OTHER         -> s]

AliasLists == {<<>>} \cup {<<a>> : a \in Spellings}
                     \cup {<<a, b>> : a \in {"eth", "ETH", "base"},
                                      b \in {"eth", "ETH", "base", "%65th"}}

Sections(providerSets) ==
  [providers : providerSets, aliases : AliasLists]

\* No chain, one chain with any providers, two chains with valid ones.
AllConfigs ==
  [chains : {<<>>}, default : {"none", "", "eth"}]
  \cup UNION {[chains : [{k} -> Sections({{}, {"p1"}, {"p1", "gone"}})],
               default : {"none", "", "eth", "ETH"}] : k \in {"eth", "ETH", ""}}
  \cup UNION {[chains : [ks -> Sections({{"p1"}, {"p2"}})],
               default : {"eth", "base"}]
              : ks \in {{"eth", "base"}, {"eth", "ETH"}, {"base", "%65th"},
                        {"base", "healthz"}}}
=============================================================================
