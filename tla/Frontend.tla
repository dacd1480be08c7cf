------------------------------ MODULE Frontend ------------------------------
(***************************************************************************)
(* What becomes of a POST before it is forwarded: the routes of            *)
(* build_router and of main, authenticate_request, the extractors of the   *)
(* two handlers and resolve_chain (crates/proxy-server/src/lib.rs:305-425, *)
(* admin.rs:15-21, main.rs:17,35-39).  None of it keeps any state, so the  *)
(* answer is an operator over a configuration that serves.                 *)
(*                                                                         *)
(* The static GET routes shadow POST /{chain}: the router compares a path  *)
(* as it is written and prefers them, and they are merged behind the       *)
(* authentication.  The Path extractor percent-decodes a segment, and      *)
(* normalize_chain_id decodes it again.                                    *)
(***************************************************************************)
EXTENDS ChainRouting

CONSTANTS
  Root,        \* the path /, which is no segment
  StaticSegments,   \* healthz, readyz and metrics
  Secret,      \* auth.api_key
  Values       \* what the parameters in a query may be

ASSUME FrontendAssumption ==
  /\ Root \notin Spelling
  /\ StaticSegments \subseteq Spelling \ {Blank}
  /\ Secret \in Values
  /\ \A s \in Spelling : Decode[s] = Blank => s = Blank

\* A query as form_urlencoded::parse yields it, parameters other than these
\* two left out.
Parameter == [name : {"apikey", "provider_id"}, value : Values]

\* A path of one segment, or of none.
Paths == {Root} \cup (Spelling \ {Blank})

-----------------------------------------------------------------------------
(* Mutations of the definitions below, and of ChainRouting's.              *)

\* The first parameter of a name decides.
FirstGiven(query, name) ==
  {query[i].value : i \in {j \in DOMAIN query :
     /\ query[j].name = name
     /\ \A k \in 1 .. (j - 1) : query[k].name # name}}

\* A chain that is not known is the default one.
UnknownIsDefault(path) ==
  IF path = Root \/ Fold[Decode[path]] \notin DOMAIN aliasMap THEN defaultChain
  ELSE aliasMap[Fold[Decode[path]]]

-----------------------------------------------------------------------------
\* The loop over the query keeps the last value of a parameter: a set of one,
\* or the empty set.
Given(query, name) ==
  {query[i].value : i \in {j \in DOMAIN query :
     /\ query[j].name = name
     /\ \A k \in (j + 1) .. Len(query) : query[k].name # name}}

Authenticated(query) == Given(query, "apikey") = {Secret}

\* The chain the handler resolves, NoName if it is unsupported.
ChainOf(path) == IF path = Root THEN Resolve(NoName) ELSE Resolve(Decode[path])

Refused(status) == [status |-> status, chain |-> NoName, override |-> {}]

\* The answer to a POST; 200 stands for what becomes of it in Gateway, 400 for
\* any refusal of the Json extractor.
Reply(path, query, json) ==
  CASE path \in StaticSegments -> Refused(405)
    [] path \notin StaticSegments /\ ~ Authenticated(query) -> Refused(401)
    [] path \notin StaticSegments /\ Authenticated(query) /\ ~ json
         -> Refused(400)
    [] OTHER ->
         IF ChainOf(path) = NoName THEN Refused(400)
         ELSE [status   |-> 200,
               chain    |-> ChainOf(path),
               override |-> Given(query, "provider_id")]

-----------------------------------------------------------------------------
(* Properties                                                              *)

\* Decoding, once or twice, changes no name of the configuration.
EscapeFree ==
  \A k \in Keys : \A n \in Names(k) :
    Decode[n] = n

\* A POST to the names of the configuration, with this query and then the key.
ReachesOwner(query) ==
  \A k \in Keys : \A n \in Names(k) :
    LET key   == [name |-> "apikey", value |-> Secret]
        reply == Reply(n, Append(query, key), TRUE)
    IN IF n \in StaticSegments THEN reply.status = 405
       ELSE reply = [status   |-> 200,
                     chain    |-> k,
                     override |-> Given(query, "provider_id")]

\* The way from the address to the chain is open: a client that writes a
\* configured name in its URL, and the key behind whatever else the query
\* holds, is forwarded to the chain the name was given to, with the override it
\* asked for.  The names of the static routes are the exception: a
\* configuration may use them, and as they are written no POST reaches them.
NamesAreReachable ==
  phase = "serving" /\ EscapeFree =>
    \A query \in {<<>>} \cup {<<p>> : p \in Parameter} : ReachesOwner(query)

\* Nothing strays: what is forwarded goes to the default chain if no chain was
\* named, and else to one that has the name in the URL, as far as the two
\* conversions can tell, escapes or not.
NothingStrays ==
  phase = "serving" =>
    \A path \in Paths :
      ChainOf(path) # NoName =>
        IF path = Root THEN ChainOf(path) = defaultChain
        ELSE /\ ChainOf(path) \in Keys
             /\ \E n \in Names(ChainOf(path)) :
                  Fold[Decode[n]] = Fold[Decode[Decode[path]]]
=============================================================================
