----------------------------- MODULE Lifecycle -----------------------------
(***************************************************************************)
(* The process around the request path, main and shutdown_signal of        *)
(* crates/proxy-server/src/main.rs.                                        *)
(*                                                                         *)
(*   starting --> serving --> draining --> stopped                         *)
(*      \                                                                  *)
(*       +--> aborted   an `expect` fails, or a signal comes before        *)
(*                      shutdown_signal has installed its handlers         *)
(*                                                                         *)
(* shutdown_signal ends with the first SIGINT, SIGTERM or SIGHUP alike:    *)
(* `select!` returns whichever branch ran.  axum then takes no further     *)
(* request and serve returns when the last one in flight has ended; there  *)
(* is no limit on that wait, and since the handlers stay installed, a      *)
(* second signal does nothing.                                             *)
(*                                                                         *)
(* A request counts as in flight from its headers on: the handlers'        *)
(* signatures have axum read and parse the body before they run            *)
(* (lib.rs:366-383), so a request that was uploading at the signal enters  *)
(* the request path afterwards.  A client that is slow to read its answer  *)
(* delays serve as well and is left out.                                   *)
(***************************************************************************)
EXTENDS Gateway

VARIABLES
  server,     \* where the process is
  uploading   \* the requests whose bodies are being read

lifecycleVars == <<server, uploading, vars>>

Running == {"serving", "draining"}

LifecycleInit == Init /\ server = "starting" /\ uploading = {}

-----------------------------------------------------------------------------
(* A mutation: the listener goes on accepting while the server drains.     *)

AcceptsWhileDraining(r) ==
  /\ server \in Running
  /\ ~ Active(r) /\ r \notin uploading
  /\ uploading' = uploading \cup {r}
  /\ UNCHANGED <<server, vars>>

-----------------------------------------------------------------------------
\* The configuration is loaded, the router and its state are built, the
\* listener is bound, and the handlers for the signals are installed.
Serve ==
  /\ server = "starting"
  /\ server' = "serving"
  /\ UNCHANGED <<uploading, vars>>

\* No exporter, no valid configuration, or the port is taken.
StartFails ==
  /\ server = "starting"
  /\ server' = "aborted"
  /\ UNCHANGED <<uploading, vars>>

\* Any of the three signals; before `serve` polls shutdown_signal it has its
\* default effect.
Signal ==
  /\ \/ server = "starting" /\ server' = "aborted"
     \/ server = "serving" /\ server' = "draining"
  /\ UNCHANGED <<uploading, vars>>

\* serve returns, and main with it.
Stop ==
  /\ server = "draining"
  /\ uploading = {} /\ \A r \in Request : ~ Active(r)
  /\ server' = "stopped"
  /\ UNCHANGED <<uploading, vars>>

\* The headers of a request have come, and its key is right.
Accept(r) ==
  /\ server = "serving"
  /\ ~ Active(r) /\ r \notin uploading
  /\ uploading' = uploading \cup {r}
  /\ UNCHANGED <<server, vars>>

\* Its body has come, or could not be parsed, or its client has gone.
UploadEnds(r) ==
  /\ r \in uploading
  /\ uploading' = uploading \ {r}
  /\ (\E id \in OverrideIds : Arrive(r, id)) \/ UNCHANGED vars
  /\ UNCHANGED server

\* Requests in flight go on while the server drains.
Alive(A) == server \in Running /\ A /\ UNCHANGED <<server, uploading>>

LifecycleNext ==
  \/ Serve \/ StartFails \/ Signal \/ Stop
  \/ Alive(TimePasses)
  \/ \E r \in Request :
       Accept(r) \/ UploadEnds(r) \/ (Active(r) /\ Alive(Step(r)))

(* Fairness, as in Gateway's FairSpec; start-up ends, and serve returns    *)
(* when it can.  Nobody need send a signal.                                *)
LifecycleSpec ==
  /\ LifecycleInit /\ [][LifecycleNext]_lifecycleVars
  /\ WF_lifecycleVars(Serve \/ StartFails)
  /\ WF_lifecycleVars(Stop)
  /\ WF_lifecycleVars(Alive(TimePasses))
  /\ \A r \in Request : WF_lifecycleVars(Alive(Scheduled(r)))

-----------------------------------------------------------------------------
(* A property                                                              *)

\* A signalled server stops, unless a body keeps a request, and so the process,
\* for ever, a provider's on its way back or a client's on its way in: neither
\* retries nor backoffs nor an open circuit can, and no new request prolongs
\* the wait.
StopsUnlessBodyStalls ==
  server = "draining" ~>
    \/ server = "stopped"
    \/ \E r \in Request : [](pc[r] = "body") \/ [](r \in uploading)
=============================================================================
