# A verification of rpceth

rpceth is a JSON-RPC gateway in Rust: it accepts calls on `POST /` and
`POST /{chain}`, picks one of the chain's providers (RPC nodes), forwards the
call and, when the provider fails, tries another. This directory holds TLA+
models of the parts that decide *where a call goes and what becomes of it*,
the TLC configurations that check them on small instances, and theorems about
them proved with TLAPS for every instance. `PROJECT.json` lists components,
runs, theorems, hazards, findings and, for every definition, the lines of
source it stands for.

Paths below are relative to the repository; `lib.rs` is
`crates/proxy-server/src/lib.rs`, and the others are in `crates/proxy-core/src`.

## 1. The system

| component | state it keeps | operations | talks to |
|---|---|---|---|
| **Request path** (`lib.rs:395-707`) | per request: override, `tried`, `attempt`, `excluded`, the provider in hand | `proxy_handler_impl`, `select_provider`, `forward_to_provider` | reads and moves the breaker and the balancer; sends to providers |
| **Circuit breaker** (`circuit.rs`), one per chain | `DashMap<ProviderId, InnerState>`: Closed, Open, HalfOpen with counters | `is_available`, `on_request_start`, `on_success`, `on_failure` | called by every request of the chain, and by the admin scan |
| **Load balancer** (`routing/load_balancer.rs`), one per chain | round-robin cursor under a mutex, RNG | `select` | reads the health service, is called in a loop by `select_provider` |
| **Health service** (`health/`), one per chain | per provider: latency average, success rate, last block, failures | a probe of two calls every 15 s per provider; `best_score`, `filtered_snapshots` | written by probe tasks, read by the balancer without a common lock |
| **Chain routing** (`config.rs:395-497`, `lib.rs:84-194`) | chains, alias map, default chain (fixed after start) | `validate_chains`, `ProxyState::new`, `resolve_chain` | gives a request its chain |
| **Method policies** (`methods.rs`, `config.rs:261-393`) | compiled overrides, groups, defaults (fixed after start) | `validate_methods`, `MethodRegistry::new`, `resolve` | gives a request attempts, timeout, tolerance, backoff |
| **Authentication** (`lib.rs:305-425`) | none | `authenticate_request`: compares a key, reads the provider override | stands before the two handlers of the request path, behind the router |
| **Admin endpoints** (`admin.rs`) | none | health, readiness, status | scan the breakers provider by provider |
| **Metrics, tracing** (`lib.rs`, `main.rs`) | counters and gauges | record; a 15 s loop over a *second* `ProxyState` | output only |
| **Process lifecycle** (`main.rs`) | none | load, bind, serve, stop on SIGINT, SIGTERM or SIGHUP | waits for the requests in flight |

What is hard about it:

* every request of a chain is a task of its own, all of them share a breaker
  and a cursor, and between `is_available` and `on_request_start`, and from
  there to the outcome, anything may happen to the circuit;
* answers, timeouts and broken bodies arrive in any order, long after the
  state that admitted their request is gone; a client that goes away drops the
  future at its await, and nobody is told;
* a selection reads the health map in three passes while probes write to it;
* retries, override, exclusions, tolerance and breaker decide together who is
  next, and each can be empty-handed;
* `HashMap` order decides the order of validation and of registration;
* policies are put together from layers validated one by one;
* a request leaves its loop in four ways, and what it counted on the way has
  to add up in each;
* a shutdown meets requests at every stage of their retries, and a readiness
  probe meets circuits that only requests move.

What makes each part correct: a request must not fail while a working provider
is left to it, must not be sent twice to one node, and must end; a cooling
provider is not admitted, half-open attempts are limited, and an unavailable
provider comes back; nobody who stays eligible is starved; the health filter
must spare the healthy and not leave a selection with nothing; every
configured name leads to its chain, from the URL on; a policy is what the
nearest layer says and holds nothing that validation refuses in a layer; a
provider that recovers regains its score; a gateway taken out of service because of its circuits becomes ready
again; and a signalled server stops.

`docs/architecture.md:56-66` lists boundaries the code is known to have: the
forwarding timeout is the larger of two, readiness means that every circuit is
available, the metrics task has its own circuits, SIGHUP shuts down. The model
takes the code as it is, there and elsewhere; documents under
`implented_spec_task/` are cited only where a finding compares them with it.

## 2. Modules

```
 Failover <---- implements ---- Gateway --EXTENDS--> CircuitBreaker
 (abstract)                      ^  |   \--EXTENDS--> LoadBalancer <-- RoundRobinFairness
                                 |  |
   Lifecycle, Readiness, --------+  assumes HealthSparesReliable,
   Accounting EXTEND it             which is ReliableStayEligible of
                                    v
                            HealthSelection --EXTENDS--> HealthService
                            HealthProbing   --EXTENDS--> HealthService

 Frontend --EXTENDS--> ChainRouting   gives each chain its (non-empty) pool
                                      -> LoadBalancer, and each request its
                                      chain and its override -> Gateway
 MethodPolicies                       gives MaxRetries, HasBackoff -> Gateway
```

**Steps.** A task is interrupted where the code awaits or takes a lock, so one
action is what runs between two such points: a method under a `DashMap` entry
lock, a `select` that moves the cursor under its mutex, one entry of a scan
over the health map.

* **CircuitBreaker** – `circuit[p]` is the `InnerState` of `p`. `OnRequestStart`,
  `OnSuccess`, `OnFailure` are the methods with every state they may be called
  in; `retry_at` is kept as the ticks left until it (`Tick`). A provider's own
  `circuit_breaker` section is not validated, so the assumptions allow zeros.
* **LoadBalancer** – the cursor and `Select`. Round robin is exact;
  `weighted_random` is any eligible provider, as weights are at least 1.0. The
  health filter is an argument, so that users state what they assume of it.
* **Gateway** – the tasks of one chain; the drawing at its top shows `pc`. A
  slot of `Request` takes a new request when its last one ended, so requests
  follow each other for ever. `AttemptFails` is the whole `Err` arm, with
  `on_failure` and the choice between retry, backoff and giving up.
  `ClientDisconnects` is hyper dropping the future, at an await only.
* **Failover** – the promise to a client: providers one at a time, none twice,
  at most `MaxAttempts`, an answer only from a provider contacted.
* **RoundRobinFairness** – the cursor under *every* sequence of `select`
  calls with arbitrary eligible sets, which is what concurrent requests make.
* **Lifecycle** – the process around `Gateway`: it starts or fails to, serves,
  drains after the first signal and stops when the last request has ended. A
  request is accepted with its headers (`Accept`) and enters the request path
  when the `Json` extractor has its body (`UploadEnds`), also after the signal.
* **Readiness** – `/readyz` beside `Gateway`: one provider after the other, in
  any order, is asked for its circuit; `Ready` is the verdict of a scan.
* **Accounting** – `Gateway` with what each request has added to the five
  counters of the request path; a counter is the sum over all requests.
* **HealthService** – what a probe result does to a record, and the score.
  f64 becomes fixed point: a rate counts `1/Unit`, a score `1/(10 * Unit)`,
  `PromptLatency` is two seconds, smoothed values are rounded down.
  `sync_score` and `method_support_score` never leave 1.0 in the code and are
  a constant.
* **HealthSelection** – one call of `select` as three passes over the map,
  entry by entry, with results landing in between.
* **HealthProbing** – the ticker, the two calls of every probe and the nodes
  they meet, which are fine, slow or failing and change at any time. One clock
  times both calls (`probe.rs:62,135`), so a probe whose node changed under it
  (`changed`) may have taken any time and may end either way.
* **ChainRouting** – the walk that validates and the walk that registers, each
  in any order. Names are spellings with the two conversions the code applies,
  `Fold` (trim, lower case) and `Decode` (percent-decoding, router only).
* **Frontend** – what becomes of a POST before the request path: static routes,
  key, override, and the chain its URL names, as one operator over a
  configuration that serves.
* **MethodPolicies** – layers, their validation one by one, their composition,
  and the request that makes a delay generator of the result.

The `...Proofs` modules hold the theorems, the `MC...` modules the instances.
Definitions headed "Mutations" are plausible slips of the code; they take part
in no specification and serve to show that each property would notice them.

## 3. Runs

| run | checks | instance | distinct states |
|---|---|---|---|
| `failover` | `TypeOK`, `FailoverComplete`, `ImplementsFailover`, `CompletedOnce`, `SelectionsAreSettled` | `Accounting` with 2 concurrent requests, 3 providers of which 1 works, overrides of the chain and foreign, backoff, disconnects, any health filter that spares the working one | 878,623 |
| `breaker` | `ProbeOverrunBound`, `NoAdmissionWhileCooling`, `CompletedOnce` | `Accounting` with 3 requests, 2 providers, thresholds of 2, any weighted pick, overrides, disconnects, a health filter that may drop the working provider | 461,258 |
| `lifecycle` | `RequestEndsUnlessBodyStalls`, `StopsUnlessBodyStalls` | `Lifecycle` with 2 requests, 2 providers, backoff, disconnects, a health filter that changes at every call | 150,193 |
| `recovery` | `HalfOpenIsWatched`, `CircuitRecovers`, `ReadyWithoutTraffic` | `Readiness` with 2 requests that wait, 2 providers, one with all three breaker settings zero | 267,304 |
| `round_robin` | `BoundedBypass`, `MissesAdvanceCursor` | pool of 5 with a repeated provider | 148 |
| `health_selection` | `TypeOK`, `ReliableStayEligible`, `AnswersWhenQuiet`, `FailingStayEligible` | 2 providers, prompt or not, reliable or not, 3 results each, a Balanced chain, all policy tolerances | 2,348,136 |
| `probing` | `TypeOK`, `ScoreFollowsNode`, `RecoversScore`, `StrictSeparates` | 2 providers whose nodes change for ever, also under a probe, rates in eighths | 664,642 |
| `routes` | `NamesRouteToOwner`, `RootIsServed`, `VerdictIsSound`, `NamesAreReachable`, `NothingStrays` | about sixteen thousand chains sections, walked in every order, and all short queries and paths | 50,328 |
| `policies` | `NearestLayerDecides`, `PoliciesUsable`, `WholeBackoffsBuild` | about five thousand methods sections | 13,786 |
| `claim_wedge`, `claim_fallback`, `claim_backoff` | one claim each, violated: section 5 | | |

**Bounds, and why they are enough.** Two requests are what a race on a circuit
needs, the one that changes it and the one that is surprised; three let two of
them pass `is_available` before a third, which is what overruns the probe
limit. Two providers give a request somewhere else to go; the third in
`failover` lets a request spend every attempt on others or run out of
providers before attempts. `MaxRetries` 2 has a first, a last and, with three
providers, an untried one left. `U32Max` of 2 to 4 makes the counters
saturate within a few failures, which the code does at 2^32 - 1; thresholds
stay below it; `recovery`, where time and fairness cost most, has 1 for both.
A tick is as long as the shortest `reset_timeout`; only the
order of instants matters. `MaxResults` caps results per provider at 3: with 6 s
samples, two pull the average past 2 s and three separate two providers by
more than Strict. `probing` has no such cap: with rates in eighths and
latencies of 4, 8 and 12 where 4 is two seconds, the averages take few values
and every history of results is there. A slow node takes 12, the six seconds
that two calls can take; the exact boundary of `StrictSeparates`, three
seconds, is its premise `Discernible`. In `routes`, upper-case spellings,
spellings with one escape and with an escaped escape, the name of a static
route and a blank one give every collision the two conversions can produce
between two chains. `policies` has 0 to 2 overrides over one group and two methods, with a
zero, two values and nothing for a setting, and ends below, inside and above
the built-in backoff. The theorems of section 4 have none of these bounds.
Symmetry among requests is used in safety runs only.

Deadlock is checked everywhere but in `routes` and `policies`, where a loaded
or rejected configuration is the end of the story, and in `lifecycle`, where
the process may stop or not start.

**Fairness** (`FairSpec`): the executor polls a task that can run, so
selection, `on_request_start` and backoff (a timer) proceed; `tokio::time::timeout`
ends `send()` one way or the other; time passes. Nothing is assumed of
clients, nor of a body in transit, which no timeout covers (`lib.rs:700`).
`ResponsiveSpec` adds that bodies end, and is used for recovery only: a probe
request that waits for a body for ever can hold its circuit half-open. Weak
fairness is enough, as no other task can disable a step of a request without
enabling another one of the same request. `LifecycleSpec` is `FairSpec` for a
server that runs, plus that start-up and `serve` return when they can; nobody
need send a signal. `ReadinessSpec` is `ResponsiveSpec` plus an orchestrator
that keeps asking. In `HealthProbing` the ticker ticks and every call ends,
by its answer or by the client's 3 s timeout, which covers the body
(`lib.rs:227`); two calls take 6 s, so the probes of a tick end before the next
one at 15 s (`lib.rs:233`), and `Launch` may wait for that.

## 4. Theorems

For every number of providers and requests, every configuration and every
interleaving, from the named assumptions on the constants alone. All
invariants and action properties the runs check are proved, in modules of the
parts they are about:

| module | theorems, and the property of a run each states |
|---|---|
| `GatewayProofs` | `TypeCorrect` (`TypeOK`); `FailoverIsComplete` (`FailoverComplete`): a request answered with "all providers failed" never contacted a working provider, and it named a foreign one, or none works, or every attempt went to others; `GatewayKeepsPromise` (`ImplementsFailover`): each step of the request path is a step of `Failover` or a stutter |
| `BreakerProofs` | `NoAdmission` (`NoAdmissionWhileCooling`), `HalfOpenIsAlwaysWatched` (`HalfOpenIsWatched`), `ProbeOverrunIsBounded` (`ProbeOverrunBound`) |
| `ObserverProofs` | `CompletionsAreOnce` (`CompletedOnce`), `SelectionsSettle` (`SelectionsAreSettled`); `CountersOnlyObserve`, `ServerOnlyGates`, `ScansOnlyObserve`: `Accounting`, `Lifecycle` and `Readiness` implement `Gateway`; `IdleChainsHeal` |
| `RoundRobinProofs` | `MissesBringCursorCloser` (`MissesAdvanceCursor`), `RoundRobinIsFair` (`BoundedBypass`) |
| `HealthProofs` | `SelectionTypeCorrect` (`TypeOK`), `ReliableAreSpared` (`ReliableStayEligible`), `FailingAreSpared` (`FailingStayEligible`), `QuietCallsAnswer` (`AnswersWhenQuiet`) |
| `ProbingProofs` | `ProbingTypeCorrect` (`TypeOK`), `ScoresFollow` (`ScoreFollowsNode`), `RecoveryAdvances` |
| `ChainRoutingProofs` | `NamesAreRouted` (`NamesRouteToOwner`), `VerdictIsOrderFree` (`VerdictIsSound`), `RootAlwaysServed` (`RootIsServed`), `NothingGoesAstray` (`NothingStrays`), `NamesReachOwners` (`NamesAreReachable`), `AnyQueryReachesOwner` |
| `PolicyProofs` | `ServedPoliciesAreUsable` (`PoliciesUsable`), `NearestLayerWins` (`NearestLayerDecides`), `WholeBackoffsNeverPanic` (`WholeBackoffsBuild`) |

**The request path.** `FailoverComplete` is not inductive. It needs
`Bookkeeping` (what a task's locals are at each location: it holds an untried
provider until `on_request_start` and a tried one after), `Counting` (tried
providers are counted by `attempt`) and `WorkingProviders` (a working
provider's circuit never leaves Closed, so no selection excludes it, and no
request tries it and goes on). `Bookkeeping` and `Counting` also carry the
refinement: the next provider is untried because `excluded` contains `tried`.
The breaker's theorems rest on `Bookkeeping` and two lemmas, that a request
becomes admitted only in a step that asked `is_available`, and that a circuit
becomes or stays half-open in few ways, each with a request in exchange.

**Around it.** The runs check `Gateway` inside other specifications; the three
implementation theorems carry what is proved of `Gateway` over to these. The
counters' properties follow from `Balanced`, which says what each entry of a
ledger has come to at each location of `pc`, the locations after which a
client may have left included. `IdleChainsHeal` is what `ReadyWithoutTraffic`
rests on: with nothing in flight nothing is half-open (`HalfOpenIsWatched`), so
that a provider is available, or its open circuit cools.

**Balancer.** The invariant of round robin is `MissesAdvanceCursor`: misses of a
provider plus the cursor's distance to any of its places stay below the pool's
length.

**Health.** `ReliableArePerfect` and `PromptScoreHigh`: smoothing keeps a
latency under two seconds and a rate of 1.0 where they are, so the snapshot of
such a provider is perfect, or with failures 0.8 at least, whenever it is
taken, and no best score, torn or not, exceeds 1.0. This discharges
`HealthSparesReliable`, which `FailoverComplete` has as its premise.
`AnswersWhenQuiet` needs `Peak`: after each entry of a pass the best so far
bounds the scores read and is one of them. Hence, if no result came between,
both passes end with the same best, and the third finds its owner within every
tolerance. Over time, `ScoresFollow` and `RecoveryAdvances` speak of a provider
whose node is what it was when the probe under way began: a probe that
straddles a change may report the seconds of the old node for the new one.
Otherwise a good score lasts while the node is fine, and the distance of any
other from a perfect record, a natural number (`Deficit`), falls with every
answer. Latencies are arbitrary in these proofs, and so is the resolution of
the averages, but for `ResolutionAssumption` in `HealthProbing`, six steps at
least: with fewer, rounding down can stop an average short of a good score,
which f64 does not.

**Routing.** `Apart` and `Mapped` keep the names of the chains walked, and so the
map's entries for them, apart. `Walked` says what the validator has found of
the chains behind it, all of it said of the section alone, so that the order
is forgotten; its `CountOfNames` turns the code's running check of duplicates
into the count that `Sound` asks for. `Built` describes what `ProxyState::new`
leaves. Reaching a chain from a URL is then a matter of the query, of which
the last parameter of a name decides: `AnyQueryReachesOwner` holds for queries
of every length, the run checks those of one parameter before the key.

**Policies.** `Served`: only an accepted section is served, and the policy at
hand is the one of the method at hand. That the chosen override is the last of
those that match takes a greatest element of a finite set of numbers,
`Greatest`, which is derived from the well-foundedness of the strict subset
order. The values of the configuration are unrestricted up to what serde's
types say: `PolicyAssumption` has the overrides as a sequence, the ends of a
backoff as natural numbers or missing (`Option<u64>`), and no group under the
name that stands for none.

**Only model-checked**: liveness (`RequestEndsUnlessBodyStalls`,
`StopsUnlessBodyStalls`, `CircuitRecovers`, `ReadyWithoutTraffic`,
`RecoversScore`, `StrictSeparates`), as fairness and ENABLED are beyond the
prover, and the three violated claims, whose counterexamples are behaviours.
What is proved next to them is the safety they need: `IdleChainsHeal` and
`RecoveryAdvances` leave but fairness to `ReadyWithoutTraffic` and
`RecoversScore`. No model defines anything by recursion, so no
induction over data is missing.

## 5. Where code and words part

Three claims are violated by a run each.

* `claim_wedge` – *automatic recovery* (`CORE_LIBRARY_DOCS.md:159`). A circuit
  opens, its time passes, a request half-opens it, another is counted as the
  one attempt allowed; both clients disconnect. Neither future reports an
  outcome, `attempts` is at `half_open_probe`, `is_available` is false, and
  only a request could change that. `HalfOpenIsWatched` and `recovery` show
  that disconnects are the only way there.
* `claim_fallback` – *fallback to all providers if none pass*
  (`health_enhancements.md:36`). The best score counts the providers a retry
  has excluded; the others are measured against the one that just failed, and
  `select` may answer `None` with untried providers left.
* `claim_backoff` – `.expect("invalid backoff configuration")` (`lib.rs:663`).
  One end of a backoff set in a layer meets the other end inherited from
  another, and each request of the method panics. `WholeBackoffsBuild` shows
  that layers which set both ends are safe.

Others are visible as the premise or the slack of a property that holds:

* `half_open_probe` bounds the attempts *counted*; the half-opening request is
  not, nor are those between `is_available` and `on_request_start`.
  `ProbeOverrunBound` says by how much it is exceeded.
* A request admitted before its circuit opened is still sent while it cools:
  `NoAdmissionWhileCooling` speaks of admission, not of sending. A late
  success closes an open circuit without a half-open test (`circuit.rs:118`).
* A body that stalls keeps a request for ever: the exception in
  `RequestEndsUnlessBodyStalls`, against `docs/architecture.md:11`.
* The router percent-decodes names, the validator does not: two accepted
  chains may share a name, and `HashMap` order decides. Hence
  `DecodingNeutral` in `NamesRouteToOwner`.
* A server asked to stop has no time limit of its own, neither for a provider's
  body nor for that of a request it has begun to read: the exceptions in
  `StopsUnlessBodyStalls`. SIGHUP is one of the three signals that make it
  stop, although `main.rs:168` logs "ignoring SIGHUP"; `docs/architecture.md:61`
  has it right.
* A request whose client left is never completed in
  `rpc_request_completions_total` (`CompletedOnce`), so started less completed
  overstates the requests in flight for good.
* `rpc_requests_total` also counts starts and failed attempts
  (`SelectionsAreSettled`), so the panel "Overall Success Rate", success over
  all (`docker/grafana/dashboards/rpc-proxy-overview.json:167`), shows 50 % at
  best.
* Failing probes filter nobody out unless a tolerance is Strict: success is 0.2
  of a score (`FailingStayEligible`).
* Nor does Strict filter a node that takes between two and three seconds for
  good, although the score counts it as slow from two seconds on
  (`service.rs:67`): 0.3 * (1 - 2/3) is the tenth that Strict allows, hence the
  premise `Discernible` in `StrictSeparates`.
* A method without a tolerance gets Balanced (`methods.rs:296`), whatever
  `default_tolerance` or its chain say, where `details.md:359,374` fall back to
  the global tolerance. `NearestLayerDecides` cannot see it: the innermost
  layer is a constant there (`BuiltIn`).
* A chain named like a static route is accepted and cannot be reached in that
  spelling: the router answers 405 (`NamesAreReachable`).
* A probe answer without a number counts as a success at block 0
  (`probe.rs:131`); nothing decides by that block.

## 6. Not modelled

Output: histograms, gauges, spans, logs and exporters, and with them the
second `ProxyState` of the metrics task (`main.rs:20`), which runs health
probes of its own and whose circuits no request ever moves. YAML parsing and
single range checks, among them `ProviderConfig::validate`, glob syntax and
jitter, JSON payloads, the RNG's distribution. Two hazards have no property:
the wait for a backoff that ends with no provider left (`lib.rs:596`) costs
time only, and the models have no lengths of time; the success of an empty
probe answer (`probe.rs:131`) is a single step without a consequence.
Health and request path are joined by the proved interface
`HealthSparesReliable`, not run as one state space; `Frontend` hands
`Gateway` a chain and an override, and `Gateway` takes any. Connections are
left out beyond the body of a request: a client that is slow to read its answer
delays a shutdown as a stalled body does.

## 7. Plan

Done, in order of importance: 1 breaker, balancer and request path; 2 the
failover contract and its refinement; 3 fairness of the cursor; 4 health
results and torn selections; 5 chain routing; 6 method policies; 7 shutdown;
8 readiness; 9 probes over time; 10 counters; 11 the way from the URL to the
chain.

Proved: every invariant and every action property of a run; that the request
path implements `Failover`, and that what surrounds it implements the request
path. Next: the safety that the remaining liveness properties rest on, as
`RecoveryAdvances` has it for `RecoversScore`: a measure for the loop of
`select_provider`, the retries and the backoffs, which falls with every step
of a request (`RequestEndsUnlessBodyStalls`), and the fixed points of a failing
and a slow node's score (`StrictSeparates`).

## 8. Running

    tlc -workers 2 -config MCAccounting_failover.cfg MCAccounting.tla
    tlapm GatewayProofs.tla
