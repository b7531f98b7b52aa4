# TLA+ verification of toto-router

toto-router is a Python gateway that puts one OpenAI-compatible API in front of
many model providers. A request is classified, checked against the policies of
its organisation, answered from a cache or sent to a provider, with retries,
fallbacks and a circuit breaker. Above that it runs *sessions*: long agent runs
whose state lives in Postgres and whose progress clients follow over SSE. The
gateway is deployed as several replicas over one Postgres and an optional Redis.

This directory holds TLA+ modules for the parts where order, failure and time
decide correctness, TLC configurations for small instances, and TLAPS proofs for
every size. Paths below are relative to `src/`; `gw/` stands for
`toto_gateway/`. `PROJECT.json` maps each definition to the lines it models.

## 1. The system

### Parts, their state and their operations

| Part | State | Operations | Hard behaviour |
|---|---|---|---|
| Circuit breaker, `gw/breaker.py` | per provider and process: consecutive failures, `opened_at`; in Redis `breaker:open:<provider>` with an expiry | `allow`, `on_success`, `on_failure`, `peer_open`, `record_open`, `clear_open` | calls that end after the breaker moved on; Redis commands lost; replica dies with its key set |
| Retry and fallback, `gw/resilience.py` | none | `is_retryable`, `backoff_seconds`, `fallbacks` | combines with breaker and policy |
| Gateway, `gw/gateway.py` | in-flight coroutines, breakers, cache, metrics | `complete`, `stream`, `_plan`, `_resolve_smart`, `_apply_budget`, `_finalize` | each `await` lets other requests change breaker and cache |
| Routing policy, `gw/routing/` | per-org policies; label memo (L1, Redis L2), warm conversations | `GuardRouter.decide`, `resolve_fail_policy`, `permits`, smart classify | memo entries outlive the policy they were computed under |
| Exact cache, `gw/cache/exact.py` | in-memory LRU and SQLite | `get`, `put` | two tiers that keep different values for one key |
| Budgets, `gw/budgets.py` | decisions with a TTL | `decide` | concurrent spend inside the TTL; fails open |
| Run store, `gw/runs/` | tables `sessions`, `run_events`, claims, canvas | `create`, `finish`, `publish`, `reclaim_expired_leases`, `subscribe`, claims | several statements per operation, several writers per row |
| Run execution, `gw/sessions_service.py`, `gw/driver/` | a task per run in the process | `execute_run`, `track_run`, the driver's decompose / dispatch / compose | a task goes on after its run was reaped |
| Session routes, `gw/routes/sessions.py` | `live_runs`, `draining` | `create_session`, `create_turn`, `get_session`, `stream_events`, `drain` | check-then-act over awaits; shutdown |
| Background loops, `gw/app/background.py` | none of their own | reaper, refreshers, dreamer, export, retention | every replica runs every loop |
| Wake bus, `gw/wake.py` | waiting subscribers | `notify`, `wait` | wakes may be lost |
| Idempotency, `gw/routes/deps.py`, `gw/runs/claims.py` | claim rows | claim, replay, store | crash between claim and result |
| Accounts, `gw/auth/`, `gw/routes/deps.py` | token rows, memberships, roles | resolve, mint, rotate, switch, revoke, SSO login, SCIM deactivation | each operation is several statements without a transaction |
| Inventory platform, `gw/benchmarking/`, `gw/routing/candidates.py` | refresh operations with lease and fence, snapshots, identities, aliases, the published candidate catalog | submit, claim, renew, commit, settle, recover, prune, synchronise, page | stalled executor against its successor; commits between reads |
| Provider discovery, `gw/benchmarking/providers/` | the walk in progress | page, stop at limits, normalise, judge | cycles, limits, deadlines |
| Catalog adoption and freshness, `gw/routes/admin_catalog_adoptions.py`, `gw/freshness.py`, `gw/auth/policies.py` | adopted entries, library snapshot | adopt, accept price, unadopt, freshness pass | read, await, upsert without a lock |
| Metering and trace, `gw/metering.py`, `gw/trace.py` | trace rows | one row per candidate | partial failure |
| Shipped catalog, encryption, HTTP shapes, console | tables and configuration | CRUD, parsing, formatting | little |

### Interaction

`Gateway.complete` calls the breaker before and after each `runner.chat`, reads
the policy and the catalog in `_plan`, the cache before and after dispatch, and
writes a trace row per candidate. `execute_run` drives a driver that calls the
gateway for each task and publishes spans through the run store; `publish`
renews the lease of the run and wakes subscribers through the bus. The reaper of
each replica, `drain`, and the task of a run all call `finish` on the same row.
Clients combine `get_session` (a snapshot) with `stream_events` (a tail).
Every request resolves its identity, org, policies, adoptions and keys at the
door (`routes/deps.py`) and keeps what it read there while admins change it. The
inventory publishes the models that discovery found to the candidate catalog
which dispatch resolves dynamic models in.

### What makes it correct

* breaker: it counts what happened, no more; neither a local nor a shared OPEN
  sticks; a recovering provider gets one trial.
* dispatch: refused data goes nowhere; perimeter data stays there through every
  retry and fallback; models the organisation denies are not called; a caller's
  own key is used or none; the trace tells what was tried and what answered;
  each request ends.
* streams: no byte twice, no slot lost, one row that agrees with what the client
  saw.
* smart routing: a label and its data label belong together; an operator's
  binding beats cached preferences; a conversation stays where it is warm.
* runs: a live run is not reaped while it speaks; a dead one is; each run ends
  once for its clients, and they all learn of it; a key names one run.
* driver: what must stay local does, titles included; a failing task harms no
  sibling.
* inventory: one owner at a time, a fenced-off writer changes nothing, a reported
  success is backed by complete evidence, catalogs are never torn or older.
* accounts: who is out stays out, a finished revocation leaves nothing behind, an org
  keeps an owner.
* adoption: what is routed to has the id and the price somebody published.

`PROJECT.json` lists each hazard at its line, with the properties aimed at it, or
why there is none.

## 2. Modules

| Module | Models | Checked by |
|---|---|---|
| `CircuitBreaker` | the breaker of one provider, as operators on its state | through `BreakerCluster`, `Dispatch` |
| `BreakerCluster` | replicas with breakers, the Redis key, concurrent resilient calls | `MCBreaker`, `DispatchProofs` |
| `Dispatch` | `Gateway.complete` from arrival to outcome, with budget, cache and keys | `MCDispatch`, `DispatchProofs` |
| `StreamRelay` | `Gateway.stream` and `_sse`: slots, stall deadline, retry, accounting, clients that leave | `MCStream`, `EdgeProofs` |
| `SmartRouting` | classification, label memo (L1, Redis), bindings, ladder, warmth, policy writes | `MCSmart`, `SmartProofs` |
| `RunLifecycle` | session rows, event log, tasks, reapers, drain, SSE clients on several replicas | `MCRuns`, `RunProofs` |
| `SessionDoor` | POST of sessions and turns: limits, idempotency, the row and its task | `MCDoor`, `EdgeProofs` |
| `Driver` | a conversation of driver runs: gate, triage, tasks, weaving, card | `MCDriver`, `DriverProofs` |
| `InventoryLedger` | abstract: what the inventory promises of refresh operations | as a property of `InventoryRefresh`, `InventoryProofs` |
| `InventoryRefresh` | refresh operations under lease, heartbeat and fence, on several replicas | `MCInventory`, `InventoryProofs` |
| `CandidateSync` | how a replica's catalog and a paging client follow the inventory | `MCCandidates`, `CandidateProofs` |
| `ProviderDiscovery` | one discovery: paged walks, limits, normalisation, verdict | `MCDiscovery`, `InventoryProofs` |
| `Accounts` | tokens, memberships, SSO/SCIM, identity resolution, statement by statement | `MCAccounts`, `EdgeProofs` |
| `CatalogAdoption` | adoption handlers and freshness passes over a changing library | `MCAdoptions`, `CatalogProofs` |
| `...Proofs` | the inductive invariants, lemmas and theorems of section 5 | `tlapm` |

**Steps.** Python coroutines on one event loop switch only at an `await`, so what
lies between two awaits is one action, and `pc` names the await a coroutine is
suspended at. Where the shared state is in the database (`RunLifecycle`,
`SessionDoor`, `InventoryRefresh`, `CandidateSync`, `Accounts`,
`CatalogAdoption`), each statement or transaction is an action of its own.

**Time.** Clocks are countdowns, or what is compared with them. `left` of a
breaker is what remains of `reset_seconds` since `opened_at`; `redis[p]` is the
remaining expiry; `lease` is what remains until `lease_expires`. `Tick` (of the
breakers: `ClockTick`) advances them together. State stays finite while time is unbounded. In `InventoryRefresh`
a lease is valid or has expired, and `completed_at` is a rank; in `SmartRouting`
memo and warmth rows have ages, with a bounded number of ticks.

**Mutants.** Each property has a definition next to the one it mutates (comment
"Mutant"): the change a plausible bug would make, under which TLC must find the
property violated.

### CircuitBreaker and BreakerCluster

`Allow`, `OnSuccess`, `OnFailure`, `Trips`, `Snapshot` translate the methods of
`CircuitBreaker`. A call at replica `r` is `Admit`ted when `allow()` says yes,
awaits `peer_open` (`PeerOpen`), is on the wire, and then succeeds, fails
transiently or fails for good. The trip edge publishes the shared key
(`RecordOpen`); the close edge deletes it (`ClearOpen`). Redis commands may fail:
reads then see no key and writes are lost, as the `except` clauses have it.
`Restart` loses a replica's breakers and calls. `streak` is a history variable:
what a perfect observer would count.

### Dispatch

`Arrive`, `Classified` (fail policy and data classification), `BudgetKnown` /
`BudgetRead` / `BudgetDecided` (the cached decision, the read behind it, then
cache, `_plan` and entry of the candidate loop), `PeerClear` / `PeerSkip`,
`UpstreamOk` / `ClearedPeers`, `UpstreamTransient` / `Recorded`,
`UpstreamRefused`, `Backoff`. `Seek` is the part of the candidate loop that has
no await: it skips every candidate whose breaker is open, writing a
`circuit_open` row for each. `Decide`, `Plan`, `Fallbacks`, `Candidates`,
`Cheapest`, `KeyFor` are the pure functions of `routing/decision.py`,
`resilience.py`, `gateway.py` and `runners/openai.py`. `Answer` is what
`routes/chat.py` makes of the outcome.

Abstractions: all requests carry one prompt, so the cache key is the model; a
caller's identity, organisation policies and the verdicts of guard, rules and
classifier are a record `cfg` chosen on arrival; `smart` may pick any catalog
model (`SmartRouting` says which); a peer's OPEN may show up at any time (that it
does not stick is `BreakerCluster`'s business); a default model is configured; a
dynamic model has an offer in every credential scope; every served response costs
one unit of the budget.

### StreamRelay

A stream waits for its slot, pulls items from the runner's iterator (`Items` per
runner: the OpenAI, Anthropic and MLX wire differ in whether and when usage
arrives), yields them through `_sse`, retries with backoff before the first chunk
only (`MayRetry`), and writes its row in the `finally` block (`Finish`).
`Disconnect` cancels the response task at any await: a cancelled await raises
inside the generator, a cancelled send leaves it suspended until the interpreter
collects it (`Collect`). The classifier of a smart stream takes a slot of the same
valve (`Classify`). `iter` is `NoIterator` until `runner.stream` is called: a stream
that is refused while planning, or whose client leaves before, has opened nothing
and may have no row.

### SmartRouting

A turn arrives with the policy in force (`Arrivals`, `RowsFor`, `Effective`), looks
its label up in the memo of its replica and in Redis (`Lookup`, `L2Hit`,
`L2Miss`), classifies (`Classified`, `ClassifyFails`), resolves the label through
bindings, benchmarks and fallbacks (`Ladder`), lets the warm incumbent hold
(`Held`) and is served, which warms the conversation (`Warmed`). Admins replace
policies (`SetOrgPolicy`, `SetTeamPolicy` with their validations) and benchmarks
are refreshed in between. A promotion from Redis uses the default hold, as the
code does. A failed classification keeps the data label it could parse, or has
none. The memo key has the vocabulary and not the taxonomy, as in the code. The FIFO
caps of memo and warmth (1,024 and 4,096 rows) are not reached. A ranking lists the models best first: how scores make one is left out.
The loop around a refresh, `_benchmark_refresher`, imports `routes/admin_benchmarks`,
which the repository does not have; the model has the refresh.

### RunLifecycle

A run's task is `Create`d, publishes (`TaskInsert`, `TaskRenew`), lets its driver
return (`DriverDone`) or raise (`TaskRaises`), and ends. The driver speaks from
several coroutines at once, those its `gather` started: `Worker`. `span[r][w]` is the
`publish` of one of them, with its own clock reading (`DriverSpan`, `SpanInsert`,
`SpanRenew`), so renewals of one run land in any order, and `SpanRenew` writes its
value whatever the row holds by then.
`SpanLost` is the `except` of `_emit`; `TaskDies` is a failure nothing
catches. `Reclaim` is the reaper's `UPDATE ... RETURNING`, the `Sweep*` actions
are `finish(failed)` of what it got, statement by statement; `drain` uses the
same ones. `Crash`, `Exit`, `Restart` are processes. Clients `Connect` at the
start or take a snapshot with two reads, then `Deliver`, lose the stream at each
heartbeat (`Heartbeat`: `asyncio.wait_for` cancels the generator's `__anext__`,
which finishes the generator, so the response ends after the comment) or by a
`Drop`, and `Reconnect` with `Last-Event-ID`.

`due`, `quiet` and `torn` exist because `publish` reads the clock once, before its
INSERT, and writes `ts + lease_ttl` after it: `due` (of a task, and of each worker) is
what remains of that value, `quiet` counts the ticks since the newest `ts` among the
events, and `torn` remembers which `finish` was cut in two, which newest event was
left without its renewal, and where an older renewal moved the lease back. `held` of a
sweep counts how long a reaper has been at its list; sweeps may take any time.

### SessionDoor

A handler tests draining and capacity (`Arrive`), for a turn reads the conversation
(`ReadTurns`), charges rate and quota (`ChargeRate`, `ChargeQuota`), claims its
Idempotency-Key or replays what was sealed under it (`Claim`, `Lookup`), inserts
the row (`Create`), starts the task (`Start`) and seals the key (`Seal`). `Fail` is
a database error at any of them; a replica may crash or drain between any two. What
a run does afterwards is `RunLifecycle`'s: here it ends, or is reaped once nobody
works on it.

### Driver

One conversation. `Post` gates the raw query; `Triage`, `Trivial`, `Decomposed`
(with the repair prompt and the escalation to another model), then the tasks, each
through the seams of `dispatch.py` in order (`Embed`, `Binding`, `Label`, `Knn`,
`Recheck`, `Pick`) and its execution, `Gather`, `SynthesizeDone`, `Card`. Texts are
model values: a query, a task, its title `H`, its result, an answer. `secret` is the
set of those the code says must stay inside, `out` those of them that left, with the
path: `run` for the calls of the run, `blocked` for the title of a task the residency
gate stopped (`Stopped`: it does not pin the run, and the weaving names every task),
`toto` for list names and items (`Filed`), `history` and `card` for what a run leaves
to the next. Toto is told titles and descriptions by design ("metadata only",
`core.py:600`); the path records it and no property forbids it. Toto calls are best
effort and may fail. Documents and the recall memory are stores of the gateway
itself and send nothing out.

### InventoryLedger and InventoryRefresh

`InventoryLedger` has four actions: an operation is accepted, begins a new term,
takes evidence under its current term, settles. `InventoryRefresh` has replicas
that `Submit` under a key, `Claim` a lease, `Discover`, send and apply a commit per
provider (`CommitSend`, `CommitApply` with the fence compared in the transaction),
`Settle`, while a heartbeat `Renew`s, fails or stalls, the lease expires, replicas
stop and start, `Recover` resumes what nobody holds, keys are stored, deleted or
lost and other scopes commit. `ImplementsLedger` maps executions to terms and
committed snapshots to evidence.

### CandidateSync, ProviderDiscovery

`CandidateSync`: SELECTs of a synchronisation (`Read`, `Fetch`, `Confirmed`,
`Publish` under `_hydration_lock`) and of a paging client (`InspectPin`,
`InspectPage`) with commits and expiries between any two. A query asks for the
available identities or for all, and for any, one by id, or one by a provider's
source id; `Matches` is its WHERE clause. Only "available" is answered from the pinned
snapshots alone: "all" reads every offer of the scopes there ever was (`history`), a
source id the aliases as they are (`alias`), which commits move (`Rename`), those of
partial snapshots and of other scopes included (`CommitOther`). `matched` is an
observer: what has met the query always, and ever, since the first page.

`ProviderDiscovery`: the upstream is a graph of pages chosen once, cycles included;
`WalkPage` with its limits, `WalkFails`, the deadline, `Normalize`, `StatusOf`.
`AccountId` are the ids that match `_ACCOUNT_ID_RE`; an account with another one is
passed over, as in the code.

### Accounts, CatalogAdoption

`Accounts`: every operation is a coroutine over its SQL statements, none in a
transaction with the next; `JobsOf` says which operations meet. The bulk revocation
is the widest one, of a whole org with sessions and service tokens. `left` and
`doomed` are history: who has been deactivated and not added since, and which
credentials a revocation found in its scope (a switch that binds a session to another
org takes it out again). `CatalogAdoption`: admin handlers read, await and upsert;
passes fetch, write the snapshot row by row, then auto-adopt; `published`, `alone` and
`clean` are history. A price may be 0: what OpenRouter does not price is 0.0 in the
snapshot and can be accepted.

## 3. Runs

Sizes are distinct states.

| Run | Question | States |
|---|---|---|
| `breaker` | two replicas, two concurrent calls, failing Redis, restarts | 37,666 |
| `dispatch` | a request in every listed configuration beside one sharing breakers, cache and budget | 263,190 |
| `stream` | two streams, one slot, failing and stalling upstreams, clients that leave | 325,622 |
| `smart` | two turns of a conversation, two replicas, Redis, policy and benchmark changes | 3,065,650 |
| `runs` | one run, two replicas, sweeps of any length; two publishers, or one and a fault, or a tailing client | 495,834 |
| `door` | a turn, its repetition and a session over two replicas, a crash or deploy anywhere | 95,102 |
| `driver` | two turns of two tasks in three setups, one of three tasks in two | 404,247 |
| `inventory` | two replicas, an operation over two providers, a fault, a change of the key | 506,128 |
| `candidates` | two partitions, three synchronising coroutines, or a client that pages through every kind of query | 369,148 |
| `discovery` | 40 providers by 9 configurations | 23,086 |
| `accounts` | four operations of 3, 7, 6 and 4 kinds | 1,263,799 |
| `adoptions` | two admin requests, two passes, a changing library | 4,278,790 |

All pass. What they show:

* `OpenIffStreak` — a breaker is open exactly when its replica saw `Threshold`
  transient failures without a success, however late calls end.
  `NoBreakerSticks` — neither a local nor the shared OPEN lasts.
* `TraceHonest` — rows, wire and answer tell one story: one row per candidate left
  behind, in order, exactly one ok row for a request that was answered, naming the
  model that did. `RefusedNeverServed` — a denied, fail-closed or over-budget
  request is neither sent nor answered from the cache (a guard-blocked one is never
  sent, but the cache is read before the guards run), and a budget refuses only
  what is spent, whatever was cached. `StaysInPerimeter` — given an in-perimeter
  entry, pinned data stays there. `OwnKeyOrNone` — never the platform's key for
  a provider the caller has a key for. `EveryRequestEnds`.
* `NoReplay`, `ValveHolds`, `EveryStreamEnds` — see the
  properties' comments; the last includes that a stream is not starved of its slot.
  `TraceTellsClient` — a stream that opened its upstream leaves exactly one row,
  whether or not its client stayed; a client that stayed saw an error event exactly
  when no row says ok.
* `LabelsTravelTogether`, `BindingsBeatWarmth`, `ToolsReachTools`,
  `WarmConversationStays`.
* `LiveRunReapedOnlyWhenSilent` — with its three exceptions: the reaper may strike
  between the INSERT of the newest event and the renewal that belongs to it, after a
  renewal that failed, and after the renewal of an older event landed last; the last
  shortens the silence by no more than a `publish` takes. `NoDoubleReap` — two reapers
  hold one run only when one has been at its list for nearly a lease.
  `TerminalAnnounced` — a finished run has its terminal event,
  or somebody is about to write it, or a `finish` was cut off. `EveryRunEnds`,
  `TailLearnsEnd`.
* `KeyNamesOneRun`, `EveryRunRowEnds` — across repetition, crash and deploy.
* `LocalStaysLocal` — queries, tasks, titles and results; not the title of a task that
  was stopped at the gate, see section 4. `SiblingsSurvive`, `ItemsSettle`,
  `EveryDriverRunEnds`.
* `ImplementsLedger` — the refinement; `OutcomeBacked` — what an operation reports
  is in the inventory, under the scope it was planned for; `AliasesMoveForward`;
  `EveryOperationSettles`.
* `CatalogNotTorn`, `CatalogMovesForward`, `CatalogConverges`. `PagesAddUp` — pages of one
  revision miss nothing that met the query throughout and hold nothing that never
  did; for the available identities and for one identity they are exactly what the
  revision lists.
* `SuccessIsComplete` — complete for the accounts whose id the adapter can put into a
  path. `EveryDiscoveryEnds`.
* `DeactivatedStaysOut` — in that org; what a user who left the last one keeps is
  another matter, see `LockoutIsTotal`. `RevokedStaysRevoked` — none of the credentials a
  finished revocation found in its scope is there or comes back, whatever rotations,
  switches, logouts and other revocations did to the same rows. A credential minted
  meanwhile is not its business, such as the successor of a token that a rotation
  had read before.
* `AdoptionHonest`, `PassSettlesFlags`.

### Bounds

* `breaker`: `Threshold = 2` separates counting from tripping, `Reset = 2` a window
  from its last tick, `MaxRetries = 1` a first attempt from a retry; two calls are
  what a late answer needs; providers do not interact, so one is enough.
* `dispatch`: two cloud models on two providers, two boxes behind one host (a trip
  of one opens the other), a fake and a dynamic entry. `MCDispatch` varies one field
  of the configuration at a time, most of them together with `model` or `permits`,
  and `degraded` with `closed`; the full product is out of reach. With a budget
  (`Spent`) the fields that meet it vary. `Retries = 1`, `Threshold = 2`: both "trip
  on the first candidate's retry" and "tripped by the other request" occur.
* `stream`: one slot for two streams is the smallest contention, and one of them is
  smart, so its classifier competes too; one delta separates before from after the
  first chunk; one retry.
* `smart`: the second turn may come from a team of the first one's org or from
  another org with the same opening; a tick, a policy change and a refresh suffice
  for an entry to be stale in each way. Safety only.
* `runs`: one run, since runs share nothing but the sweepers' lists; two replicas, so
  that one may die and the other reap; `Ttl = 2` (a lease can be half gone), a `publish`
  of one tick. Two events of the driver, which is what a renewal out of order needs, or
  one and a fault (`OneTrouble`): both together are left to the proof, which covers any
  number. Replicas and workers are alike; instead of a symmetry set, which liveness
  does not allow, the first of each comes first (`FirstOfEach`). The client reads row
  and log and is read by nobody: it meets one publisher, one reaper and no delays
  (`ClientAlone`).
* `door`: three requests pairwise share a key, a conversation or a replica; `Cap`,
  `RateLimit` and `Quota` are met and exceeded.
* `driver`: two turns (history), two tasks (siblings), one retry; setups with
  everything on, with bindings and Toto, and without a box. Two more, without a box and
  with box and Toto, have three tasks and one turn, so that two results are woven
  beside a third that was stopped. Plans are listed up to the order of their tasks.
* `inventory`: one operation, two executors; `Lag = 1` lets a clock be behind by one
  discovery; the second scope's commits stand for other operations on the aliases.
* `candidates`: up to three snapshots of a partition, two operations beside the
  maintenance loop. Pages of one identity, a source id that may come to name either of
  two identities, one of which partial or foreign snapshots may offer first. Coroutines
  and client read the inventory and nothing of each other, so each is explored without
  the other (`Synchronising`, `Inspecting`).
* `discovery`: limits are met exactly and exceeded by the graphs listed.
* `accounts`: every pair of an operation that takes access away and one that gives
  or binds it, with a third of either sort and a request beside them; two may be rotations
  of one token, two bulk revocations; two credentials are minted in a behaviour.
* `adoptions`: two models whose suggested ids collide, one suffix taken by the shipped
  catalog, one library change. The passes are symmetric. Safety only.

Where an instance leaves out a combination, its MC module says so with a predicate on
the states it explores; the fairness is the one of the module.

Deadlock checking is off where the instance has finitely many requests to serve and
then stops.

### Fairness

* `BreakerCluster`: only `ClockTick`. Calls promise nothing, as a provider may hang.
* `Dispatch`, `Driver`, `ProviderDiscovery`: progress as a whole. The event loop runs
  what is ready, the outbound valve `_llm_sem` (`gateway.py:901`) serves in arrival order, and each await has a bound: `runner.chat` a timeout, Redis fails
  open, the classifier `label_timeout_ms`, sleeps a cap, discovery a deadline.
* `StreamRelay`: each stream moves; the stall deadline ends a wait on an upstream.
  Strong fairness for the slot, because `asyncio.Semaphore` serves in arrival order.
* `RunLifecycle`: time, reaper ticks, restarts (the orchestrator's), the
  statements of a `publish`, of a task or of a worker, or of a sweep (pool and connection timeouts turn a
  stuck statement into a failed one), clients that read and reconnect. Drivers
  promise nothing: `EveryRunEnds` holds although a driver may hang.
* `SessionDoor`: handlers of a live replica go on, started runs end
  (`RunLifecycle`), the reaper runs somewhere, replicas come back.
* `InventoryRefresh`: awaits end, an unrenewed lease expires, the maintenance loop
  runs, stopped replicas are restarted. `CandidateSync`: the loop starts rounds,
  statements return; strong fairness because `asyncio.Lock` is fair.

### Timing assumptions

`RunLifecycle`: a `publish` takes at most `MaxPublish` ticks, fewer than `Ttl`:
`run_timeout` is 600 s, the pool gives up after 10 s. Without it a renewal could be in
the past when it is written. Nothing is assumed of sweeps: `NoDoubleReap` says what a
stalled one costs. Clocks of replicas agree, here and in `CatalogAdoption`, where each
pass stamps its rows with `time.time()` of its own replica (`freshness.py:179`): a row
stamped by a clock that is ahead would outlive a later lone pass, and
`PassSettlesFlags` says nothing of that.

## 4. Known divergences

Each is a property that states what a comment or document says, and a
configuration under which TLC finds a behaviour of the code that violates it.
`PROJECT.json` quotes the lines. Where the table names the configuration of a run,
the property takes the place of the ones listed there; a file with several claims is
run with one of them at a time.

| Property | Configuration | Says | The code |
|---|---|---|---|
| `OneTrial` | `MCBreaker_OneTrial` | `breaker.py:5`: one trial in HALF_OPEN | `allow()` does not mark the trial as taken |
| `WirePermitted` | `MCDispatch_Claims` | `gateway.py:454`: a denied model never reaches the wire | fallback candidates are not checked against `permits` |
| `NeverLeavesPerimeter` | `MCDispatch_NoBox` | `openwiki/architecture/routing.md:90`: sensitive work never lands on a cloud model | with no in-perimeter entry the rule falls through |
| `FastFailTouchesNoWire` | `MCDispatch_Claims` | `routes/chat.py:112`: no wire was touched | an earlier attempt or candidate was on the wire |
| `NeverSilent` | `MCRuns` | `runs/sessions.py:39`: silence is never the signal | status and event are separate statements |
| `SnapshotPlusTail` | `MCRuns` | `routes/sessions.py:4`: snapshot plus tail covers every event | row and `last_seq` are separate reads |
| `ReapedOnlyAfterTimeout` | `MCRuns` | `runs/store.py:288`: reclaimed after no event for `run_timeout` | a renewal for an older event may land last and move the lease back |
| `TurnsSequential` | `MCDoor_Turns` | `routes/sessions.py:186`: only one turn is ever running | tested several awaits before the insert |
| `EqualIdentitiesConverge` | `MCInventory` | `platform_store.py:495`: equal concurrent writes converge | `created_at` is part of the compared content |
| `RevisionFixesPages` | `MCCandidates` | `platform_store.py:927`, `:994`: pages of one chosen snapshot view | "all" and source ids read offers and aliases as they are |
| `NoAccountPassedOver` | `MCDiscovery` | `fireworks.py:88`: the credential is the authority on which accounts it can reach | an account with an ill-formed id is skipped silently |
| `BlockedTitlesStay` | `MCDriver` | `driver/dispatch.py:115`: block, never fall to frontier | a stopped task does not pin the run, and the weaving names it |
| `LocalOutputStays` | `MCDriver` | `driver/core.py:329`: query and results never reach frontier | they are history of the next turn |
| `DisconnectRecorded` | `MCStream_Disconnect` | `gateway.py:1152`: a disconnect is recorded | a cancelled await leaves the status ok |
| `ClassifierGuardsOrg` | `MCSmart` | `admin_routing.py:593`: the classifier guards the whole org | a team's policy replaces the org's, classifier included |
| `OrgKeepsOwner` | `MCAccounts` | `tenancy.py:191`: the last owner cannot be demoted | owners are counted before the write |
| `LockoutIsTotal` | `MCAccounts` | `auth/sso.py:249`: total lockout | a switch between the DELETEs takes a session out of the second |
| `IdNeverRepoints` | `MCAdoptions_Claims` | `admin_catalog_adoptions.py:289`: an id is not repointed | the upsert overwrites what came in between |
| `RemovedMeansUnlisted` | `MCAdoptions_Claims` | `freshness.py:82`: removed means no longer returned | torn passes leave mixed `last_seen` |

## 5. Proofs

The theorems hold for every value of the constants that satisfies the named
assumption of the module: any number of requests, streams, replicas, workers,
models, providers and keys, any limits. Each rests on an inductive invariant,
which TLC checked on the instance of the run before it
was proved: initially true, kept by every action (one step of the proof per
action), and strong enough for the property. It is `IInv` of the proof module. Where a
proof module is about a second component, which shares no variable with the first,
that one has its own: `BreakersOk`, `DoorInv`, `AccountsInv` with `RevokedInv`,
`DiscoveryInv`.

Every safety invariant and every action property a run checks is stated by one of these
theorems, with the definition the run checks.

| Theorem | States | Assumes |
|---|---|---|
| `DispatchProofs!AlwaysOwnKeyOrNone` | `OwnKeyOrNone` | `DispatchAssumption` |
| `DispatchProofs!RefusedAlwaysStopped` | `RefusedNeverServed` | same |
| `DispatchProofs!AlwaysInPerimeter` | `StaysInPerimeter` | same |
| `DispatchProofs!TraceAlwaysHonest` | `TraceHonest` | same |
| `DispatchProofs!BreakerCorrect` | `TypeOK`, `OpenIffStreak` of `BreakerCluster` | `BreakerAssumption`, `ClusterAssumption` |
| `EdgeProofs!ValveAlwaysHolds` | `ValveHolds` | `StreamAssumption` |
| `EdgeProofs!NeverReplayed` | `NoReplay` | same |
| `EdgeProofs!ExactIsReported` | `ExactMeansReported` | same |
| `EdgeProofs!TraceAlwaysTells` | `TraceTellsClient` | same |
| `EdgeProofs!KeyAlwaysNamesOneRun` | `KeyNamesOneRun` of `SessionDoor` | nothing |
| `EdgeProofs!DeactivatedHaveNoRow` | `AccountsInv`: who was deactivated has no membership row | `AccountsAssumption` |
| `EdgeProofs!DeactivatedAlwaysOut` | `DeactivatedStaysOut`, an action property | same |
| `EdgeProofs!RevokedAlwaysStays` | `RevokedStaysRevoked` | same |
| `RunProofs!RunsCorrect` | `TypeOK`, `LiveRunReapedOnlyWhenSilent`, `NoDoubleReap`, `TerminalAnnounced` | `RunAssumption` |
| `RunProofs!TerminalAlwaysAnnounced` | `TerminalAnnounced` | same |
| `InventoryProofs!OutcomeAlwaysBacked` | `OutcomeBacked` | `RefreshAssumption` |
| `InventoryProofs!AliasesAlwaysForward` | `AliasesMoveForward`, an action property | same |
| `InventoryProofs!RefreshImplementsLedger` | `ImplementsLedger`, the refinement | same |
| `InventoryProofs!SuccessIsAlwaysComplete` | `SuccessIsComplete` of `ProviderDiscovery` | `DiscoveryAssumption` |
| `CandidateProofs!CatalogNeverTorn` | `CatalogNotTorn` | `SyncAssumption` |
| `CandidateProofs!PagesAlwaysAddUp` | `PagesAddUp` | same |
| `CandidateProofs!CatalogAlwaysForward` | `CatalogMovesForward`, an action property | same |
| `SmartProofs!LabelsAlwaysTogether` | `LabelsTravelTogether` | `SmartAssumption` |
| `SmartProofs!BindingsAlwaysBeatWarmth` | `BindingsBeatWarmth` | same |
| `SmartProofs!ToolsAlwaysReachTools` | `ToolsReachTools` | same |
| `SmartProofs!WarmAlwaysStays` | `WarmConversationStays`, an action property | same |
| `DriverProofs!LocalAlwaysStays` | `LocalStaysLocal` | `DriverAssumption` |
| `DriverProofs!ItemsAlwaysSettle` | `ItemsSettle` | same |
| `DriverProofs!SiblingsAlwaysSurvive` | `SiblingsSurvive`, an action property | same |
| `CatalogProofs!AdoptionAlwaysHonest` | `AdoptionHonest` | `AdoptionAssumption` |
| `CatalogProofs!LonePassSettles` | `PassSettlesFlags` | same |

The assumptions say that thresholds, limits and capacities are natural (positive
where zero means nothing), that sets the code keeps in memory or in a table are
finite, that a catalog is a sequence of models without duplicates, that the
sentinels are no models, no prices and no rows, that no local model bears the slug of a
library, and that the intent of a refresh names each provider once,
as its validation has it (`NonEmptyAndUnique`); that the membership table starts with one
row per user and org, its primary key (`auth/schema.py:95`), and the token table with
proper rows; that a `publish` is shorter than the lease; and of a provider that each list
it serves has a first page and that a next page it names is one of the list. Nothing is assumed of breakers,
peers, upstreams, clients or schedules.

### The inductive invariants, and why they are needed

**Breakers.** A call in its backoff has an attempt left: without it, `Retry` could leave
the type of `attempt`. `ClosedBelowThreshold`: a closed breaker which does not trip
has counted less than `Threshold`, which is what makes `fails` and `streak` move
together.

**Dispatch.** `OK` says of each request, from its own record, rows and wire, where it
can be: before the loop it has no candidates, rows or traffic (`Untouched`); in the loop
its rows are the candidates before `i`, one each, none of them ok, and once past the
peers' word the last model on the wire is candidate `i` (`InLoop`); at the end the outcome decides what the rows look like
(`Ending`, `Outcome`). `Keys` ties `charged` to keys the caller did not store,
`Refusing` keeps a refused request away from wire and cache, `Local` says that the
candidates of a request bound to the perimeter are in it, all of them, which is
why a fallback cannot leave it. For the budget, the invariant carries the spend
through its three hiding places: a decision cached as over, a decision read and not
yet applied (`over`), and the outcome. That `Spend` never falls makes them last.
The breakers occur nowhere: what they admit or skip cannot break these properties.

**Streams.** A stream holds a slot exactly at the statements between acquire and release
(`Slotted`), and free slots and holders add up to `Slots`: without the sum, a
release by one stream says nothing of the others. `OneAttempt`: nothing is sent before
the first chunk, and what was sent is of the current attempt, so a retry cannot replay;
`Metered`: counts come from the iterator being read; `Story`: no row and no error before the
end, then the row for a stream that opened its upstream, wherever it was when it
ended, and what `_sse` still has to say.

**Runs.** `LeaseInv`, for a live running run: unless the renewal of the newest event is
still to come (`Renewing`), `lease + quiet >= Ttl`; and if an older renewal landed last,
`lease + quiet >= Ttl - MaxPublish`, because it too was read at most `MaxPublish` ticks
before it was written. A lost renewal of the newest event says nothing. Which event a
pending renewal belongs to is read off its value: `Newest` holds when
`due + quiet >= Ttl`, and that is why `due` is kept per publisher. An expired lease then
means `Ttl` ticks of silence or one of the three exceptions. `HeldInv`: a run in a
reaper's hands is over, or its lease and the time it has been held add up to nearly
`Ttl`, so the `WHERE` of another reaper can select it only after a stall; it rests on
`Reclaim` pushing the lease. `Shape`: workers are inside `publish` only while the driver
runs, a sweeper at "event" has already written its status, resting sweepers hold
nothing, only a run that was created is alive: `TerminalAnnounced` needs it at each
step that hands an announcement on.

**The door.** A claim has one owner (`OneOwner`), a handler between its claim and its
answer finds the key still claimed and, before its INSERT, no run under it
(`HandlerInv`), and a key names at most one run, the one it was sealed with (`KeyInv`).
No assumption on the constants is used.

**Accounts.** `DeactivatedStaysOut` speaks of a request resolved at a step; the invariant has to
speak of the table. `LeftAreOut`: who was deactivated in an org and not added since has
no row there. That a DELETE leaves none rests on `MembershipsOK`, one row
per user and org, which each INSERT keeps because it is `ON CONFLICT DO NOTHING`, whatever
was read before it. `OperationsOK` says whom an operation is about. For
`RevokedStaysRevoked`, `RowsOK` types the token table, and `DoomedOK` says of each
credential a revocation found that it is gone, or that the revocation is under way and
the credential is still in the scope of a DELETE to come. The first half lasts because
no statement writes a row that is gone: a rotation updates by hash and mints into a
new row. The second lasts because only a switch changes what a row is bound to, and
purposes are deleted in a fixed order.

**Refresh operations.** `Exec`: while a task holds the row, term and scope are the row's,
and the snapshots of the term are those of the first `k - 1` providers of the plan, with the
outcomes it got. A task whose lease was taken over is not `Exec`, and the fence of
`commit` and `finish` is exactly what keeps it from writing. `OpInv` ties a
terminal status to the snapshots behind it; `AliasInv` keeps decisions behind the
discoveries they come from. For the refinement each action of `InventoryRefresh` is
shown to be a step of the `InventoryLedger` or a stutter, under this invariant.

**Discovery.** "All rows" is defined without the walk: a page is reachable when every set
that has the first page and is closed under "next" has it. `Progress` says where a walk
stands: the tokens it knows are reachable, it has the rows of all of them but the one it
asks next, and their next pages are known too. A page without a next one therefore
closes the set, which then holds every reachable page; a token seen before, an
exceeded limit or an error ends the walk as incomplete. `Covered` says the same of
sources: those read and those still to be read are all there are, as long as nothing was cut off and
every walk was complete; before the accounts are known (`Enumerating`) their list is all there
is to do. The accounts are those `AccountId` lets through, in the definition as in the walk. `OfferedIsServed` and `OfferedIds` carry it through the normalisation, so a
status "success" can only be computed from all rows of all sources.

**The catalog of a replica.** `SyncInv`: the lock has one holder; the partitions
it left out agree with the published catalog, and what it read of the others are the
offers of the revision it noted, or a newer snapshot has been committed since, in which case the
confirmation fails: the swap cannot tear the catalog. `ReaderInv`: what a
client has collected met its query at some time, what met it throughout and lies below
the cursor is collected, and for a query the revision answers it is exactly what the
pinned snapshots have below the cursor.

**Smart routing.** `TurnOk`: a turn underway has the cache key of the policy it arrived
with, a label it holds was said of its conversation and is in its vocabulary, and a routed
one went where binding and tools demand. `RowOk`: a memo row, in either tier, holds a
pair that was said, with a label from the vocabulary in its own key; a hit has the
turn's key, so the label suits the turn's policy whatever was stored since. `WarmOk`: a
warmth row was left by a served turn and is not older than the ticks since;
`Remembered`: every served conversation still has its row. Together they say which
model the hold finds, which is what `WarmConversationStays` is about; nothing is
assumed of rankings, so a refresh may come between any two steps.

**The driver.** What leaves depends on three flags raised at different times: the query is
secret from the gate, a task from its decision, a result before it exists. `RunOk`: a
secret query means a pinned run, a pinned run has a box (unless it was refused), and
its reasoning calls, with every fallback they have left (`Safe`), are inside.
`PlaceOk`: a task with a secret is pinned unless it was stopped, a pinned one is at no
seam outside, and its execution is `Safe` and no agent's. `Gather` raises the run's pin
before it weaves, so a woven result that is secret meets a run that is pinned, and so does
the title of a task that was not stopped; a stopped one's is told on the path `blocked`.
`SecretOk` keeps the secrets of one run away from the slots of the next. `ItemOk`: an item
is in progress only while its task runs or after a Toto call failed.

**Adoption and freshness.** No handler re-reads before it writes, so honesty has to
travel with what a handler holds across its awaits: `ReqOk` says that a request past its
read carries a model and a price that were listed together, and an id that passed the
naming rules (for `accept_price`: the id of a row that was honest when it was read);
`SnapOk` and `PassOk` say the same of snapshot rows and of what a pass fetched.
`published` only grows, so all of it stays true while the provider changes. For the flags,
`LoneOk` follows a pass that runs alone: its `now` is the newest time, the models it has
stored so far are exactly those with that time (`Stands`), and nobody else is active.
What it leaves is `CleanOk`: listed models stored at the newest time, all others older,
which is how `provider_checked_at` tells them apart. A request never writes the
snapshot, and an overlapping pass ends the claim when it begins.

The type invariants, and `ExactMeansReported`, are proved and not part of a listed run.

### Lemmas about data

A catalog is filtered by a recursive function (`Kept`), and what it returns is proved
without an induction scheme: a counterexample has a least length (`Least`, from
the well-foundedness of `<` on the naturals), and the defining equation refutes it there. The same lemma
shows that a cheapest entry exists (`CheapestIs`) and that the first of a ranking which
is in a set is found when there is one (`MinIs`, `FirstInIs`). The loops of a discovery are
recursive functions as well (`Picked`, `Joined`): `PickedIs`, `JoinedIs` and `FirstsHaveAllIds` say
which elements they return, by the same argument (`LeastOf`). `MaxOfFinite` does the same for the
latest snapshot. Cardinalities of the holders of slots and of served requests come from
the finite set theorems.

### Only model-checked

Liveness, which needs fairness and `ENABLED`: `NoBreakerSticks`, `EveryRequestEnds`,
`EveryStreamEnds`, `EveryRunEnds`, `TailLearnsEnd`, `EveryRunRowEnds`,
`EveryOperationSettles`, `CatalogConverges`, `EveryDiscoveryEnds`,
`EveryDriverRunEnds`.

## 6. Not modelled

The definitions stand for about 9,700 of the 30,500 lines of `toto_gateway/`
(comments included). The rest:

* LRU eviction and the SQLite tier of the exact cache; content capture and the
  copies of traces to other sinks.
* The status `cancelled` and the cooperative cancel of the companion lane, board
  channels, `prune_deltas`, retention, canvas, dream-run claims, the wake bus's
  listener (a lost wake is only a delay: `Deliver` may happen at any time).
* The retry of `publish` on a seq conflict (taken to succeed).
* Of dispatch: the valve `_llm_sem` of `complete` (a wait that ends, part of the
  fairness); a catalog without a default model (`gateway.py:429`); a budget's limit and
  month are constant; none, one or all of a caller's stored keys are unreadable.
* Of smart routing: the kill switch and the per-org off (`gateway.py:330`), which leave
  the request to `Dispatch`.
* Of the inventory: the CHECK and the unique index on aliases (`migrations.py:54`), by
  which Postgres would reject what `CommitApply`, one atomic transaction, never
  writes; one state of the key for all providers of a plan, whose scope is a user's.
* Price overrides, the shipped catalog file, benchmark ingestion and scoring,
  labelling of stored traffic: conversions, and CRUD with single statements.
* Metering rollups, analytics, audit export, metrics: aggregation of rows.
* Registration, e-mail verification, OIDC exchange, encryption, egress allowlists:
  single statements, lookups and cryptography.
* Prompt texts, wire formats, HTTP shapes, configuration, schema and migrations, the
  web console: data and pure I/O.

## 7. Plan

1. The two-tier cache; dream-run claims; retention against tailing clients.
2. Seq conflicts of `publish`, with the eighth lost race.
