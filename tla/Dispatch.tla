------------------------------ MODULE Dispatch ------------------------------
(***************************************************************************)
(* Gateway.complete (toto_gateway/gateway.py): a non-streaming request     *)
(* from arrival to its one outcome and the answer routes/chat.py makes of  *)
(* it, with the decision pipeline of _plan, the exact-match cache, the     *)
(* monthly budget (budgets.py), the fail policy and the breaker / retry /  *)
(* fallback loop, for requests of one org that run concurrently on one     *)
(* replica.                                                                *)
(*                                                                         *)
(* A request is a coroutine; what it does between two awaits is one step.  *)
(* pc names the await: classify (_resolve_smart, _resolve_data_policy),    *)
(* budget and alert (BudgetEnforcer.decide before and after it reads the   *)
(* spend), peer (peer_open), wire (runner.chat), record / clear (span and  *)
(* Redis after a trip / a close) and sleep (backoff).                      *)
(*                                                                         *)
(* Abstractions.  All requests carry the same prompt and body tenant, so   *)
(* the cache key is the request's model; of the cache, the memory tier     *)
(* without eviction.  What a caller brings and what its organisation       *)
(* configured is the record cfg: permits is the set of models              *)
(* Policy.permits allows (the org allowlist folded in).  The classifier's  *)
(* verdicts are part of cfg; the model it picks is any model of the        *)
(* catalog.  peer_open is a free choice: BreakerCluster models it.  A      *)
(* trace row is reduced to its model and status.  Every served response    *)
(* costs one unit of the budget; the month does not change, and threshold  *)
(* alerts are left out.  A dynamic model has an offer in every credential  *)
(* scope.                                                                  *)
(***************************************************************************)
EXTENDS CircuitBreaker, Sequences, FiniteSets, Functions

CONSTANTS
  Req,          \* concurrent requests
  Caps,         \* what the org's budget row says to do when it is spent, or none
  ConfigsOf,    \* ConfigsOf[a][q]: the configurations request q may come with
  Limit,        \* monthly_usd of the budget row
  Model,        \* every model that resolves: catalog entries and dynamic ones
  Catalog,      \* catalog.models, in order
  Perimeter,    \* models with residency_class in_perimeter
  Fake,         \* models with endpoint fake
  Frontier,     \* models of lane frontier
  Dynamic,      \* models of lane provider
  ProviderOf,   \* provider_key(base_url) of a model
  Byok,         \* providers a caller may store a key for
  Price,        \* prompt + completion price of a model
  DefaultModel, \* the policy's default_model
  Smart, Empty, Unknown,  \* the sentinel, an omitted model, an unknown id
  NoModel,      \* no cached response / no entry
  Retries

ASSUME DispatchAssumption ==
  /\ IsFiniteSet(Req)
  /\ Catalog \in Seq(Model)
  /\ \A i, j \in DOMAIN Catalog : Catalog[i] = Catalog[j] => i = j
  /\ Perimeter \cup Fake \cup Frontier \cup Dynamic \subseteq Model
  /\ Dynamic \cap Range(Catalog) = {}
  /\ DefaultModel \in Model
  /\ {Smart, Empty, Unknown, NoModel} \cap Model = {}
  /\ Byok \subseteq {ProviderOf[m] : m \in Model}
  /\ Retries \in Nat
  /\ Price \in [Model -> Nat]
  /\ Limit \in Nat \ {0}
  /\ \A a \in Caps : \A q \in Req : \A c \in ConfigsOf[a][q] :
       /\ c.model \in Model \cup {Smart, Empty, Unknown}
       /\ c.guard \in {"allow", "downgrade_local", "block"}
       /\ c.degraded # "none" => c.model = Smart
       /\ c.keys \subseteq Byok /\ (c.keys # {} \/ a # "none" => c.user)

Provider == {ProviderOf[m] : m \in Model}

VARIABLES req,     \* req[q]: the coroutine
          rows,    \* rows[q]: trace rows written, in order
          sent,    \* history: sent[q] the models put on the wire, in order
          charged, \* history: charged[q] the providers called with the platform's key
          br,      \* br[p]: the replica's breaker for provider p
          cache,   \* cache[m]: model whose response is cached under key m
          cap,     \* the action of the callers' budget
          verdict  \* the cached budget decision: clear, over, or none unexpired

wire == <<sent, charged>>
vars == <<req, rows, sent, charged, br, cache, cap, verdict>>

-----------------------------------------------------------------------------
\* Pure parts: routing decision, plan, candidates.

\* The catalog's entries among the models S, in order.
Kept(S) ==
  LET kept[n \in 0..Len(Catalog)] ==
        IF n = 0 THEN <<>>
        ELSE IF Catalog[n] \in S THEN Append(kept[n - 1], Catalog[n]) ELSE kept[n - 1]
  IN  kept[Len(Catalog)]

FirstOf(s) == IF s = <<>> THEN NoModel ELSE Head(s)

\* GuardRouter._first_in_perimeter: a real box before a fake one.
FirstInPerimeter ==
  LET real == Kept(Perimeter \ Fake)
  IN  IF real # <<>> THEN Head(real) ELSE FirstOf(Kept(Perimeter))

FirstInLane == FirstOf(Kept(Frontier))

\* _plan: the data constraint local_only turns an allowing guard verdict
\* into a local downgrade.
Verdict(c) ==
  IF c.constraint = "local_only" /\ c.guard = "allow" THEN "downgrade_local"
                                                       ELSE c.guard

\* GuardRouter.decide: guard override, then hard policy rule, then passthrough.
Decide(c, m) ==
  LET inside == Verdict(c) = "downgrade_local" \/ c.rule = "residency" IN
    IF inside /\ FirstInPerimeter # NoModel THEN FirstInPerimeter
    ELSE IF c.rule = "frontier" /\ FirstInLane # NoModel THEN FirstInLane
    ELSE m

\* default_model substitution.
Substitute(m) == IF m = Empty THEN DefaultModel ELSE m

\* EligibilityEngine.evaluate of an entry of lane provider: the same permits,
\* and conditions of its own.
Eligible(c, e) == e \in Dynamic => e \in c.permits /\ c.eligible

\* CandidateCatalog.resolve: a dynamic entry resolves only under the scope that
\* credential resolution chose for its provider, and not at all without one.
Resolves(lost, m) == m \in Model /\ (m \in Dynamic => ProviderOf[m] \notin lost)

\* _plan: how planning ends.
Plan(c, lost, m) ==
  LET e == Decide(c, Substitute(m)) IN
    IF c.guard = "block" THEN "blocked"
    ELSE IF ~Resolves(lost, e) THEN "unknown"
    ELSE IF e \notin c.permits \/ ~Eligible(c, e) THEN "not_permitted"
    ELSE "ok"

\* Mutant: fallback ignores residency.
FallbacksAnywhere ==
  [e \in Model |->
     IF e \notin Range(Catalog) THEN <<>>
     ELSE Kept({m \in Model : m # e /\ m \notin Fake})]

\* resilience.fallbacks(catalog, id, privacy=False): same residency, not
\* itself, not fake, in catalog order; nothing for an id outside the catalog.
Fallbacks ==
  [e \in Model |->
     IF e \notin Range(Catalog) THEN <<>>
     ELSE Kept({m \in Model : m # e /\ m \notin Fake /\ (m \in Perimeter <=> e \in Perimeter)})]

Candidates(c, e) ==
  IF c.resilient /\ c.fallback /\ e \notin Dynamic THEN <<e>> \o Fallbacks[e]
                                                    ELSE <<e>>

\* _cheapest_permitted: min() keeps the first of equals.
Cheapest(c) ==
  LET eligible == Kept(c.permits)
      best(i)  == \A j \in DOMAIN eligible :
                    \/ Price[eligible[i]] < Price[eligible[j]]
                    \/ Price[eligible[i]] = Price[eligible[j]] /\ i <= j
  IN  IF eligible = <<>> THEN NoModel
                         ELSE eligible[CHOOSE i \in DOMAIN eligible : best(i)]

-----------------------------------------------------------------------------
Fresh == [pc |-> "new", cfg |-> NoModel, model |-> NoModel, cands |-> <<>>,
          i |-> 1, attempt |-> 0, outcome |-> "none",
          lost |-> {}, over |-> FALSE, late |-> FALSE, first |-> "none", raised |-> "none"]

Init ==
  /\ req = [q \in Req |-> Fresh]
  /\ rows = [q \in Req |-> <<>>]
  /\ sent = [q \in Req |-> <<>>]
  /\ charged = [q \in Req |-> {}]
  /\ br = [p \in Provider |-> Closed]
  /\ cache = [m \in Model |-> NoModel]
  /\ cap \in Caps
  /\ verdict = "none"

\* A TraceRecord: begun for a model, finished with a status.
Begun(m) == [model |-> m, status |-> "ok"]
Row(m, status) == [Begun(m) EXCEPT !.status = status]
Set(q, r) == req' = [req EXCEPT ![q] = r]
Ended(r, o) == [r EXCEPT !.pc = "done", !.outcome = o]
Write(q, s) == rows' = [rows EXCEPT ![q] = @ \o s]

\* A refusal writes its trace row, which needs the model to resolve: an id
\* that does not resolve raises UnknownModelError instead, with no row.
Refuse(q, r, m, outcome, status) ==
  IF Resolves(r.lost, m)
  THEN Set(q, Ended(r, outcome)) /\ Write(q, <<Row(m, status)>>)
  ELSE Set(q, Ended(r, "unknown")) /\ UNCHANGED rows

\* byok_keys: the providers the caller's own key is bound for.
Own(r) == r.cfg.keys \ r.lost

\* Mutant: a key that cannot be read counts as none.
KeyForReadable(r, m) == IF ProviderOf[m] \in Own(r) THEN "own" ELSE "platform"

\* _get_client: whose key a call of model m uses.
KeyFor(r, m) ==
  CASE ProviderOf[m] \in r.lost -> "unreadable"
    [] ProviderOf[m] \in Own(r) -> "own"
    [] OTHER -> "platform"

\* A failed candidate raises its own exception when the loop ends with it.
Raise(q, r) == Set(q, [Ended(r, "failed") EXCEPT !.raised = "error"])

\* runner.chat puts model m on the wire, or raises ProviderCredentialUnavailable,
\* which is not retried, when the key for it cannot be read.
OnWire(q, r, m) ==
  IF KeyFor(r, m) = "unreadable"
  THEN Raise(q, r) /\ Write(q, <<Row(m, "error")>>) /\ UNCHANGED wire
  ELSE /\ Set(q, [r EXCEPT !.pc = "wire"])
       /\ sent' = [sent EXCEPT ![q] = Append(@, m)]
       /\ charged' = IF KeyFor(r, m) = "own" THEN charged
                     ELSE [charged EXCEPT ![q] = @ \cup {ProviderOf[m]}]
       /\ UNCHANGED rows

BreakerOf(b, m) == b[ProviderOf[m]]

\* resolve_fail_policy(fail_policy, reason) == "closed".
FailsClosed(c, reason) == reason \in c.closed

\* first_exc or CircuitOpen(key).
OrOpen(first) == IF first = "none" THEN "open" ELSE first

\* The candidate loop of a resilient request from candidate k on, up to its
\* next await, reading the breakers b: a candidate whose breaker is open is
\* skipped with a circuit_open row, unless the org fails closed on that; when
\* no candidate is left first_exc is raised.  pre are rows due first.
Seek(q, r, k, b, pre) ==
  LET last == Len(r.cands)
      skip == {j \in k..last : \A h \in k..j : ~Allow(BreakerOf(b, r.cands[h]))}
      next == k + Cardinality(skip)
      open == [h \in 1..Cardinality(skip) |-> Row(r.cands[k + h - 1], "circuit_open")]
      r1 == [r EXCEPT !.i = next, !.attempt = 0,
                      !.first = IF skip # {} THEN OrOpen(@) ELSE @]
  IN  /\ IF skip # {} /\ FailsClosed(r.cfg, "breaker_open")
         THEN /\ Write(q, pre \o <<open[1]>>)
              /\ Set(q, Ended(r, "degraded"))
         ELSE /\ Write(q, pre \o open)
              /\ Set(q, IF next > last
                        THEN Ended([r1 EXCEPT !.raised = r1.first], "failed")
                        ELSE [r1 EXCEPT !.pc = "peer"])
      /\ UNCHANGED wire

-----------------------------------------------------------------------------
\* load_byok: the providers whose key is unavailable - none, as always for the
\* operator, who has no keys; all of them when the keys cannot be read from the
\* store; those with a key when the secret is unavailable; or one whose key does
\* not decrypt.
Unreadable(c) ==
  IF c.user THEN {{}, Byok, c.keys} \cup {{p} : p \in c.keys} ELSE {{}}

\* A request arrives (require_auth): the route answers 404 to a model it cannot
\* resolve, else the request awaits the classifier(s).
Arrive(q, c) ==
  /\ req[q].pc = "new"
  /\ \E lost \in Unreadable(c) :
       LET r == [Fresh EXCEPT !.pc = "classify", !.cfg = c, !.lost = lost]
           known == c.model \in {Smart, Empty} \/ Resolves(lost, c.model)
       IN  Set(q, IF c.resilient /\ ~known THEN Ended(r, "unknown") ELSE r)
  /\ UNCHANGED <<rows, wire, br, cache, cap, verdict>>

\* The org taxonomy denies the request's data classification.
Denied(c) == c.constraint = "deny"

\* Fail policy first, then the deny constraint; both before cache and wire.
Gate(q, r) ==
  LET rejects == FailsClosed(r.cfg, r.cfg.degraded) IN
    CASE rejects -> Refuse(q, r, r.model, "degraded", "error")
      [] ~rejects /\ Denied(r.cfg) -> Refuse(q, r, r.model, "data_denied", "denied")
      [] OTHER -> Set(q, [r EXCEPT !.pc = "budget"]) /\ UNCHANGED rows

\* The classifier answered: `smart` became a model of the catalog.
Classified(q) ==
  /\ req[q].pc = "classify"
  /\ \E m \in IF req[q].cfg.model = Smart THEN Range(Catalog) ELSE {req[q].cfg.model} :
       Gate(q, [req[q] EXCEPT !.model = m])
  /\ UNCHANGED <<wire, br, cache, cap, verdict>>

\* _apply_budget's rewrite of the model.
BudgetModel(c, m, over) ==
  IF over /\ cap = "downgrade" /\ Cheapest(c) # NoModel THEN Cheapest(c) ELSE m

\* The shared cache is read only for a catalog model, and never for a caller
\* with BYOK keys or zero retention.
Cacheable(r, m) == ~r.cfg.zr /\ Own(r) = {} /\ m \in Range(Catalog)

\* ExactCache.get.
CacheHit(r, m) == Cacheable(r, m) /\ cache[m] # NoModel

\* Plan and enter the candidate loop, up to the next await.
Launch(q, r) ==
  LET c == r.cfg
      m == Substitute(r.model)
      e == Decide(c, m)
      r1 == [r EXCEPT !.model = m, !.cands = Candidates(c, e)]
  IN  CASE Plan(c, r.lost, r.model) = "blocked" ->
             Refuse(q, r, r.model, "blocked", "blocked") /\ UNCHANGED wire
        [] Plan(c, r.lost, r.model) = "unknown" ->
             Set(q, Ended(r, "unknown")) /\ UNCHANGED <<rows, wire>>
        [] Plan(c, r.lost, r.model) = "not_permitted" ->
             Refuse(q, r, e, "not_permitted", "denied") /\ UNCHANGED wire
        [] OTHER ->
             IF c.resilient THEN Seek(q, r1, 1, br, <<>>)
             ELSE OnWire(q, r1, e)

\* current_month_spend: the cost of the ok rows; a cache hit costs nothing.
Spend == Cardinality({q \in Req : req[q].outcome = "served"})

\* _apply_budget with the decision in: reject, or go on with the (rewritten)
\* model to the cache, and on a miss to planning and dispatch.
Enforce(q, over) ==
  LET c == req[q].cfg
      m == BudgetModel(c, req[q].model, over)
      r == [req[q] EXCEPT !.model = m, !.over = FALSE, !.late = FALSE]
      reject == over /\ cap = "reject"
  IN  CASE reject -> Refuse(q, r, m, "over_budget", "error") /\ UNCHANGED wire
        [] ~reject /\ CacheHit(r, m) ->
             /\ Set(q, Ended(r, "cached"))
             /\ Write(q, <<Row(cache[m], "ok")>>)
             /\ UNCHANGED wire
        [] OTHER -> Launch(q, r)

\* decide: a cached decision that has not expired.
BudgetKnown(q) ==
  /\ req[q].pc = "budget"
  /\ verdict # "none"
  /\ Enforce(q, verdict = "over")
  /\ UNCHANGED <<br, cache, cap, verdict>>

\* Mutant: a failure counts as over budget.
OverUnlessRead(over) == {over, TRUE}

\* What _compute may say: what it read, or nothing when a read failed.
OverIfRead(over) == {over, FALSE}

\* _compute: the budget row and the month's spend are read.
BudgetRead(q) ==
  /\ req[q].pc = "budget"
  /\ verdict = "none"
  /\ \E over \in OverIfRead(cap # "none" /\ Spend >= Limit) :
       Set(q, [req[q] EXCEPT !.pc = "alert", !.over = over])
  /\ UNCHANGED <<rows, wire, br, cache, cap, verdict>>

\* Mutant: a decision that expired while it was computed is computed again.
BudgetDecidedFresh(q) ==
  /\ req[q].pc = "alert"
  /\ IF req[q].late
     THEN Set(q, [req[q] EXCEPT !.pc = "budget", !.over = FALSE, !.late = FALSE])
          /\ UNCHANGED <<rows, wire, verdict>>
     ELSE /\ verdict' = IF req[q].over THEN "over" ELSE "clear"
          /\ Enforce(q, req[q].over)
  /\ UNCHANGED <<br, cache, cap>>

\* The decision is cached, whatever is cached by then, to expire one TTL after
\* its own start; and enforced.
BudgetDecided(q) ==
  /\ req[q].pc = "alert"
  /\ verdict' = IF req[q].late THEN "none" ELSE IF req[q].over THEN "over" ELSE "clear"
  /\ Enforce(q, req[q].over)
  /\ UNCHANGED <<br, cache, cap>>

Cand(q) == req[q].cands[req[q].i]
SetBreaker(q, s) == [br EXCEPT ![ProviderOf[Cand(q)]] = s]

\* peer_open(): a peer's OPEN skips the candidate like a local one.
PeerClear(q) ==
  /\ req[q].pc = "peer"
  /\ OnWire(q, req[q], Cand(q))
  /\ UNCHANGED <<br, cache, cap, verdict>>

PeerSkip(q) ==
  /\ req[q].pc = "peer"
  /\ LET skipped == <<Row(Cand(q), "circuit_open")>> IN
       IF FailsClosed(req[q].cfg, "breaker_open")
       THEN Set(q, Ended(req[q], "degraded")) /\ Write(q, skipped) /\ UNCHANGED wire
       ELSE Seek(q, [req[q] EXCEPT !.first = OrOpen(@)], req[q].i + 1, br, skipped)
  /\ UNCHANGED <<br, cache, cap, verdict>>

\* cache.put(req, response): under the request's own model, whichever
\* candidate served it; not for private callers nor dynamic entries.  A key
\* that is in memory already keeps the response it has (_mem_set); one that
\* names no model is never read again.
Seed(q) ==
  LET m == req[q].model IN
    IF /\ ~req[q].cfg.zr /\ Own(req[q]) = {} /\ req[q].cands[1] \notin Dynamic
       /\ m \in Model /\ cache[m] = NoModel
    THEN cache' = [cache EXCEPT ![m] = Cand(q)]
    ELSE UNCHANGED cache

\* Mutant: the row names the planned model, not the one that served.
ServePlanned(q) ==
  /\ Seed(q)
  /\ Write(q, <<Row(req[q].cands[1], "ok")>>)
  /\ Set(q, Ended(req[q], "served"))

Serve(q) ==
  /\ Seed(q)
  /\ Write(q, <<Row(Cand(q), "ok")>>)
  /\ Set(q, Ended(req[q], "served"))

\* The upstream answers.  If that closes the breaker, the span and the
\* shared key are awaited before the response is cached and returned.
UpstreamOk(q) ==
  /\ req[q].pc = "wire"
  /\ IF req[q].cfg.resilient
     THEN /\ br' = SetBreaker(q, OnSuccess(BreakerOf(br, Cand(q))))
          /\ IF WasOpen(BreakerOf(br, Cand(q)))
             THEN Set(q, [req[q] EXCEPT !.pc = "clear"]) /\ UNCHANGED <<rows, cache>>
             ELSE Serve(q)
     ELSE Serve(q) /\ UNCHANGED br
  /\ UNCHANGED <<wire, cap, verdict>>

ClearedPeers(q) ==
  /\ req[q].pc = "clear"
  /\ Serve(q)
  /\ UNCHANGED <<wire, br, cap, verdict>>

\* After a transient failure of a resilient request, with breakers b: retry
\* the same model, fall back to the next candidate, or give up.
AfterFailure(q, b) ==
  LET r == [req[q] EXCEPT !.first = IF @ = "none" THEN "error" ELSE @]
      lost == <<Row(Cand(q), "error")>>
  IN  CASE r.attempt < Retries /\ Allow(BreakerOf(b, Cand(q))) ->
             Set(q, [r EXCEPT !.pc = "sleep"]) /\ UNCHANGED <<rows, wire>>
        [] (r.attempt >= Retries \/ ~Allow(BreakerOf(b, Cand(q)))) /\ r.i < Len(r.cands) ->
             Seek(q, r, r.i + 1, b, lost)
        [] OTHER -> Raise(q, req[q]) /\ Write(q, lost) /\ UNCHANGED wire

\* A transient upstream failure: recorded on the breaker of a resilient
\* request; the trip edge is published before the loop goes on.
UpstreamTransient(q) ==
  /\ req[q].pc = "wire"
  /\ IF req[q].cfg.resilient
     THEN LET b == SetBreaker(q, OnFailure(BreakerOf(br, Cand(q)))) IN
            /\ br' = b
            /\ IF Trips(BreakerOf(br, Cand(q)))
               THEN Set(q, [req[q] EXCEPT !.pc = "record"]) /\ UNCHANGED <<rows, wire>>
               ELSE AfterFailure(q, b)
     ELSE /\ Raise(q, req[q])
          /\ Write(q, <<Row(Cand(q), "error")>>)
          /\ UNCHANGED <<br, wire>>
  /\ UNCHANGED <<cache, cap, verdict>>

Recorded(q) ==
  /\ req[q].pc = "record"
  /\ AfterFailure(q, br)
  /\ UNCHANGED <<br, cache, cap, verdict>>

\* A client error raises at once: no retry, no fallback, no breaker.
UpstreamRefused(q) ==
  /\ req[q].pc = "wire"
  /\ Raise(q, req[q])
  /\ Write(q, <<Row(Cand(q), "error")>>)
  /\ UNCHANGED <<wire, br, cache, cap, verdict>>

\* Backoff over: the same candidate goes on the wire again.
Backoff(q) ==
  /\ req[q].pc = "sleep"
  /\ OnWire(q, [req[q] EXCEPT !.attempt = @ + 1], Cand(q))
  /\ UNCHANGED <<br, cache, cap, verdict>>

\* Time passes: for the breakers, and for the budget decision, which lives for
\* one tick from the start of its computation.
Tick ==
  /\ br' = [p \in Provider |-> Elapse(br[p])]
  /\ verdict' = "none"
  /\ req' = [q \in Req |-> [req[q] EXCEPT !.late = req[q].pc = "alert"]]
  /\ UNCHANGED <<rows, wire, cache, cap>>

\* _upstream_error: what the exception that complete raised becomes.
UpstreamAnswer(raised) == IF raised = "open" THEN "circuit_open" ELSE "upstream_error"

\* chat_completions: the answer to a finished request.
Answer(q) ==
  LET o == req[q].outcome IN
    CASE o \in {"served", "cached"} -> "ok"
      [] o \in {"blocked", "not_permitted", "data_denied"} -> "forbidden"
      [] o = "degraded" -> "gateway_degraded"
      [] o = "over_budget" -> "budget_exceeded"
      [] o = "unknown" -> "not_found"
      [] o = "failed" -> UpstreamAnswer(req[q].raised)

Step(q) ==
  \/ Classified(q) \/ BudgetKnown(q) \/ BudgetRead(q) \/ BudgetDecided(q)
  \/ PeerClear(q) \/ PeerSkip(q)
  \/ UpstreamOk(q) \/ ClearedPeers(q)
  \/ UpstreamTransient(q) \/ Recorded(q) \/ UpstreamRefused(q)
  \/ Backoff(q)

Progress == \E q \in Req : Step(q)

Next ==
  \/ Tick
  \/ \E q \in Req : \E c \in ConfigsOf[cap][q] : Arrive(q, c)
  \/ Progress

Spec == Init /\ [][Next]_vars

\* Awaits end: runner.chat has a timeout, Redis calls fail open, the
\* classifier is bounded by label_timeout_ms, sleeps are capped.  Fairness of
\* the replica as a whole is enough, because a request ends in finitely many
\* steps.
FairSpec == Spec /\ WF_vars(Progress)

-----------------------------------------------------------------------------
Done(q) == req[q].pc = "done"
Statuses(q) == {rows[q][k].status : k \in DOMAIN rows[q]}

\* The candidates the loop of q has left behind, skipped, failed or served.
Left(q) ==
  SubSeq(req[q].cands, 1,
    IF Done(q) /\ req[q].i <= Len(req[q].cands) THEN req[q].i ELSE req[q].i - 1)

\* _finalize and chat_completions: the trace, the wire and the answer tell the
\* same story of a request.  The rows are the candidates left behind, one each
\* and in order; a finished request answered 200 has exactly one ok row, the
\* last one, naming the model that served it; any other has none; one answered
\* circuit_open met an open breaker and failed at every candidate; and only an
\* id that resolves to no model ends without a row.
TraceHonest ==
  \A q \in Req :
    LET n == Len(rows[q]) IN
      /\ req[q].cands # <<>> /\ req[q].outcome # "degraded" =>
           [k \in 1..n |-> rows[q][k].model] = Left(q)
      /\ Done(q) =>
           /\ Answer(q) = "ok" <=> "ok" \in Statuses(q)
           /\ \A k \in 1..n : rows[q][k].status = "ok" => k = n
           /\ req[q].outcome = "served" => rows[q][n].model = sent[q][Len(sent[q])]
           /\ Answer(q) = "circuit_open" =>
                rows[q][n].status = "circuit_open" /\ n = Len(req[q].cands)
           /\ n = 0 <=> Answer(q) = "not_found"

\* load_byok, _get_client: a provider the caller has stored a key for is never
\* called with the platform's key, through every retry and fallback - also when
\* the key could not be read, for whatever reason, at the door.
OwnKeyOrNone ==
  \A q \in Req : req[q].pc # "new" => charged[q] \cap req[q].cfg.keys = {}

\* complete: a request its organisation refuses - a denied classification, a
\* fail-closed degradation, a blocking guard, a spent budget - never reaches a
\* provider, nor is it answered from the cache; and a budget refuses only when
\* the spend has reached its limit, whatever decision is cached and however the
\* reads behind it failed.  (The guards run in _plan, after the cache: a
\* blocked request may be answered from there.)
RefusedNeverServed ==
  \A q \in Req : req[q].pc # "new" =>
    LET c == req[q].cfg
        refused == c.constraint = "deny" \/ c.degraded \in c.closed
    IN  /\ refused \/ c.guard = "block" \/ req[q].outcome = "over_budget" => sent[q] = <<>>
        /\ refused => req[q].outcome # "cached"
        /\ req[q].outcome = "over_budget" => cap = "reject" /\ Spend >= Limit

\* _plan + fallbacks: data that must stay inside the perimeter (local_only,
\* a guard downgrade, a residency rule) is sent to in-perimeter models only,
\* through every retry and fallback.  The catalog has an in-perimeter entry.
StaysInPerimeter ==
  \A q \in Req : req[q].pc # "new" /\ FirstInPerimeter # NoModel =>
    LET c == req[q].cfg IN
      c.constraint = "local_only" \/ c.guard = "downgrade_local" \/ c.rule = "residency"
        => Range(sent[q]) \subseteq Perimeter

\* Every request ends, whatever the providers do.
EveryRequestEnds == \A q \in Req : (req[q].pc # "new") ~> Done(q)

\* openwiki/architecture/routing.md: sensitive work "must physically stay
\* inside the perimeter and never land on a cheap cloud model" - also when
\* the catalog has no in-perimeter entry to send it to.
NeverLeavesPerimeter ==
  \A q \in Req : req[q].pc # "new" /\ req[q].cfg.rule = "residency"
                   => Range(sent[q]) \subseteq Perimeter

\* _plan: "a denied model never reaches the wire".
WirePermitted ==
  \A q \in Req : req[q].pc # "new" => Range(sent[q]) \subseteq req[q].cfg.permits

\* _upstream_error: a CircuitOpen answer means "no wire was touched".
FastFailTouchesNoWire ==
  \A q \in Req : Done(q) /\ Answer(q) = "circuit_open" => sent[q] = <<>>
=============================================================================
