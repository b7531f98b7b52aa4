---------------------------- MODULE SmartRouting ----------------------------
(***************************************************************************)
(* The smart model (toto_gateway/routing/smart.py) as Gateway uses it      *)
(* (gateway.py _resolve_smart, _resolve_data_policy): classify a turn of a *)
(* conversation once, remember the label, resolve it to a model through    *)
(* bindings, benchmarks and fallbacks, and keep a conversation on the      *)
(* model whose prompt cache is warm.                                       *)
(*                                                                         *)
(* What one turn leaves for the next is per replica: the label memo (L1)   *)
(* and the warmth table.  Redis, when there, holds the memo for all of     *)
(* them (L2); its calls may fail at any time.  Turns are coroutines: they  *)
(* interleave at the Redis calls, the classifier call and the dispatch.    *)
(* A turn works with the policy its identity was resolved with, while an   *)
(* admin may replace a policy row and a benchmark refresh the ranking.     *)
(*                                                                         *)
(* Abstractions.  A policy row is what resolution reads of it: bindings,   *)
(* custom labels, the constraints of its data taxonomy, its classifier and *)
(* optimizer_steers_tools.  Rows belong to scopes, an org or one of its    *)
(* teams.  Adoptions and catalog policies do not change.  A ranking lists  *)
(* the models best first.  Times are ticks.  The tables' FIFO caps (1024   *)
(* and 4096 rows) are above the number of keys.  What dispatch does with   *)
(* the model is Dispatch's subject: a turn is served by its model or,      *)
(* after a downgrade or a fallback, by another, or fails.                  *)
(***************************************************************************)
EXTENDS Naturals, Sequences, FiniteSets, FiniteSetsExt

CONSTANTS
  Turn, Replica,
  Scope,        \* orgs and teams
  OrgOf,        \* OrgOf[s]: the org of team s; an org's own is itself
  ScopesOf,     \* ScopesOf[t]: the scopes its caller may belong to
  Base,         \* the models of the shipped catalog
  AdoptedBy,    \* AdoptedBy[s]: the models scope s adopted
  DenyOf,       \* DenyOf[s]: models its catalog policy or allowlist bars
  SessionOf,    \* SessionOf[t]: the session the client declares (x-session-id), or None
  OpeningOf,    \* OpeningOf[t]: its system text and first user message
  AsksOf,       \* AsksOf[t]: what it may ask for: smart, with tools, or a model it
                \* names itself (explicit)
  SitesOf,      \* SitesOf[t]: replicas the balancer may send it to
  Order,        \* the models, in catalog order
  ToolModel,    \* those that speak native tools
  Frontier,     \* catalog.frontier_reference()
  Global,       \* Global[l]: the labels.yaml binding of label l, or None
  Category,     \* labels with a benchmark category
  Bodies,       \* Bodies[s]: policies an admin of s may send
  Policy0,      \* Policy0[s]: the row at first, or None
  InPerimeter,  \* models that run inside the perimeter
  DefaultClassifier,  \* the gateway's own
  Rankings,     \* rankings a benchmark refresh may bring
  Rank0,        \* the one at first
  DataLabel,    \* labels of the data taxonomy
  LabelTtl, HoldOf, WarmTtl, DeclaredTtl,   \* memo holds
  Window,       \* lifetime of an upstream prompt cache
  MaxTicks, MaxChanges,   \* bounds: time, and policy and ranking changes
  None

Model == {Order[i] : i \in DOMAIN Order}

ASSUME SmartAssumption ==
  /\ {LabelTtl, WarmTtl, DeclaredTtl, Window, MaxTicks, MaxChanges} \subseteq Nat
  /\ "other" \in DOMAIN Global
  /\ Order \in Seq(Model) /\ None \notin Model
  /\ Base \subseteq Model /\ Base # {}
  /\ Rank0 \in Seq(Model) /\ Rankings \subseteq Seq(Model)
  /\ \A s \in Scope : /\ AdoptedBy[s] \subseteq Model
                      /\ OrgOf[OrgOf[s]] = OrgOf[s]
  /\ \A t \in Turn : SitesOf[t] \subseteq Replica /\ ScopesOf[t] \subseteq Scope

VARIABLES
  turn,     \* turn[t]: the coroutine
  memo,     \* memo[p]: _label_cache, a set of rows
  l2,       \* the rows in Redis
  warm,     \* warm[p]: _warmth, a set of rows
  policy,   \* policy[s]: the routing_policies row of scope s, or None
  rank,     \* the current benchmark ranking
  ticks, changes,
  said      \* history: what the classifier answered under which key

vars == <<turn, memo, l2, warm, policy, rank, ticks, changes, said>>

Fresh ==
  [pc |-> "new", at |-> None, scope |-> None, ask |-> "smart", pol |-> None,
   key |-> None, label |-> None, data |-> None, hold |-> 0, model |-> None,
   served |-> None, warmed |-> FALSE, when |-> 0]

Init ==
  /\ turn = [t \in Turn |-> Fresh]
  /\ memo = [p \in Replica |-> {}]
  /\ l2 = {}
  /\ warm = [p \in Replica |-> {}]
  /\ policy = Policy0
  /\ rank = Rank0
  /\ ticks = 0 /\ changes = 0
  /\ said = {}

-----------------------------------------------------------------------------
\* _declared_key, _conversation_key: the anchor of a turn.
ConvOf(t) == IF SessionOf[t] # None THEN <<"declared", SessionOf[t]>> ELSE OpeningOf[t]

\* Policies.

\* No overlay.
NoRow ==
  [bind |-> [l \in {"other"} |-> None], custom |-> {}, tax |-> {}, clf |-> None, steers |-> FALSE]

\* get_routing_policy.
StoredRow(s) == IF policy[s] = None THEN NoRow ELSE policy[s]

\* _resolve_routing_policy: the team's row wins outright, else the org's; a
\* lookup that fails counts as no row.
RowsFor(s) == {NoRow, StoredRow(IF policy[s] # None THEN s ELSE OrgOf[s])}

\* _resolve_adoptions, and the same for the catalog policy and the org's
\* allowlist: what is stored, or nothing when the lookup fails.
AdoptionsFor(s) == {{}, AdoptedBy[s]}
BarredFor(s) == {{}, DenyOf[s]}

\* effective_catalog.
CatalogWith(adopted) == Base \cup adopted

\* effective_policy, with the caller's effective catalog.
Effective(row, adopted, barred) ==
  [bind |-> row.bind, custom |-> row.custom, tax |-> row.tax, clf |-> row.clf,
   steers |-> row.steers, cat |-> CatalogWith(adopted), deny |-> barred]

\* The catalog an admin of scope s sees.
CatOf(s) == CatalogWith(AdoptedBy[s])

\* _validate_routing_body: known, bindable labels and models of the scope's
\* catalog.
ValidBindings(s, row) ==
  \A l \in DOMAIN row.bind \ row.custom :
    row.bind[l] # None => l \in DOMAIN Global \ {"redact"} /\ row.bind[l] \in CatOf(s)

\* _validate_custom_labels: no shadowing of a shipped label, known models.
ValidCustom(s, row) ==
  /\ row.custom \cap DOMAIN Global = {}
  /\ \A l \in row.custom : row.bind[l] \in CatOf(s)

\* _validate_taxonomy.
ValidTaxonomy(row) == row.tax \subseteq {"local_only", "deny", "allow"}

\* _taxonomy_requires_local.
RequiresLocal(row) == row.tax \cap {"local_only", "deny"} # {}

\* _validate_classifier_model.
ValidClassifier(s, row) ==
  row.clf # None => /\ row.clf \in CatOf(s)
                    /\ RequiresLocal(row) => row.clf \in InPerimeter

-----------------------------------------------------------------------------
\* Resolution of a label to a model.

\* _tools_ok of a catalog entry.
ToolsOk(pol, tools, m) == m \in pol.cat /\ (tools => m \in ToolModel)

\* The first of a sequence that is in S, else None.
FirstIn(s, S) ==
  LET at == {i \in DOMAIN s : s[i] \in S}
  IN  IF at = {} THEN None ELSE s[Min(at)]

\* The first of a sequence of candidates that will do, else None.
FirstOk(pol, tools, s) == FirstIn(s, {m \in pol.cat : ToolsOk(pol, tools, m)})

\* fallback_model: the policy's catch-all, the shipped one (if labels were
\* given), the benchmark best, the frontier reference, any entry that will do,
\* any entry at all.
Fallback(pol, tools, shipped) ==
  LET best == FirstIn(rank, pol.cat)
      pick == FirstOk(pol, tools, <<pol.bind["other"], shipped, best, Frontier>> \o Order)
  IN  IF pick # None THEN pick ELSE FirstIn(Order, pol.cat)

\* _binding_entry: the team's binding or custom label, else the shipped one.
BoundTo(pol, l) ==
  LET team == IF l \in DOMAIN pol.bind THEN pol.bind[l] ELSE None
      ship == IF l \in DOMAIN Global THEN Global[l] ELSE None
  IN  IF team \in pol.cat THEN team ELSE IF ship \in pol.cat THEN ship ELSE None

\* benchmark_pick_for.
BenchPick(pol, tools, l) ==
  IF l \in Category THEN FirstOk(pol, tools, rank) ELSE None

\* Mutant: the tools guard is not applied to a binding.
LadderToolless(pol, tools, l) ==
  IF BoundTo(pol, l) # None
  THEN [model |-> BoundTo(pol, l), bound |-> TRUE]
  ELSE [model |-> Fallback(pol, tools, Global["other"]), bound |-> FALSE]

\* The ladder of smart_route for a label: the model, and whether an operator's
\* binding decided.
Ladder(pol, tools, l) ==
  LET b     == BoundTo(pol, l)
      bench == BenchPick(pol, tools, l)
      catchall == ToolsOk(pol, tools, pol.bind["other"])
  IN  CASE b # None /\ ToolsOk(pol, tools, b) -> [model |-> b, bound |-> TRUE]
        [] b # None /\ ~ToolsOk(pol, tools, b) /\ pol.steers /\ bench # None ->
             [model |-> bench, bound |-> FALSE]
        [] b # None /\ ~ToolsOk(pol, tools, b) /\ ~(pol.steers /\ bench # None) ->
             [model |-> Fallback(pol, tools, Global["other"]), bound |-> TRUE]
        [] b = None /\ bench # None /\ ~catchall -> [model |-> bench, bound |-> FALSE]
        [] OTHER -> [model |-> Fallback(pol, tools, Global["other"]), bound |-> FALSE]

Permits(pol, m) == m \notin pol.deny

\* The warmth row of a conversation, if any, as a set.
WarmRow(p, c) == {w \in warm[p] : w.conv = c}

\* Past the life of the upstream's prompt cache (cache_ttl_s).
Cold(w) == w.age >= Window

\* _warm_hold's conditions on the incumbent.
Holds(w, pol, tools) ==
  /\ w.model # None
  /\ ToolsOk(pol, tools, w.model)
  /\ Permits(pol, w.model)
  /\ w.cached
  /\ ~Cold(w)

\* Mutant: warmth beats bindings.
HeldAnyway(fresh, p, c, pol, tools) ==
  LET inc == {w.model : w \in {x \in WarmRow(p, c) : Holds(x, pol, tools)}}
  IN  IF inc = {} THEN fresh.model ELSE CHOOSE m \in inc : TRUE

\* _warm_hold: the warm incumbent unless a binding decided.
Held(fresh, p, c, pol, tools) ==
  LET inc == {w.model : w \in {x \in WarmRow(p, c) : Holds(x, pol, tools)}}
  IN  IF fresh.bound \/ inc = {} THEN fresh.model ELSE CHOOSE m \in inc : TRUE

\* The end of smart_route: no label, no hold.  An explicit turn keeps its model
\* and takes the data label only.
Resolved(r, t, l, d) ==
  [r EXCEPT
     !.pc = "routed", !.label = l, !.data = d, !.key = None, !.hold = 0,
     !.model = LET tools == r.ask = "tools" IN
               IF r.ask = "explicit" THEN None
               ELSE IF l = None THEN Fallback(r.pol, tools, Global["other"])
               ELSE Held(Ladder(r.pol, tools, l), r.at, ConvOf(t), r.pol, tools)]

-----------------------------------------------------------------------------
\* The memo.

\* _vocab: the shipped labels and the team's own.
Vocab(pol) == DOMAIN Global \cup pol.custom

\* Mutant: the vocabulary is left out of the key.
CacheKeyBare(t, pol) == <<ConvOf(t), {}>>

\* _cache_key: the anchor and the vocabulary.
CacheKey(t, pol) == <<ConvOf(t), Vocab(pol)>>

Row(k, l, d, ttl) == [key |-> k, label |-> l, data |-> d, ttl |-> ttl, left |-> ttl]

\* dict[key] = row.
Put(rows, row) == {x \in rows : x.key # row.key} \cup {row}

\* _cache_get: a row, slid by its own hold.
Hits(p, k) == {x \in memo[p] : x.key = k}
Slid(p, k) == {IF x.key = k THEN [x EXCEPT !.left = x.ttl] ELSE x : x \in memo[p]}

\* TotoStickiness.assess: a declared session, else the label's hold, which
\* warmth may lengthen.
Hot(p, c) == \E w \in WarmRow(p, c) : w.cached \/ w.turns >= 3
LabelHold(l) == IF l \in DOMAIN HoldOf THEN HoldOf[l] ELSE LabelTtl
Hold(t, p, l) ==
  CASE turn[t].ask = "explicit" -> LabelTtl
    [] turn[t].ask # "explicit" /\ SessionOf[t] # None -> DeclaredTtl
    [] OTHER -> IF Hot(p, ConvOf(t)) /\ WarmTtl > LabelHold(l) THEN WarmTtl ELSE LabelHold(l)

\* The policies of each Identity a caller of scope s may have been resolved to.
PoliciesFor(s) ==
  {Effective(row, adopted, barred) :
     row \in RowsFor(s), adopted \in AdoptionsFor(s), barred \in BarredFor(s)}

\* The turn as it reaches a replica: the policy of the turn, whatever is stored
\* later.
Arrivals(t, p, s, ask) ==
  {[turn[t] EXCEPT !.at = p, !.pol = pol, !.key = CacheKey(t, pol), !.ask = ask,
                   !.scope = s] : pol \in PoliciesFor(s)}

\* The lookup of smart_route: a memo hit resolves at once; a miss asks Redis.
Lookup(t, r) ==
  IF Hits(r.at, r.key) = {}
  THEN turn' = [turn EXCEPT ![t] = [r EXCEPT !.pc = "l2"]] /\ UNCHANGED memo
  ELSE \E x \in Hits(r.at, r.key) :
         /\ turn' = [turn EXCEPT ![t] = Resolved(r, t, x.label, x.data)]
         /\ memo' = [memo EXCEPT ![r.at] = Slid(r.at, r.key)]

\* _resolve_smart.
Arrive(t, p, s, ask) ==
  /\ turn[t].pc = "new" /\ ask # "explicit"
  /\ \E r \in Arrivals(t, p, s, ask) : Lookup(t, r)
  /\ UNCHANGED <<l2, warm, policy, rank, ticks, changes, said>>

\* _resolve_data_policy of a turn that names its model: classified for its data
\* label if the caller has a taxonomy.
ArriveExplicit(t, p, s, ask) ==
  /\ turn[t].pc = "new" /\ ask = "explicit"
  /\ \E r \in Arrivals(t, p, s, ask) :
       IF r.pol.tax = {}
       THEN turn' = [turn EXCEPT ![t] = [r EXCEPT !.pc = "routed"]] /\ UNCHANGED memo
       ELSE Lookup(t, r)
  /\ UNCHANGED <<l2, warm, policy, rank, ticks, changes, said>>

\* effective_policy raised: the fallback without a policy or labels.
PolicyError(t, p, s, ask) ==
  /\ turn[t].pc = "new" /\ ask # "explicit"
  /\ \E adopted \in AdoptionsFor(s) :
       LET bare == Effective(NoRow, adopted, {}) IN
       turn' = [turn EXCEPT ![t] =
           [@ EXCEPT !.pc = "routed", !.at = p, !.pol = bare, !.ask = ask, !.scope = s,
                     !.model = Fallback(bare, ask = "tools", None)]]
  /\ UNCHANGED <<memo, l2, warm, policy, rank, ticks, changes, said>>

\* A row of Redis, promoted into L1 with the default hold.
L2Hit(t) ==
  /\ turn[t].pc = "l2"
  /\ \E x \in l2 :
       /\ x.key = turn[t].key
       /\ memo' = [memo EXCEPT ![turn[t].at] = Put(@, Row(x.key, x.label, x.data, LabelTtl))]
       /\ turn' = [turn EXCEPT ![t] = Resolved(@, t, x.label, x.data)]
  /\ UNCHANGED <<l2, warm, policy, rank, ticks, changes, said>>

\* No row, no Redis, or an error: on to the classifier.
L2Miss(t) ==
  /\ turn[t].pc = "l2"
  /\ turn' = [turn EXCEPT ![t].pc = "classify"]
  /\ UNCHANGED <<memo, l2, warm, policy, rank, ticks, changes, said>>

\* parse_label: a label of the vocabulary (None is ClassifyFails).
ParsedLabels(pol) == Vocab(pol)

\* parse_data_label: of the taxonomy, or None for what it does not know.
ParsedData(pol) == {None} \cup (IF pol.tax # {} THEN DataLabel ELSE {})

\* The classifier answers; the policy chooses the hold.
Classified(t) ==
  /\ turn[t].pc = "classify"
  /\ LET r == turn[t] IN
       \E l \in ParsedLabels(r.pol), d \in ParsedData(r.pol) :
         LET h == Hold(t, r.at, l) IN
         /\ memo' = [memo EXCEPT ![r.at] = Put(@, Row(r.key, l, d, h))]
         /\ turn' = [turn EXCEPT ![t].pc = "share", ![t].label = l, ![t].data = d,
                                 ![t].hold = h]
         /\ said' = said \cup {<<ConvOf(t), l, d>>}
  /\ UNCHANGED <<l2, warm, policy, rank, ticks, changes>>

\* It is absent, raises, answers nonsense or runs into label_timeout_ms; an
\* answer without a label may still have a data label.
ClassifyFails(t) ==
  /\ turn[t].pc = "classify"
  /\ \E d \in ParsedData(turn[t].pol) :
       turn' = [turn EXCEPT ![t] = Resolved(@, t, None, d)]
  /\ UNCHANGED <<memo, l2, warm, policy, rank, ticks, changes, said>>

\* _l2_put, with the hold of the row, or nothing when Redis errs; then the
\* label is resolved.
Share(t) ==
  /\ turn[t].pc = "share"
  /\ LET r == turn[t] IN
       /\ l2' \in {l2, Put(l2, Row(r.key, r.label, r.data, r.hold))}
       /\ turn' = [turn EXCEPT ![t] = Resolved(@, t, r.label, r.data)]
  /\ UNCHANGED <<memo, warm, policy, rank, ticks, changes, said>>

\* Mutant: warmth keeps the model that was asked for.
WarmedAsked(p, t, m, cached) ==
  LET n == {w.turns : w \in WarmRow(p, ConvOf(t))}
  IN  {w \in warm[p] : w.conv # ConvOf(t)} \cup
        {[conv |-> ConvOf(t), turns |-> IF 2 \in n \/ 3 \in n THEN 3 ELSE 1 + Cardinality(n),
          cached |-> cached, age |-> 0, model |-> turn[t].model]}

\* record_warmth: the model that served, and whether its cache was hit.
Warmed(p, t, m, cached) ==
  LET n == {w.turns : w \in WarmRow(p, ConvOf(t))}
  IN  {w \in warm[p] : w.conv # ConvOf(t)} \cup
        {[conv |-> ConvOf(t), turns |-> IF 2 \in n \/ 3 \in n THEN 3 ELSE 1 + Cardinality(n),
          cached |-> cached, age |-> 0, model |-> m]}

\* Dispatch and _account.
Serve(t) ==
  /\ turn[t].pc = "routed"
  /\ LET r == turn[t] IN
       \E m \in r.pol.cat, cached \in BOOLEAN :
         /\ warm' = [warm EXCEPT ![r.at] = Warmed(r.at, t, m, cached)]
         /\ turn' = [turn EXCEPT ![t] =
              [Fresh EXCEPT !.pc = "done", !.at = r.at, !.served = m,
                            !.warmed = cached, !.when = ticks]]
  /\ UNCHANGED <<memo, l2, policy, rank, ticks, changes, said>>

\* Refused or failed upstream: nothing is accounted.
ServeFails(t) ==
  /\ turn[t].pc = "routed"
  /\ turn' = [turn EXCEPT ![t] = [Fresh EXCEPT !.pc = "done"]]
  /\ UNCHANGED <<memo, l2, warm, policy, rank, ticks, changes, said>>

-----------------------------------------------------------------------------
\* The environment.

\* set_routing_policy: a full replacement of the scope's row.
SetRow(s, row) ==
  /\ changes < MaxChanges
  /\ policy[s] # row
  /\ policy' = [policy EXCEPT ![s] = row]
  /\ changes' = changes + 1
  /\ UNCHANGED <<turn, memo, l2, warm, rank, ticks, said>>

\* PUT /v1/admin/org/routing-policy.
SetOrgPolicy(s, row) ==
  /\ OrgOf[s] = s
  /\ ValidBindings(s, row) /\ ValidCustom(s, row)
  /\ ValidTaxonomy(row) /\ ValidClassifier(s, row)
  /\ SetRow(s, row)

\* PUT /v1/admin/teams/{team_id}/routing-policy: the classifier is the org's.
SetTeamPolicy(s, row) ==
  /\ OrgOf[s] # s
  /\ row.clf = None
  /\ ValidBindings(s, row) /\ ValidCustom(s, row) /\ ValidTaxonomy(row)
  /\ SetRow(s, row)

\* _benchmark_refresher: run_refresh, which is not in the repository, swaps the
\* scores of the shared table.
RefreshBenchmarks ==
  /\ changes < MaxChanges
  /\ rank' \in Rankings \ {rank}
  /\ changes' = changes + 1
  /\ UNCHANGED <<turn, memo, l2, warm, policy, ticks, said>>

Aged(rows) == {[x EXCEPT !.left = @ - 1] : x \in {y \in rows : y.left > 1}}

\* Redis drops what expired; of an expired row of L1 no lookup sees anything.
Tick ==
  /\ ticks < MaxTicks
  /\ ticks' = ticks + 1
  /\ memo' = [p \in Replica |-> Aged(memo[p])]
  /\ l2' = Aged(l2)
  /\ warm' = [p \in Replica |->
       {[w EXCEPT !.age = IF @ < Window THEN @ + 1 ELSE @] : w \in warm[p]}]
  /\ UNCHANGED <<turn, policy, rank, changes, said>>

Next ==
  \/ \E t \in Turn : \/ L2Hit(t) \/ L2Miss(t) \/ Classified(t) \/ ClassifyFails(t)
                     \/ Share(t) \/ Serve(t) \/ ServeFails(t)
                     \/ \E p \in SitesOf[t], s \in ScopesOf[t], ask \in AsksOf[t] :
                          \/ Arrive(t, p, s, ask) \/ ArriveExplicit(t, p, s, ask)
                          \/ PolicyError(t, p, s, ask)
  \/ \E s \in Scope : \E row \in Bodies[s] : SetOrgPolicy(s, row) \/ SetTeamPolicy(s, row)
  \/ RefreshBenchmarks \/ Tick

Spec == Init /\ [][Next]_vars

-----------------------------------------------------------------------------
Routed(t) == turn[t].pc = "routed"

Labelled(t) == Routed(t) /\ turn[t].label # None

\* However a turn came by its label - its own classification, a slid memo row,
\* a row another replica shared - label and data label are a pair the
\* classifier gave to this conversation, in the turn's own vocabulary; and so
\* are the rows kept for the turns to come.
LabelsTravelTogether ==
  /\ \A t \in Turn : Labelled(t) =>
       /\ <<ConvOf(t), turn[t].label, turn[t].data>> \in said
       /\ turn[t].label \in Vocab(turn[t].pol)
  /\ \A x \in l2 \cup UNION {memo[p] : p \in Replica} :
       <<x.key[1], x.label, x.data>> \in said

\* An operator's binding, in the policy the turn was read with, that suits the
\* turn decides it, whatever model the conversation is warm on and whatever the
\* benchmarks prefer.
BindingsBeatWarmth ==
  \A t \in Turn : Labelled(t) /\ turn[t].ask # "explicit" =>
    LET b == BoundTo(turn[t].pol, turn[t].label)
    IN  ToolsOk(turn[t].pol, turn[t].ask = "tools", b) => turn[t].model = b

\* A turn with tools is never routed to a model without native tools while the
\* caller's catalog has one with them, not even by a warm incumbent of turns
\* that had none.
ToolsReachTools ==
  \A t \in Turn :
    Routed(t) /\ turn[t].ask = "tools" /\ turn[t].pol.cat \cap ToolModel # {}
      => turn[t].model \in ToolModel

\* The other served turns of t's conversation on t's replica.
Earlier(t) ==
  {s \in Turn \ {t} : /\ turn[s].served # None /\ ConvOf(s) = ConvOf(t)
                      /\ turn[s].at = turn'[t].at}

\* A refresh of the benchmarks does not move a conversation off the model whose
\* prompt cache is warm: a turn that no binding decides stays with the model
\* that served the conversation within the window, as long as that model
\* still suits it.
WarmConversationStays ==
  [][\A t \in Turn, m \in Model :
       LET n == turn'[t] IN
       /\ ~Routed(t) /\ n.pc = "routed" /\ n.label # None /\ n.ask # "explicit"
       /\ BoundTo(n.pol, n.label) = None
       /\ Earlier(t) # {}
       /\ \A s \in Earlier(t) :
            turn[s].served = m /\ turn[s].warmed /\ ticks < turn[s].when + Window
       /\ ToolsOk(n.pol, n.ask = "tools", m) /\ Permits(n.pol, m)
       => n.model = m]_vars

\* The model a classification of turn t runs on.
Classifier(t) == IF turn[t].pol.clf = None THEN DefaultClassifier ELSE turn[t].pol.clf

\* admin_routing.py: the classifier "guards data egress for the whole org's
\* taxonomy".  While the org has a taxonomy with local-only or denied data and
\* a classifier inside the perimeter, no turn of the org under such a taxonomy,
\* whatever team it comes from, has its text read by a classifier outside.
ClassifierGuardsOrg ==
  \A t \in Turn : turn[t].pc = "classify" /\ RequiresLocal(turn[t].pol) =>
    LET org == policy[OrgOf[turn[t].scope]]
    IN  org # None /\ org.clf # None /\ RequiresLocal(org) => Classifier(t) \in InPerimeter
=============================================================================
