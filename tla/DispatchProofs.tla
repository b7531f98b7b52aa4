--------------------------- MODULE DispatchProofs ---------------------------
(***************************************************************************)
(* Theorems about Dispatch, for any number of concurrent requests, any     *)
(* catalog, any configurations and any budget.  The invariant is local to  *)
(* a request - OK speaks of its record, its rows and what it sent - except *)
(* for the budget, where a refusal rests on the spend of all requests.     *)
(* Nothing is assumed of the breakers: they may answer anything.           *)
(***************************************************************************)
EXTENDS Dispatch, BreakerCluster, FiniteSetTheorems, SequenceTheorems,
        WellFoundedInduction, TLAPS

-----------------------------------------------------------------------------
\* The pure parts.

\* A non-empty set of naturals has a least element: what lets a proof go by
\* the least counterexample.
LEMMA Least ==
  ASSUME NEW S \in SUBSET Nat, S # {}
  PROVE  \E n \in S : \A x \in S : n <= x
<1>1. PICK n \in S : \A x \in S : ~(<<x, n>> \in OpToRel(<, Nat))
  BY NatLessThanWellFounded, WFMin
<1>2. \A x \in S : ~(x < n) BY <1>1 DEF OpToRel
<1> QED BY <1>2

\* Kept keeps entries of the catalog, and only the ones asked for.
LEMMA KeptIs ==
  ASSUME NEW S
  PROVE  /\ Kept(S) \in Seq(Model)
         /\ \A i \in DOMAIN Kept(S) : Kept(S)[i] \in S
<1> DEFINE N == Len(Catalog)
           Rule(g, m) == [n \in 0..m |->
              IF n = 0 THEN <<>>
              ELSE IF Catalog[n] \in S THEN Append(g[n - 1], Catalog[n]) ELSE g[n - 1]]
           Good(g, n) == g[n] \in Seq(Model) /\ \A i \in DOMAIN g[n] : g[n][i] \in S
<1>0. N \in Nat /\ \A n \in 1..N : Catalog[n] \in Model BY DispatchAssumption
<1>1. \A m \in Nat : m <= N => \E g : g = Rule(g, m)
  <2> DEFINE Has(m) == \E g : g = Rule(g, m)
             Bad == {m \in Nat : m <= N /\ ~Has(m)}
  <2>0. \A x : x \in Bad <=> x \in Nat /\ x <= N /\ ~Has(x) OBVIOUS
  <2> HIDE DEF Bad, Has
  <2> SUFFICES ASSUME Bad # {} PROVE FALSE BY <2>0 DEF Has
  <2>1. PICK m \in Bad : \A x \in Bad : m <= x
    <3>1. Bad \in SUBSET Nat BY <2>0
    <3> QED BY <3>1, Least
  <2>2. m \in Nat /\ m <= N /\ ~Has(m) BY <2>0, <2>1
  <2>3. Has(0)
    <3> DEFINE g == [n \in 0..0 |-> <<>>]
    <3>1. g = Rule(g, 0) OBVIOUS
    <3> HIDE DEF g
    <3> QED BY <3>1 DEF Has
  <2>4. m - 1 \in Nat /\ m - 1 <= N /\ m - 1 \notin Bad
    <3> HIDE DEF N
    <3> QED BY <1>0, <2>1, <2>2, <2>3
  <2>5. PICK g : g = Rule(g, m - 1) BY <2>0, <2>4 DEF Has
  <2> DEFINE h == [n \in 0..m |-> IF n < m THEN g[n] ELSE
                     IF Catalog[m] \in S THEN Append(g[m - 1], Catalog[m]) ELSE g[m - 1]]
  <2>6. \A n \in 0..(m-1) : g[n] = IF n = 0 THEN <<>>
              ELSE IF Catalog[n] \in S THEN Append(g[n - 1], Catalog[n]) ELSE g[n - 1]
    BY <2>5
  <2>7. \A n \in 0..m : h[n] = IF n = 0 THEN <<>>
              ELSE IF Catalog[n] \in S THEN Append(h[n - 1], Catalog[n]) ELSE h[n - 1]
    BY <2>2, <2>4, <2>6
  <2>8. h = Rule(h, m) BY <2>7
  <2> HIDE DEF h
  <2> QED BY <2>2, <2>8 DEF Has
<1>2. PICK g : g = Rule(g, N) /\ Kept(S) = g[N]
  <2> DEFINE f == CHOOSE g : g = Rule(g, N)
  <2>1. f = Rule(f, N)
    <3> HIDE DEF Rule, N
    <3>0. N <= N BY <1>0
    <3>1. \E g : g = Rule(g, N) BY <1>0, <1>1, <3>0
    <3> QED BY <3>1
  <2>2. Kept(S) = f[N] BY DEF Kept
  <2> HIDE DEF f
  <2> QED BY <2>1, <2>2
<1>3. \A n \in 0..N : g[n] = IF n = 0 THEN <<>>
              ELSE IF Catalog[n] \in S THEN Append(g[n - 1], Catalog[n]) ELSE g[n - 1]
    BY <1>2
<1>4. Good(g, N)
  <2> DEFINE Bad == {n \in Nat : n <= N /\ ~Good(g, n)}
  <2>0. \A x : x \in Bad <=> x \in Nat /\ x <= N /\ ~Good(g, x) OBVIOUS
  <2> HIDE DEF Bad, Good
  <2> SUFFICES ASSUME Bad # {} PROVE FALSE
    <3> HIDE DEF N
    <3> QED BY <1>0, <2>0
  <2>1. PICK n \in Bad : \A x \in Bad : n <= x
    <3>1. Bad \in SUBSET Nat BY <2>0
    <3> QED BY <3>1, Least
  <2>2. n \in Nat /\ n <= N /\ ~Good(g, n) BY <2>0, <2>1
  <2>3. Good(g, 0)
    <3>1. g[0] = <<>> BY <1>0, <1>3
    <3> QED BY <3>1 DEF Good
  <2>4. n - 1 \in Nat /\ n - 1 <= N /\ n - 1 \notin Bad
    <3> HIDE DEF N
    <3> QED BY <1>0, <2>1, <2>2, <2>3
  <2>5. Good(g, n - 1) BY <2>0, <2>4
  <2>6. g[n] = IF Catalog[n] \in S THEN Append(g[n - 1], Catalog[n]) ELSE g[n - 1]
    BY <1>3, <2>2, <2>3
  <2>7. Catalog[n] \in Model BY <1>0, <2>2, <2>4
  <2>8. Good(g, n) BY <2>5, <2>6, <2>7 DEF Good
  <2> QED BY <2>2, <2>8
<1> HIDE DEF N
<1> QED BY <1>2, <1>4

LEMMA HeadKept ==
  ASSUME NEW S, Kept(S) # <<>>
  PROVE  Head(Kept(S)) \in S \cap Model
<1>1. Kept(S) \in Seq(Model) /\ \A i \in DOMAIN Kept(S) : Kept(S)[i] \in S BY KeptIs
<1>2. 1 \in DOMAIN Kept(S) /\ Head(Kept(S)) = Kept(S)[1] /\ Kept(S)[1] \in Model BY <1>1
<1> QED BY <1>1, <1>2

\* Where the guard and the residency rule send a request.
LEMMA InPerimeter == FirstInPerimeter # NoModel => FirstInPerimeter \in Perimeter \cap Model
<1>1. Kept(Perimeter \ Fake) # <<>> =>
        Head(Kept(Perimeter \ Fake)) \in (Perimeter \ Fake) \cap Model BY HeadKept
<1>2. Kept(Perimeter) # <<>> => Head(Kept(Perimeter)) \in Perimeter \cap Model BY HeadKept
<1> QED BY <1>1, <1>2 DEF FirstInPerimeter, FirstOf

LEMMA InLane == FirstInLane # NoModel => FirstInLane \in Model
BY HeadKept DEF FirstInLane, FirstOf

\* The minimum that _cheapest_permitted takes exists.
LEMMA CheapestIs == ASSUME NEW c PROVE Cheapest(c) \in Model \cup {NoModel}
<1> DEFINE s == Kept(c.permits)
           P == {Price[s[i]] : i \in DOMAIN s}
<1>1. s \in Seq(Model) BY KeptIs
<1>2. \A i \in DOMAIN s : s[i] \in Model /\ Price[s[i]] \in Nat /\ i \in Nat
  BY <1>1, DispatchAssumption
<1>3. CASE s = <<>> BY <1>3 DEF Cheapest
<1>4. CASE s # <<>>
  <2> HIDE DEF s
  <2>1. P \in SUBSET Nat /\ P # {}
    <3>1. 1 \in DOMAIN s BY <1>1, <1>4
    <3> QED BY <3>1, <1>2
  <2>2. PICK p \in P : \A x \in P : p <= x BY <2>1, Least
  <2> DEFINE I == {i \in DOMAIN s : Price[s[i]] = p}
  <2>3. I \in SUBSET Nat /\ I # {} BY <1>2, <2>2
  <2>4. PICK i \in I : \A x \in I : i <= x BY <2>3, Least
  <2>5. \A j \in DOMAIN s : \/ Price[s[i]] < Price[s[j]]
                            \/ Price[s[i]] = Price[s[j]] /\ i <= j
    <3> TAKE j \in DOMAIN s
    <3>1. Price[s[i]] = p /\ p <= Price[s[j]] BY <2>2, <2>4
    <3>2. p = Price[s[j]] => i <= j BY <2>4
    <3>3. Price[s[i]] \in Nat /\ Price[s[j]] \in Nat BY <1>2, <2>4
    <3> QED BY <3>1, <3>2, <3>3
  <2> DEFINE best == CHOOSE k \in DOMAIN s :
                 \A j \in DOMAIN s : \/ Price[s[k]] < Price[s[j]]
                                     \/ Price[s[k]] = Price[s[j]] /\ k <= j
  <2>6. best \in DOMAIN s BY <2>4, <2>5
  <2>7. Cheapest(c) = s[best] BY <1>4 DEF Cheapest, s
  <2> HIDE DEF best
  <2> QED BY <1>2, <2>6, <2>7
<1> QED BY <1>3, <1>4

\* The candidates of a plan: the planned entry first, the others of its residency.
LEMMA CandidatesAre ==
  ASSUME NEW c, NEW e \in Model
  PROVE  /\ Candidates(c, e) \in Seq(Model)
         /\ Len(Candidates(c, e)) >= 1
         /\ Candidates(c, e)[1] = e
         /\ e \in Perimeter =>
              \A k \in DOMAIN Candidates(c, e) : Candidates(c, e)[k] \in Perimeter
<1> DEFINE S == {m \in Model : m # e /\ m \notin Fake /\ (m \in Perimeter <=> e \in Perimeter)}
<1>1. /\ Fallbacks[e] \in Seq(Model)
      /\ \A k \in DOMAIN Fallbacks[e] : e \in Perimeter => Fallbacks[e][k] \in Perimeter
  <2>1. Kept(S) \in Seq(Model) /\ \A k \in DOMAIN Kept(S) : Kept(S)[k] \in S BY KeptIs
  <2>2. Fallbacks[e] = <<>> \/ Fallbacks[e] = Kept(S) BY DEF Fallbacks
  <2>3. CASE Fallbacks[e] = <<>> BY <2>3
  <2>4. CASE Fallbacks[e] = Kept(S)
    <3>1. \A m \in S : e \in Perimeter => m \in Perimeter OBVIOUS
    <3> HIDE DEF S
    <3> QED BY <2>1, <2>4, <3>1
  <2> QED BY <2>2, <2>3, <2>4
<1> DEFINE F == Fallbacks[e]
           C == <<e>> \o F
<1> HIDE DEF F, S
<1>2. F \in Seq(Model) /\ \A k \in DOMAIN F : e \in Perimeter => F[k] \in Perimeter
  BY <1>1 DEF F
<1>3. C \in Seq(Model) /\ Len(C) >= 1 /\ C[1] = e /\ Len(C) = 1 + Len(F) BY <1>2
<1>4. \A k \in DOMAIN C : e \in Perimeter => C[k] \in Perimeter
  <2> TAKE k \in DOMAIN C
  <2>1. k = 1 \/ (k - 1 \in DOMAIN F /\ C[k] = F[k - 1]) BY <1>2, <1>3
  <2> QED BY <1>2, <1>3, <2>1
<1>5. Candidates(c, e) = C \/ Candidates(c, e) = <<e>> BY DEF Candidates, F
<1> HIDE DEF C
<1>6. CASE Candidates(c, e) = <<e>> BY <1>6
<1> QED BY <1>3, <1>4, <1>5, <1>6

-----------------------------------------------------------------------------
\* The inductive invariant.

Early == {"new", "classify", "budget", "alert"}
Looping == {"peer", "wire", "clear", "record", "sleep"}
Refusals == {"degraded", "data_denied", "blocked", "not_permitted", "over_budget", "unknown"}
Outcomes == {"none", "served", "cached", "failed"} \cup Refusals
Exception == {"none", "open", "error"}

Configs(a, q) == ConfigsOf[a][q]
Config == UNION {Configs(a, q) : a \in Caps, q \in Req}

Request ==
  [pc : Early \cup Looping \cup {"done"}, cfg : Config \cup {NoModel},
   model : Model \cup {Smart, Empty, Unknown, NoModel}, cands : Seq(Model),
   i : Nat, attempt : Nat, outcome : Outcomes, lost : SUBSET Byok,
   over : BOOLEAN, late : BOOLEAN, first : Exception, raised : Exception]

TraceRow ==
  [model : Model, status : {"ok", "error", "denied", "blocked", "circuit_open"}]

\* The organisation refuses the request, or keeps its data inside.
Refused(c) == c.constraint = "deny" \/ c.degraded \in c.closed
Inside(c) ==
  c.constraint = "local_only" \/ c.guard = "downgrade_local" \/ c.rule = "residency"

Kin(c, s) ==
  FirstInPerimeter # NoModel /\ Inside(c) => \A k \in DOMAIN s : s[k] \in Perimeter

\* What holds of a request with record r, rows w, calls s and charges ch, if
\* the budget of its organisation is a: before planning nothing has happened;
\* in the loop the rows are the candidates left behind; and at the end they
\* tell the outcome.
Fits(a, q, r, w, s, ch) ==
  /\ r \in Request
  /\ w \in Seq(TraceRow)
  /\ s \in Seq(Model)
  /\ ch \in SUBSET Provider
  /\ r.pc # "new" => r.cfg \in Configs(a, q)

Untouched(r, w, s, ch) ==
  r.pc \in Early => w = <<>> /\ s = <<>> /\ ch = {} /\ r.cands = <<>> /\ r.i = 1

\* The first k - 1 candidates are behind, without success.
Behind(r, w, k) ==
  /\ Len(w) = k - 1
  /\ \A j \in 1..Len(w) : w[j].model = r.cands[j] /\ w[j].status # "ok"

InLoop(r, w, s) ==
  r.pc \in Looping =>
    /\ r.i \in 1..Len(r.cands)
    /\ Behind(r, w, r.i)
    /\ r.pc # "peer" => s # <<>> /\ s[Len(s)] = r.cands[r.i]

LeftOf(r) ==
  IF r.pc = "done" /\ r.i <= Len(r.cands) THEN r.i ELSE r.i - 1

Ending(r, w, s) ==
  r.pc = "done" =>
    /\ r.cands # <<>> /\ r.outcome # "degraded" =>
         /\ Len(w) = LeftOf(r) /\ Len(w) <= Len(r.cands)
         /\ \A j \in 1..Len(w) : w[j].model = r.cands[j]
    /\ r.outcome \in {"served", "cached"} <=> \E j \in 1..Len(w) : w[j].status = "ok"
    /\ \A j \in 1..Len(w) : w[j].status = "ok" => j = Len(w)
    /\ r.outcome = "served" => s # <<>> /\ w[Len(w)].model = s[Len(s)]
    /\ r.outcome = "failed" /\ r.raised = "open" =>
         w[Len(w)].status = "circuit_open" /\ Len(w) = Len(r.cands)
    /\ Len(w) = 0 <=> r.outcome = "unknown"

Outcome(r) == r.outcome = "none" <=> r.pc # "done"

Keys(r, ch) == r.pc # "new" => ch \cap r.cfg.keys = {}

Refusing(r, s) ==
  /\ r.pc # "new" /\ Refused(r.cfg) =>
       r.pc \in {"classify", "done"} /\ s = <<>> /\ r.outcome # "cached"
  /\ r.pc # "new" /\ r.cfg.guard = "block" => s = <<>> /\ r.pc \notin Looping
  /\ r.outcome = "over_budget" => s = <<>>

Local(r, s) == r.pc # "new" => Kin(r.cfg, r.cands) /\ Kin(r.cfg, s)

OK(a, q, r, w, s, ch) ==
  /\ Fits(a, q, r, w, s, ch)
  /\ Untouched(r, w, s, ch)
  /\ InLoop(r, w, s)
  /\ Ending(r, w, s)
  /\ Outcome(r)
  /\ Keys(r, ch)
  /\ Refusing(r, s)
  /\ Local(r, s)

\* The budget of the organisation is spent; and who may say so.
Spent == cap # "none" /\ Spend >= Limit
BudgetSays(r) == (r.over => Spent) /\ (r.outcome = "over_budget" => cap = "reject" /\ Spent)

IInv ==
  /\ req \in [Req -> Request]
  /\ DOMAIN rows = Req /\ DOMAIN sent = Req /\ DOMAIN charged = Req
  /\ cache \in [Model -> Model \cup {NoModel}]
  /\ cap \in Caps
  /\ verdict = "over" => Spent
  /\ \A q \in Req : OK(cap, q, req[q], rows[q], sent[q], charged[q]) /\ BudgetSays(req[q])

-----------------------------------------------------------------------------
\* Records and rows.

LEMMA RowIs ==
  ASSUME NEW m \in Model, NEW x \in {"ok", "error", "denied", "blocked", "circuit_open"}
  PROVE  Row(m, x) \in TraceRow /\ Row(m, x).model = m /\ Row(m, x).status = x
BY DEF Row, Begun, TraceRow

LEMMA EndedIs ==
  ASSUME NEW r \in Request, NEW o \in Outcomes
  PROVE  /\ Ended(r, o) \in Request
         /\ Ended(r, o).pc = "done" /\ Ended(r, o).outcome = o
         /\ Ended(r, o).cfg = r.cfg /\ Ended(r, o).cands = r.cands
         /\ Ended(r, o).i = r.i /\ Ended(r, o).raised = r.raised
         /\ Ended(r, o).over = r.over /\ Ended(r, o).lost = r.lost
BY DEF Ended, Request

\* One more row.
LEMMA Extend ==
  ASSUME NEW w \in Seq(TraceRow), NEW x \in TraceRow
  PROVE  /\ w \o <<x>> \in Seq(TraceRow)
         /\ Len(w \o <<x>>) = Len(w) + 1
         /\ \A j \in 1..Len(w) : (w \o <<x>>)[j] = w[j]
         /\ (w \o <<x>>)[Len(w) + 1] = x
OBVIOUS

LEMMA Unwritten == ASSUME NEW w \in Seq(TraceRow) PROVE w \o <<>> = w
BY ConcatEmptySeq

\* A refusal or an answer from the cache, before anything was sent.
LEMMA EarlyEnd ==
  ASSUME NEW a, NEW q, NEW r \in Request, NEW w \in Seq(TraceRow),
         NEW o \in Outcomes \ {"none", "served", "failed"},
         r.pc # "new" /\ r.cfg \in Configs(a, q), r.cands = <<>>,
         Len(w) = IF o = "unknown" THEN 0 ELSE 1,
         o # "unknown" => (w[1].status = "ok" <=> o = "cached"),
         o = "cached" => ~Refused(r.cfg)
  PROVE  OK(a, q, Ended(r, o), w, <<>>, {})
<1> DEFINE x == Ended(r, o)
<1>1. /\ x \in Request /\ x.pc = "done" /\ x.outcome = o /\ x.cfg = r.cfg
      /\ x.cands = <<>> /\ x.raised = r.raised
  BY EndedIs
<1> HIDE DEF x
<1>2. Fits(a, q, x, w, <<>>, {}) BY <1>1 DEF Fits
<1>3. Untouched(x, w, <<>>, {}) /\ InLoop(x, w, <<>>) BY <1>1 DEF Untouched, InLoop, Early, Looping
<1>4. Ending(x, w, <<>>)
  <2>1. CASE o = "unknown" BY <1>1, <2>1 DEF Ending
  <2>2. CASE o # "unknown" BY <1>1, <2>2 DEF Ending
  <2> QED BY <2>1, <2>2
<1>5. Outcome(x) /\ Keys(x, {}) /\ Refusing(x, <<>>) /\ Local(x, <<>>)
  BY <1>1 DEF Outcome, Keys, Refusing, Local, Kin, Looping
<1> QED BY <1>2, <1>3, <1>4, <1>5 DEF OK, x

\* A request in the candidate loop with candidate k next.
Ready(a, q, r, w, s, ch, k) ==
  /\ Fits(a, q, r, w, s, ch)
  /\ r.pc # "new" /\ r.outcome = "none"
  /\ k \in 1..(Len(r.cands) + 1)
  /\ Behind(r, w, k)
  /\ ~Refused(r.cfg) /\ r.cfg.guard # "block"
  /\ Keys(r, ch) /\ Local(r, s)

LEMMA LoopIsReady ==
  ASSUME NEW a, NEW q, NEW r, NEW w, NEW s, NEW ch,
         OK(a, q, r, w, s, ch), r.pc \in Looping
  PROVE  Ready(a, q, r, w, s, ch, r.i) /\ r.i <= Len(r.cands)
<1>1. r.pc # "new" /\ r.pc # "done" /\ r.pc \notin {"classify", "done"} BY DEF Looping
<1>2. r \in Request /\ r.cands \in Seq(Model) BY DEF OK, Fits, Request
<1>3. r.i \in 1..Len(r.cands) /\ Behind(r, w, r.i) BY DEF OK, InLoop
<1>4. r.i \in 1..(Len(r.cands) + 1) /\ r.i <= Len(r.cands) BY <1>2, <1>3
<1>5. r.outcome = "none" BY <1>1 DEF OK, Outcome
<1>6. ~Refused(r.cfg) /\ r.cfg.guard # "block" BY <1>1 DEF OK, Refusing
<1> QED BY <1>1, <1>3, <1>4, <1>5, <1>6 DEF OK, Ready

\* The loop ends in an error or in a fail-closed degradation.
LEMMA LoopEnd ==
  ASSUME NEW a, NEW q, NEW r, NEW w, NEW s, NEW ch, NEW k, NEW x \in Request,
         Ready(a, q, r, w, s, ch, k), Len(w) >= 1,
         x.pc = "done", x.cfg = r.cfg, x.cands = r.cands,
         \/ x.outcome = "degraded"
         \/ x.outcome = "failed" /\ Len(w) = LeftOf(x),
         x.outcome = "failed" /\ x.raised = "open" =>
           w[Len(w)].status = "circuit_open" /\ Len(w) = Len(x.cands)
  PROVE  OK(a, q, x, w, s, ch)
<1>0. w \in Seq(TraceRow) /\ r.cands \in Seq(Model) BY DEF Ready, Fits, Request
<1>1. Fits(a, q, x, w, s, ch) BY DEF Ready, Fits
<1>2. Untouched(x, w, s, ch) /\ InLoop(x, w, s) BY DEF Untouched, InLoop, Early, Looping
<1>3. Ending(x, w, s)
  <2>1. Len(w) = k - 1 /\ k \in 1..(Len(x.cands) + 1) BY DEF Ready, Behind
  <2>2. Len(w) <= Len(x.cands) /\ Len(w) # 0 BY <1>0, <2>1
  <2>3. \A j \in 1..Len(w) : w[j].model = x.cands[j] /\ w[j].status # "ok" BY DEF Ready, Behind
  <2> QED BY <2>2, <2>3 DEF Ending
<1>4. Outcome(x) /\ Keys(x, ch) /\ Refusing(x, s) /\ Local(x, s)
  BY DEF Ready, Outcome, Keys, Refusing, Local, Looping
<1> QED BY <1>1, <1>2, <1>3, <1>4 DEF OK

\* The loop goes on: candidate x.i is next, or on the wire.
LEMMA LoopOn ==
  ASSUME NEW a, NEW q, NEW r, NEW w, NEW s, NEW ch, NEW x \in Request,
         Ready(a, q, r, w, s, ch, x.i),
         x.pc \in Looping, x.outcome = "none", x.cfg = r.cfg, x.cands = r.cands,
         x.i <= Len(x.cands),
         x.pc # "peer" => s # <<>> /\ s[Len(s)] = x.cands[x.i]
  PROVE  OK(a, q, x, w, s, ch)
<1>0. x.pc # "new" /\ x.pc # "done" /\ x.pc \notin Early BY DEF Looping, Early
<1>1. Fits(a, q, x, w, s, ch) BY <1>0 DEF Ready, Fits
<1>2. x.i \in 1..Len(x.cands)
  <2>1. x.i \in 1..(Len(x.cands) + 1) /\ x.cands \in Seq(Model) BY DEF Ready, Request
  <2> QED BY <2>1
<1>3. Untouched(x, w, s, ch) /\ InLoop(x, w, s) /\ Ending(x, w, s)
  BY <1>0, <1>2 DEF Untouched, InLoop, Ending, Ready, Behind
<1>4. Outcome(x) /\ Keys(x, ch) /\ Refusing(x, s) /\ Local(x, s)
  BY <1>0 DEF Ready, Outcome, Keys, Refusing, Local
<1> QED BY <1>1, <1>3, <1>4 DEF OK

LeftBehind(a, q, r, w, s, ch, k, row) ==
  Ready(a, q, r, w, s, ch, k + 1) /\ Len(w) = k /\ w[k] = row /\ k \in Nat

\* A candidate is left behind with a row that is not ok.
LEMMA LeaveBehind ==
  ASSUME NEW a, NEW q, NEW r, NEW w, NEW s, NEW ch, NEW k,
         Ready(a, q, r, w, s, ch, k), k <= Len(r.cands),
         NEW row \in TraceRow, row.model = r.cands[k], row.status # "ok",
         NEW after, after = w \o <<row>>
  PROVE  LeftBehind(a, q, r, after, s, ch, k, row)
<1>1. w \in Seq(TraceRow) /\ r.cands \in Seq(Model) /\ k \in 1..(Len(r.cands) + 1)
  BY DEF Ready, Fits, Request
<1>2. k \in 1..Len(r.cands) BY <1>1
<1>4. /\ after \in Seq(TraceRow) /\ Len(after) = Len(w) + 1
      /\ \A j \in 1..Len(w) : after[j] = w[j]
      /\ after[Len(w) + 1] = row
  BY <1>1, Extend
<1>5. Len(w) = k - 1 /\ \A j \in 1..Len(w) : w[j].model = r.cands[j] /\ w[j].status # "ok"
  BY DEF Ready, Behind
<1>6. Len(after) = k /\ after[k] = row BY <1>1, <1>4, <1>5
<1>7. \A j \in 1..Len(after) : after[j].model = r.cands[j] /\ after[j].status # "ok"
  <2> TAKE j \in 1..Len(after)
  <2>1. j = k \/ j \in 1..Len(w) BY <1>1, <1>5, <1>6
  <2> QED BY <1>4, <1>5, <1>6, <2>1
<1>8. Behind(r, after, k + 1) BY <1>1, <1>6, <1>7 DEF Behind
<1>9. k + 1 \in 1..(Len(r.cands) + 1) BY <1>1, <1>2
<1>10. Ready(a, q, r, after, s, ch, k + 1) BY <1>4, <1>8, <1>9 DEF Ready, Fits
<1> QED BY <1>1, <1>6, <1>10 DEF LeftBehind

\* A candidate is a model.
LEMMA CandIsModel ==
  ASSUME NEW a, NEW q, NEW r, NEW w, NEW s, NEW ch, NEW k,
         Ready(a, q, r, w, s, ch, k), k <= Len(r.cands)
  PROVE  r.cands[k] \in Model /\ k \in 1..Len(r.cands)
<1>1. r.cands \in Seq(Model) /\ k \in 1..(Len(r.cands) + 1) BY DEF Ready, Fits, Request
<1> QED BY <1>1

\* A step of one request: function g is f with the value y at q.
Only(f, g, q, y) == DOMAIN g = Req /\ g[q] = y /\ \A p \in Req \ {q} : g[p] = f[p]

\* A step of q leaves its record x, its rows v, its calls t and its charges u.
Moves(q, x, v, t, u) ==
  /\ Only(req, req', q, x) /\ req' = [p \in Req |-> req'[p]]
  /\ Only(rows, rows', q, v) /\ Only(sent, sent', q, t) /\ Only(charged, charged', q, u)

LEMMA SetWrite ==
  ASSUME IInv, NEW q \in Req
  PROVE  /\ \A x : Set(q, x) => Only(req, req', q, x) /\ req' = [p \in Req |-> req'[p]]
         /\ \A v : Write(q, v) => Only(rows, rows', q, rows[q] \o v)
         /\ UNCHANGED rows => Only(rows, rows', q, rows[q])
         /\ UNCHANGED wire => Only(sent, sent', q, sent[q]) /\ Only(charged, charged', q, charged[q])
BY DEF IInv, Set, Write, Only, wire

LEMMA Assoc ==
  ASSUME NEW u \in Seq(TraceRow), NEW v \in Seq(TraceRow), NEW w \in Seq(TraceRow)
  PROVE  u \o (v \o w) = (u \o v) \o w
BY ConcatAssociative

\* The open breakers in front: how many candidates Seek skips.
LEMMA SkipCount ==
  ASSUME NEW k \in Nat, NEW last \in Nat, k >= 1, k <= last + 1,
         NEW skip \in SUBSET (k..last)
  PROVE  /\ Cardinality(skip) \in Nat
         /\ k + Cardinality(skip) <= last + 1
         /\ skip # {} => Cardinality(skip) >= 1 /\ k <= last
         /\ skip = {} => Cardinality(skip) = 0
<1>1. IsFiniteSet(k..last) /\ Cardinality(k..last) = IF k > last THEN 0 ELSE last - k + 1
  BY FS_Interval
<1>2. IsFiniteSet(skip) /\ Cardinality(skip) <= Cardinality(k..last) BY <1>1, FS_Subset
<1>3. Cardinality(skip) \in Nat BY <1>2, FS_CardinalityType
<1>4. Cardinality(skip) = 0 <=> skip = {} BY <1>2, FS_EmptySet
<1>5. Cardinality(k..last) = last - k + 1 BY <1>1
<1> DEFINE c == Cardinality(skip)
           d == Cardinality(k..last)
<1>6. c \in Nat /\ (c = 0 <=> skip = {}) /\ c <= d /\ d = last - k + 1 BY <1>2, <1>3, <1>4, <1>5
<1> HIDE DEF c, d
<1>7. k + c <= last + 1 /\ (c # 0 => c >= 1 /\ k <= last) BY <1>6
<1> QED BY <1>6, <1>7 DEF c

\* The last row tells of an open breaker.
Shut(w) == w[Len(w)].status = "circuit_open"

Passed(a, q, r, w, s, ch, k, m) == Ready(a, q, r, w, s, ch, k + m) /\ (m # 0 => Shut(w))

\* Seek passes over m candidates, with a row for each.
LEMMA PassOver ==
  ASSUME NEW a, NEW q, NEW r, NEW w, NEW s, NEW ch, NEW k, NEW m \in Nat,
         NEW passed \in [1..m -> TraceRow],
         \A h \in 1..m : passed[h] = Row(r.cands[k + h - 1], "circuit_open"),
         Ready(a, q, r, w, s, ch, k), k + m <= Len(r.cands) + 1,
         NEW after, after = w \o passed
  PROVE  Passed(a, q, r, after, s, ch, k, m)
<1>1. w \in Seq(TraceRow) /\ r.cands \in Seq(Model) /\ k \in 1..(Len(r.cands) + 1)
  BY DEF Ready, Fits, Request
<1>2. Len(w) = k - 1 /\ \A j \in 1..Len(w) : w[j].model = r.cands[j] /\ w[j].status # "ok"
  BY DEF Ready, Behind
<1>3. \A h \in 1..m : r.cands[k + h - 1] \in Model BY <1>1
<1>4. \A h \in 1..m : /\ passed[h] \in TraceRow
                      /\ passed[h].model = r.cands[k + h - 1] /\ passed[h].status = "circuit_open"
  BY <1>3, RowIs
<1>5. passed \in Seq(TraceRow) /\ Len(passed) = m BY <1>4
<1>6. /\ after \in Seq(TraceRow) /\ Len(after) = Len(w) + m
      /\ \A j \in 1..(Len(w) + m) : after[j] = IF j <= Len(w) THEN w[j] ELSE passed[j - Len(w)]
  BY <1>1, <1>5, ConcatProperties
<1>7. Len(after) = k + m - 1 BY <1>1, <1>2, <1>6
<1>8. \A j \in 1..Len(after) :
        /\ after[j].model = r.cands[j] /\ after[j].status # "ok"
        /\ j >= k => after[j].status = "circuit_open"
  <2> TAKE j \in 1..Len(after)
  <2>0. j \in 1..(Len(w) + m) /\ Len(w) \in Nat /\ k \in Nat BY <1>1, <1>6
  <2>1. CASE j <= Len(w)
    <3>1. j \in 1..Len(w) /\ ~(j >= k) BY <1>2, <2>0, <2>1
    <3>2. after[j] = w[j] BY <1>6, <2>0, <2>1
    <3> QED BY <1>2, <3>1, <3>2
  <2>2. CASE ~(j <= Len(w))
    <3>1. j - Len(w) \in 1..m /\ k + (j - Len(w)) - 1 = j BY <1>2, <2>0, <2>2
    <3>2. after[j] = passed[j - Len(w)] BY <1>6, <2>0, <2>2
    <3> QED BY <1>4, <3>1, <3>2
  <2> QED BY <2>1, <2>2
<1>9. Behind(r, after, k + m)
  <2>1. Len(after) = (k + m) - 1 BY <1>1, <1>7
  <2>2. \A j \in 1..Len(after) : after[j].model = r.cands[j] /\ after[j].status # "ok" BY <1>8
  <2> QED BY <2>1, <2>2 DEF Behind
<1>10. k + m \in 1..(Len(r.cands) + 1) BY <1>1
<1>11. Ready(a, q, r, after, s, ch, k + m) BY <1>6, <1>9, <1>10 DEF Ready, Fits
<1>12. m # 0 => after[Len(after)].status = "circuit_open"
  <2> SUFFICES ASSUME m # 0 PROVE after[Len(after)].status = "circuit_open" OBVIOUS
  <2>1. Len(after) \in 1..Len(after) /\ Len(after) >= k BY <1>1, <1>7
  <2> QED BY <1>8, <2>1
<1> QED BY <1>11, <1>12 DEF Shut, Passed

SeekTo(a, q, r, w, s, ch, pre) ==
  \E x, v : \E tail \in Seq(TraceRow) :
    /\ v = w \o tail
    /\ Write(q, pre \o tail) /\ Set(q, x) /\ UNCHANGED wire
    /\ OK(a, q, x, v, s, ch)
    /\ x.over = r.over /\ x.outcome # "over_budget"

\* Seek: on to the next candidate that may be called, or the end.
LEMMA SeekEnds ==
  ASSUME NEW a, NEW q, NEW r, NEW w, NEW s, NEW ch, NEW k, NEW b, NEW pre,
         Ready(a, q, r, w, s, ch, k),
         k > Len(r.cands) => k > 1 /\ w[k - 1].status = "circuit_open",
         Seek(q, r, k, b, pre)
  PROVE  SeekTo(a, q, r, w, s, ch, pre)
<1> DEFINE last == Len(r.cands)
           skip == {j \in k..last : \A h \in k..j : ~Allow(BreakerOf(b, r.cands[h]))}
           n == Cardinality(skip)
           open == [h \in 1..n |-> Row(r.cands[k + h - 1], "circuit_open")]
           f == IF skip # {} THEN OrOpen(r.first) ELSE r.first
           r1 == [r EXCEPT !.i = k + n, !.attempt = 0, !.first = f]
<1>0. r \in Request /\ w \in Seq(TraceRow) /\ r.outcome = "none" /\ r.pc # "new"
  BY DEF Ready, Fits
<1>1. r.cands \in Seq(Model) /\ last \in Nat /\ k \in 1..(last + 1) /\ k \in Nat
  BY <1>0 DEF Ready, Request
<1>2. /\ n \in Nat /\ k + n <= last + 1
      /\ skip # {} => n >= 1 /\ k <= last
      /\ skip = {} => n = 0
  <2> DEFINE S == skip
  <2>1. S \in SUBSET (k..last) OBVIOUS
  <2> HIDE DEF S
  <2>2. /\ Cardinality(S) \in Nat /\ k + Cardinality(S) <= last + 1
        /\ S # {} => Cardinality(S) >= 1 /\ k <= last
        /\ S = {} => Cardinality(S) = 0
    BY <1>1, <2>1, SkipCount
  <2> QED BY <2>2 DEF S
<1>3. /\ IF skip # {} /\ FailsClosed(r.cfg, "breaker_open")
         THEN Write(q, pre \o <<open[1]>>) /\ Set(q, Ended(r, "degraded"))
         ELSE /\ Write(q, pre \o open)
              /\ Set(q, IF k + n > last
                        THEN Ended([r1 EXCEPT !.raised = r1.first], "failed")
                        ELSE [r1 EXCEPT !.pc = "peer"])
      /\ UNCHANGED wire
  BY DEF Seek
<1>f. f \in Exception BY <1>0 DEF Request, OrOpen, Exception
<1> HIDE DEF skip, n, f, open
<1>n. k + n \in Nat BY <1>1, <1>2
<1>4. /\ r1 \in Request /\ r1.i = k + n /\ r1.cfg = r.cfg /\ r1.cands = r.cands
      /\ r1.over = r.over /\ r1.outcome = "none" /\ r1.first \in Exception
  BY <1>0, <1>n, <1>f DEF Request
<1> HIDE DEF r1, last
<1>l. k > last => k > 1 /\ w[k - 1].status = "circuit_open" BY DEF last
<1>o. /\ open \in [1..n -> TraceRow]
      /\ \A h \in 1..n : open[h] = Row(r.cands[k + h - 1], "circuit_open")
  <2>1. \A h \in 1..n : r.cands[k + h - 1] \in Model
    <3> TAKE h \in 1..n
    <3>1. k + h - 1 \in 1..last BY <1>1, <1>2
    <3> QED BY <1>1, <3>1 DEF last
  <2> QED BY <2>1, RowIs DEF open
<1>p. k + n <= Len(r.cands) + 1 BY <1>2 DEF last
<1>v. PICK vv : vv = w \o open OBVIOUS
<1>5. /\ open \in Seq(TraceRow)
      /\ Ready(a, q, r, vv, s, ch, k + n)
      /\ Len(vv) = k + n - 1
      /\ n # 0 => Shut(vv)
      /\ n = 0 => vv = w
  <2>1. n \in Nat BY <1>2
  <2>2. open \in [1..n -> TraceRow] BY <1>o
  <2>3. \A h \in 1..n : open[h] = Row(r.cands[k + h - 1], "circuit_open") BY <1>o
  <2>4. open \in Seq(TraceRow) BY <2>1, <2>2
  <2>5. Passed(a, q, r, vv, s, ch, k, n) BY <2>1, <2>2, <2>3, <1>p, <1>v, PassOver
  <2>6. Len(vv) = k + n - 1
    <3>1. Len(vv) = (k + n) - 1 BY <2>5 DEF Passed, Ready, Behind
    <3> QED BY <1>1, <1>2, <3>1
  <2>7. Ready(a, q, r, vv, s, ch, k + n) /\ (n # 0 => Shut(vv)) BY <2>5 DEF Passed
  <2>8. n = 0 => vv = w
    <3>1. n = 0 => open = <<>> BY <2>2
    <3> QED BY <1>0, <1>v, <3>1, ConcatEmptySeq
  <2> QED BY <2>4, <2>6, <2>7, <2>8
<1>6. CASE skip # {} /\ FailsClosed(r.cfg, "breaker_open")
  <2> DEFINE d == Row(r.cands[k], "circuit_open")
             x == Ended(r, "degraded")
  <2>1. 1 \in 1..n /\ k + 1 - 1 = k /\ k <= last BY <1>1, <1>2, <1>6
  <2>2. open[1] = d BY <2>1, <1>o
  <2>3. k <= Len(r.cands) BY <2>1 DEF last
  <2>4. d \in TraceRow /\ d.model = r.cands[k] /\ d.status # "ok" BY <2>3, CandIsModel, RowIs
  <2>5. <<d>> \in Seq(TraceRow) BY <2>4
  <2> HIDE DEF d
  <2>v. PICK v : v = w \o <<d>> OBVIOUS
  <2>10. Ready(a, q, r, v, s, ch, k + 1) /\ Len(v) = k
    <3> HIDE DEF x
    <3>1. d \in TraceRow BY <2>4
    <3>2. d.model = r.cands[k] /\ d.status # "ok" BY <2>4
    <3>3. LeftBehind(a, q, r, v, s, ch, k, d) BY <2>3, <2>v, <3>1, <3>2, LeaveBehind
    <3> QED BY <3>3 DEF LeftBehind
  <2>7. Write(q, pre \o <<d>>) /\ Set(q, x) /\ UNCHANGED wire BY <1>3, <1>6, <2>2
  <2>9. /\ x \in Request /\ x.pc = "done" /\ x.outcome = "degraded" /\ x.cfg = r.cfg
        /\ x.cands = r.cands /\ x.over = r.over
    BY <1>0, EndedIs DEF Outcomes, Refusals
  <2> HIDE DEF x
  <2>11. Len(v) >= 1 BY <1>1, <2>10
  <2>12. OK(a, q, x, v, s, ch) BY <2>9, <2>10, <2>11, LoopEnd
  <2> QED BY <2>5, <2>v, <2>7, <2>9, <2>12 DEF SeekTo
<1>7. CASE ~(skip # {} /\ FailsClosed(r.cfg, "breaker_open"))
  <2> DEFINE y == [r1 EXCEPT !.raised = r1.first]
             x == IF k + n > last THEN Ended(y, "failed") ELSE [r1 EXCEPT !.pc = "peer"]
  <2>1. Write(q, pre \o open) /\ Set(q, x) /\ UNCHANGED wire BY <1>3, <1>7
  <2>4. CASE k + n > last
    <3>1. /\ y \in Request /\ y.i = k + n /\ y.cfg = r.cfg /\ y.cands = r.cands
          /\ y.over = r.over
      BY <1>4 DEF Request
    <3> HIDE DEF y
    <3>2. /\ x \in Request /\ x.pc = "done" /\ x.outcome = "failed" /\ x.cfg = r.cfg
          /\ x.cands = r.cands /\ x.over = r.over /\ x.i = k + n
      BY <2>4, <3>1, EndedIs DEF Outcomes
    <3> HIDE DEF x
    <3>3. k + n - 1 = last BY <1>1, <1>2, <2>4
    <3>4. Len(vv) = last /\ LeftOf(x) = last
      <4>1. Len(vv) = last BY <1>5, <3>3
      <4>2. ~(x.i <= Len(x.cands)) /\ x.i - 1 = last BY <1>1, <1>2, <2>4, <3>2, <3>3 DEF last
      <4> QED BY <4>1, <4>2, <3>2 DEF LeftOf
    <3>5. Len(vv) >= 1 /\ vv[last].status = "circuit_open"
      <4>1. CASE n = 0
        <5>1. k > last /\ k - 1 = last BY <1>1, <2>4, <3>3, <4>1
        <5>2. vv = w BY <1>5, <4>1
        <5>3. last >= 1 BY <1>1, <1>l, <5>1
        <5> QED BY <1>l, <3>4, <5>1, <5>2, <5>3
      <4>2. CASE n # 0
        <5>1. n >= 1 BY <1>2, <4>2
        <5>2. last >= 1 BY <1>1, <1>2, <3>3, <5>1
        <5>3. vv[Len(vv)].status = "circuit_open" BY <1>5, <4>2 DEF Shut
        <5> QED BY <3>3, <3>4, <5>2, <5>3
      <4> QED BY <4>1, <4>2
    <3>6. Ready(a, q, r, vv, s, ch, k + n) BY <1>5
    <3>7. Len(vv) = LeftOf(x) /\ Len(vv) >= 1 BY <3>4, <3>5
    <3>8. vv[Len(vv)].status = "circuit_open" /\ Len(vv) = Len(x.cands) BY <3>2, <3>4, <3>5 DEF last
    <3>9. OK(a, q, x, vv, s, ch) BY <3>2, <3>6, <3>7, <3>8, LoopEnd
    <3> QED BY <1>5, <1>v, <2>1, <3>2, <3>9 DEF SeekTo
  <2>5. CASE ~(k + n > last)
    <3>1. /\ x \in Request /\ x.pc = "peer" /\ x.outcome = "none" /\ x.cfg = r.cfg
          /\ x.cands = r.cands /\ x.over = r.over /\ x.i = k + n
      BY <1>4, <2>5 DEF Request, Looping
    <3> HIDE DEF x
    <3>2. x.i <= Len(x.cands) BY <1>1, <1>2, <2>5, <3>1 DEF last
    <3>3. Ready(a, q, r, vv, s, ch, x.i) BY <1>5, <3>1
    <3>4. OK(a, q, x, vv, s, ch) BY <3>1, <3>2, <3>3, LoopOn DEF Looping
    <3> QED BY <1>5, <1>v, <2>1, <3>1, <3>4 DEF SeekTo
  <2> QED BY <2>4, <2>5
<1> QED BY <1>6, <1>7

\* A step of q ends well for q.
Lands(q) ==
  \E x, v, t, u : /\ Moves(q, x, v, t, u)
                  /\ OK(cap, q, x, v, t, u)
                  /\ BudgetSays(x)

\* The same, as a step of the specification; pre are the rows due first.
LEMMA SeekOK ==
  ASSUME IInv, NEW q \in Req, NEW r, NEW k, NEW b, NEW pre \in Seq(TraceRow),
         NEW w, w = rows[q] \o pre,
         Ready(cap, q, r, w, sent[q], charged[q], k),
         k > Len(r.cands) => k > 1 /\ w[k - 1].status = "circuit_open",
         r.over => Spent,
         Seek(q, r, k, b, pre)
  PROVE  Lands(q)
<1>0. rows[q] \in Seq(TraceRow) BY DEF IInv, OK, Fits
<1>1. PICK x, v : \E tail \in Seq(TraceRow) :
           /\ v = w \o tail
           /\ Write(q, pre \o tail) /\ Set(q, x) /\ UNCHANGED wire
           /\ OK(cap, q, x, v, sent[q], charged[q])
           /\ x.over = r.over /\ x.outcome # "over_budget"
  <2>1. SeekTo(cap, q, r, w, sent[q], charged[q], pre) BY SeekEnds
  <2> QED BY <2>1 DEF SeekTo
<1>2. PICK tail \in Seq(TraceRow) :
           /\ v = w \o tail
           /\ Write(q, pre \o tail) /\ Set(q, x) /\ UNCHANGED wire
  BY <1>1
<1>3. rows[q] \o (pre \o tail) = v BY <1>0, <1>2, Assoc
<1>4. Moves(q, x, v, sent[q], charged[q]) BY <1>2, <1>3, SetWrite DEF Moves
<1>5. BudgetSays(x) BY <1>1 DEF BudgetSays
<1> QED BY <1>1, <1>4, <1>5 DEF Lands

-----------------------------------------------------------------------------
\* The steps of the candidate loop.

LEMMA RaiseIs ==
  ASSUME NEW r \in Request, NEW x, x = [Ended(r, "failed") EXCEPT !.raised = "error"]
  PROVE  /\ x \in Request /\ x.pc = "done" /\ x.outcome = "failed" /\ x.raised = "error"
         /\ x.cfg = r.cfg /\ x.cands = r.cands /\ x.i = r.i /\ x.over = r.over
<1> DEFINE y == Ended(r, "failed")
<1>1. /\ y \in Request /\ y.pc = "done" /\ y.outcome = "failed"
      /\ y.cfg = r.cfg /\ y.cands = r.cands /\ y.i = r.i /\ y.over = r.over
  BY EndedIs DEF Outcomes
<1>2. x = [y EXCEPT !.raised = "error"] OBVIOUS
<1> HIDE DEF y
<1> QED BY <1>1, <1>2 DEF Request, Exception

\* A candidate's own error ends the loop.
LEMMA RaiseOK ==
  ASSUME IInv, NEW q \in Req, NEW r,
         Ready(cap, q, r, rows[q], sent[q], charged[q], r.i), r.i <= Len(r.cands),
         r.over => Spent,
         Raise(q, r), Write(q, <<Row(r.cands[r.i], "error")>>), UNCHANGED wire
  PROVE  Lands(q)
<1> DEFINE d == Row(r.cands[r.i], "error")
<1>1. r \in Request BY DEF Ready, Fits
<1>2. r.cands[r.i] \in Model /\ r.i \in 1..Len(r.cands) BY CandIsModel
<1>3. d \in TraceRow /\ d.model = r.cands[r.i] /\ d.status = "error" BY <1>2, RowIs
<1>4. Write(q, <<d>>) OBVIOUS
<1> HIDE DEF d
<1>5. PICK x : x = [Ended(r, "failed") EXCEPT !.raised = "error"] OBVIOUS
<1>6. PICK v : v = rows[q] \o <<d>> OBVIOUS
<1>7. Set(q, x) BY <1>5 DEF Raise
<1>8. Moves(q, x, v, sent[q], charged[q]) BY <1>4, <1>6, <1>7, SetWrite DEF Moves
<1>9. /\ x \in Request /\ x.pc = "done" /\ x.outcome = "failed" /\ x.raised = "error"
      /\ x.cfg = r.cfg /\ x.cands = r.cands /\ x.i = r.i /\ x.over = r.over
  BY <1>1, <1>5, RaiseIs
<1>10. Ready(cap, q, r, v, sent[q], charged[q], r.i + 1) /\ Len(v) = r.i
  <2>1. PICK k : k = r.i OBVIOUS
  <2>2. Ready(cap, q, r, rows[q], sent[q], charged[q], k) BY <2>1
  <2>3. d.model = r.cands[k] /\ d.status # "ok" /\ k <= Len(r.cands) BY <1>3, <2>1
  <2>4. d \in TraceRow BY <1>3
  <2>5. LeftBehind(cap, q, r, v, sent[q], charged[q], k, d)
    BY <1>6, <2>2, <2>3, <2>4, LeaveBehind
  <2> QED BY <2>1, <2>5 DEF LeftBehind
<1>11. Len(v) >= 1 /\ Len(v) = LeftOf(x)
  BY <1>1, <1>2, <1>9, <1>10 DEF LeftOf
<1>12. OK(cap, q, x, v, sent[q], charged[q]) BY <1>9, <1>10, <1>11, LoopEnd
<1>13. BudgetSays(x) BY <1>9 DEF BudgetSays
<1> QED BY <1>8, <1>12, <1>13 DEF Lands

\* The key a call uses: one that is read, the caller's own where there is one.
LEMMA KeyIs ==
  ASSUME NEW r, NEW m, KeyFor(r, m) # "unreadable", KeyFor(r, m) # "own"
  PROVE  ProviderOf[m] \notin r.cfg.keys
<1>1. ProviderOf[m] \notin r.lost BY DEF KeyFor
<1>2. ProviderOf[m] \notin Own(r) BY <1>1 DEF KeyFor, Own
<1> QED BY <1>1, <1>2 DEF Own

\* runner.chat of the next candidate.
LEMMA OnWireOK ==
  ASSUME IInv, NEW q \in Req, NEW r, NEW m,
         Ready(cap, q, r, rows[q], sent[q], charged[q], r.i), r.i <= Len(r.cands),
         m = r.cands[r.i], r.over => Spent, OnWire(q, r, m)
  PROVE  Lands(q)
<1>1. CASE KeyFor(r, m) = "unreadable" BY <1>1, RaiseOK DEF OnWire
<1>2. CASE KeyFor(r, m) # "unreadable"
  <2>0. r \in Request /\ sent[q] \in Seq(Model) /\ charged[q] \in SUBSET Provider
    BY DEF Ready, Fits
  <2>1. PICK x : x = [r EXCEPT !.pc = "wire"] OBVIOUS
  <2>2. PICK t : t = Append(sent[q], m) OBVIOUS
  <2>3. PICK u : u = IF KeyFor(r, m) = "own" THEN charged[q]
                     ELSE charged[q] \cup {ProviderOf[m]} OBVIOUS
  <2>4. Set(q, x) /\ UNCHANGED rows BY <1>2, <2>1 DEF OnWire
  <2>5. Only(sent, sent', q, t) BY <1>2, <2>2 DEF OnWire, Only, IInv
  <2>6. Only(charged, charged', q, u) BY <1>2, <2>3 DEF OnWire, Only, IInv
  <2>7. Moves(q, x, rows[q], t, u) BY <2>4, <2>5, <2>6, SetWrite DEF Moves
  <2>8. m \in Model BY CandIsModel
  <2>9. t \in Seq(Model) /\ t # <<>> /\ t[Len(t)] = m BY <2>0, <2>2, <2>8
  <2>10. u \in SUBSET Provider BY <2>0, <2>3, <2>8 DEF Provider
  <2>11. Keys(r, u)
    <3>1. r.pc # "new" /\ charged[q] \cap r.cfg.keys = {} BY DEF Ready, Keys
    <3>2. CASE KeyFor(r, m) = "own" BY <2>3, <3>1, <3>2 DEF Keys
    <3>3. CASE KeyFor(r, m) # "own"
      <4>1. ProviderOf[m] \notin r.cfg.keys BY <1>2, <3>3, KeyIs
      <4> QED BY <2>3, <3>1, <3>3, <4>1 DEF Keys
    <3> QED BY <3>2, <3>3
  <2>12. Local(r, t)
    <3>1. r.pc # "new" /\ Kin(r.cfg, r.cands) /\ Kin(r.cfg, sent[q]) BY DEF Ready, Local
    <3>2. Kin(r.cfg, t)
      <4> SUFFICES ASSUME FirstInPerimeter # NoModel, Inside(r.cfg)
                   PROVE  \A j \in DOMAIN t : t[j] \in Perimeter
        BY DEF Kin
      <4>1. \A j \in DOMAIN sent[q] : sent[q][j] \in Perimeter BY <3>1 DEF Kin
      <4>2. m \in Perimeter
        <5>1. r.i \in DOMAIN r.cands BY <2>0, CandIsModel DEF Request
        <5> QED BY <3>1, <5>1 DEF Kin
      <4> QED BY <2>0, <2>2, <2>8, <4>1, <4>2
    <3> QED BY <3>1, <3>2 DEF Local
  <2>13. Ready(cap, q, r, rows[q], t, u, r.i) BY <2>9, <2>10, <2>11, <2>12 DEF Ready, Fits
  <2>14. /\ x \in Request /\ x.pc = "wire" /\ x.outcome = r.outcome /\ x.cfg = r.cfg
         /\ x.cands = r.cands /\ x.i = r.i /\ x.over = r.over
    BY <2>0, <2>1 DEF Request, Looping
  <2>15. x.outcome = "none" /\ x.pc \in Looping BY <2>14 DEF Ready, Looping
  <2>16. x.i <= Len(x.cands) /\ t[Len(t)] = x.cands[x.i] BY <2>9, <2>14
  <2>17. Ready(cap, q, r, rows[q], t, u, x.i) BY <2>13, <2>14
  <2>18. OK(cap, q, x, rows[q], t, u) BY <2>9, <2>14, <2>15, <2>16, <2>17, LoopOn
  <2>19. BudgetSays(x) BY <2>14, <2>15 DEF BudgetSays
  <2> QED BY <2>7, <2>18, <2>19 DEF Lands
<1> QED BY <1>1, <1>2

LEMMA RecordIn ==
  ASSUME IInv, NEW q \in Req
  PROVE  /\ OK(cap, q, req[q], rows[q], sent[q], charged[q]) /\ BudgetSays(req[q])
         /\ req[q] \in Request /\ rows[q] \in Seq(TraceRow)
BY DEF IInv, OK, Fits

\* The upstream answered: the row names the model that served.
LEMMA ServeOK ==
  ASSUME IInv, NEW q \in Req, req[q].pc \in {"wire", "clear"}, Serve(q), UNCHANGED wire
  PROVE  Lands(q) /\ cache' \in [Model -> Model \cup {NoModel}]
<1>1. PICK r : r = req[q] OBVIOUS
<1>2. r \in Request /\ r.pc \in {"wire", "clear"} BY <1>1, RecordIn
<1>3. OK(cap, q, r, rows[q], sent[q], charged[q]) /\ BudgetSays(r) BY <1>1, RecordIn
<1>4. r.pc \in Looping /\ r.pc # "peer" BY <1>2 DEF Looping
<1>5. Ready(cap, q, r, rows[q], sent[q], charged[q], r.i) /\ r.i <= Len(r.cands)
  BY <1>3, <1>4, LoopIsReady
<1>6. r.cands[r.i] \in Model /\ r.i \in 1..Len(r.cands) BY <1>5, CandIsModel
<1>7. sent[q] # <<>> /\ sent[q][Len(sent[q])] = r.cands[r.i] BY <1>3, <1>4 DEF OK, InLoop
<1>8. PICK d : d = Row(r.cands[r.i], "ok") OBVIOUS
<1>9. d \in TraceRow /\ d.model = r.cands[r.i] /\ d.status = "ok" BY <1>6, <1>8, RowIs
<1>10. PICK x : x = Ended(r, "served") OBVIOUS
<1>11. /\ x \in Request /\ x.pc = "done" /\ x.outcome = "served"
       /\ x.cfg = r.cfg /\ x.cands = r.cands /\ x.i = r.i /\ x.over = r.over
  BY <1>2, <1>10, EndedIs DEF Outcomes
<1>12. PICK v : v = rows[q] \o <<d>> OBVIOUS
<1>13. Set(q, x) /\ Write(q, <<d>>) BY <1>1, <1>8, <1>10 DEF Serve, Cand
<1>14. Moves(q, x, v, sent[q], charged[q]) BY <1>12, <1>13, SetWrite DEF Moves
<1>15. /\ Len(rows[q]) = r.i - 1
       /\ \A j \in 1..Len(rows[q]) : rows[q][j].model = r.cands[j] /\ rows[q][j].status # "ok"
  BY <1>5 DEF Ready, Behind
<1>16. /\ v \in Seq(TraceRow) /\ Len(v) = r.i /\ v[r.i] = d
       /\ \A j \in 1..Len(v) : j = r.i \/ (j \in 1..Len(rows[q]) /\ v[j] = rows[q][j])
  <2>1. rows[q] \in Seq(TraceRow) BY RecordIn
  <2>2. /\ v \in Seq(TraceRow) /\ Len(v) = Len(rows[q]) + 1
        /\ \A j \in 1..Len(rows[q]) : v[j] = rows[q][j]
        /\ v[Len(rows[q]) + 1] = d
    BY <2>1, <1>9, <1>12, Extend
  <2>3. Len(rows[q]) + 1 = r.i BY <1>6, <1>15, <2>1
  <2>4. \A j \in 1..Len(v) : j = r.i \/ j \in 1..Len(rows[q]) BY <2>1, <2>2, <2>3
  <2> QED BY <2>2, <2>3, <2>4
<1>17. \A j \in 1..Len(v) : v[j].model = r.cands[j] /\ (v[j].status = "ok" <=> j = Len(v))
  <2> TAKE j \in 1..Len(v)
  <2>1. CASE j = r.i BY <1>9, <1>16, <2>1
  <2>2. CASE j # r.i BY <1>15, <1>16, <2>2
  <2> QED BY <2>1, <2>2
<1>18. Fits(cap, q, x, v, sent[q], charged[q]) BY <1>5, <1>11, <1>16 DEF Ready, Fits
<1>19. Untouched(x, v, sent[q], charged[q]) /\ InLoop(x, v, sent[q])
  BY <1>11 DEF Untouched, InLoop, Early, Looping
<1>20. Ending(x, v, sent[q])
  <2>1. Len(v) = LeftOf(x) /\ Len(v) <= Len(x.cands) /\ Len(v) # 0 /\ Len(v) \in 1..Len(v)
    BY <1>2, <1>6, <1>11, <1>16 DEF LeftOf, Request
  <2>2. v[Len(v)].model = sent[q][Len(sent[q])] /\ v[Len(v)].status = "ok"
    BY <1>7, <1>9, <1>16
  <2> QED BY <1>7, <1>11, <1>17, <2>1, <2>2 DEF Ending
<1>21. Outcome(x) /\ Keys(x, charged[q]) /\ Refusing(x, sent[q]) /\ Local(x, sent[q])
  BY <1>5, <1>11 DEF Ready, Outcome, Keys, Refusing, Local, Looping
<1>22. OK(cap, q, x, v, sent[q], charged[q]) BY <1>18, <1>19, <1>20, <1>21 DEF OK
<1>23. BudgetSays(x) BY <1>3, <1>11 DEF BudgetSays
<1>24. cache' \in [Model -> Model \cup {NoModel}]
  <2>1. cache \in [Model -> Model \cup {NoModel}] BY DEF IInv
  <2>2. Cand(q) \in Model BY <1>1, <1>6 DEF Cand
  <2> QED BY <2>1, <2>2 DEF Serve, Seed
<1> QED BY <1>14, <1>22, <1>23, <1>24 DEF Lands

\* Retry, fall back or give up.
LEMMA AfterFailureOK ==
  ASSUME IInv, NEW q \in Req, req[q].pc \in {"wire", "record"}, NEW b, AfterFailure(q, b)
  PROVE  Lands(q)
<1>1. PICK p : p = req[q] OBVIOUS
<1>2. PICK r : r = [p EXCEPT !.first = IF @ = "none" THEN "error" ELSE @] OBVIOUS
<1>3. p \in Request /\ p.pc \in {"wire", "record"} BY <1>1, RecordIn
<1>4. /\ r \in Request /\ r.pc = p.pc /\ r.cfg = p.cfg /\ r.cands = p.cands /\ r.i = p.i
      /\ r.outcome = p.outcome /\ r.over = p.over /\ r.attempt = p.attempt
  <2>1. (IF p.first = "none" THEN "error" ELSE p.first) \in Exception
    BY <1>3 DEF Request, Exception
  <2> QED BY <1>2, <1>3, <2>1 DEF Request
<1>5. OK(cap, q, p, rows[q], sent[q], charged[q]) /\ BudgetSays(p) BY <1>1, RecordIn
<1>6. p.pc \in Looping /\ p.pc # "peer" BY <1>3 DEF Looping
<1>7. Ready(cap, q, p, rows[q], sent[q], charged[q], p.i) /\ p.i <= Len(p.cands)
  BY <1>5, <1>6, LoopIsReady
<1>8. Ready(cap, q, r, rows[q], sent[q], charged[q], r.i) /\ r.i <= Len(r.cands)
  BY <1>4, <1>7 DEF Ready, Fits, Behind, Keys, Local
<1>9. (p.over => Spent) /\ (r.over => Spent) BY <1>4, <1>5 DEF BudgetSays
<1>10. PICK d : d = Row(r.cands[r.i], "error") OBVIOUS
<1>11. Cand(q) = r.cands[r.i] /\ Cand(q) = p.cands[p.i] BY <1>1, <1>4 DEF Cand
<1>12. \/ Set(q, [r EXCEPT !.pc = "sleep"]) /\ UNCHANGED <<rows, wire>>
       \/ r.i < Len(r.cands) /\ Seek(q, r, r.i + 1, b, <<d>>)
       \/ Raise(q, p) /\ Write(q, <<Row(p.cands[p.i], "error")>>) /\ UNCHANGED wire
  BY <1>1, <1>2, <1>10, <1>11 DEF AfterFailure
<1>13. CASE Set(q, [r EXCEPT !.pc = "sleep"]) /\ UNCHANGED <<rows, wire>>
  <2>1. PICK x : x = [r EXCEPT !.pc = "sleep"] OBVIOUS
  <2>2. /\ x \in Request /\ x.pc = "sleep" /\ x.cfg = r.cfg /\ x.cands = r.cands
        /\ x.i = r.i /\ x.outcome = r.outcome /\ x.over = r.over
    BY <1>4, <2>1 DEF Request, Looping
  <2>3. Moves(q, x, rows[q], sent[q], charged[q]) BY <1>13, <2>1, SetWrite DEF Moves
  <2>4. x.outcome = "none" /\ x.pc \in Looping BY <1>8, <2>2 DEF Ready, Looping
  <2>5. sent[q] # <<>> /\ sent[q][Len(sent[q])] = x.cands[x.i]
    BY <1>4, <1>5, <1>6, <2>2 DEF OK, InLoop
  <2>6. Ready(cap, q, r, rows[q], sent[q], charged[q], x.i) /\ x.i <= Len(x.cands)
    BY <1>8, <2>2
  <2>7. OK(cap, q, x, rows[q], sent[q], charged[q]) BY <2>2, <2>4, <2>5, <2>6, LoopOn
  <2>8. BudgetSays(x) BY <1>9, <2>2, <2>4 DEF BudgetSays
  <2> QED BY <2>3, <2>7, <2>8 DEF Lands
<1>14. CASE r.i < Len(r.cands) /\ Seek(q, r, r.i + 1, b, <<d>>)
  <2>1. r.cands[r.i] \in Model /\ r.i \in 1..Len(r.cands) BY <1>8, CandIsModel
  <2>2. d \in TraceRow BY <1>10, <2>1, RowIs
  <2>3. d.model = r.cands[r.i] /\ d.status # "ok" BY <1>10, <2>1, RowIs
  <2>4. PICK w : w = rows[q] \o <<d>> OBVIOUS
  <2>5. PICK k : k = r.i OBVIOUS
  <2>6. Ready(cap, q, r, w, sent[q], charged[q], k + 1)
    <3>1. Ready(cap, q, r, rows[q], sent[q], charged[q], k) /\ k <= Len(r.cands) BY <1>8, <2>5
    <3>2. d.model = r.cands[k] /\ d.status # "ok" BY <2>3, <2>5
    <3>3. LeftBehind(cap, q, r, w, sent[q], charged[q], k, d)
      BY <2>2, <2>4, <3>1, <3>2, LeaveBehind
    <3> QED BY <3>3 DEF LeftBehind
  <2>7. PICK j : j = k + 1 OBVIOUS
  <2>8. ~(j > Len(r.cands)) BY <1>4, <1>14, <2>1, <2>5, <2>7
  <2>9. <<d>> \in Seq(TraceRow) BY <2>2
  <2>10. Seek(q, r, j, b, <<d>>) BY <1>14, <2>5, <2>7
  <2>11. Ready(cap, q, r, w, sent[q], charged[q], j) BY <2>6, <2>7
  <2> QED BY <1>9, <2>4, <2>8, <2>9, <2>10, <2>11, SeekOK
<1>15. CASE Raise(q, p) /\ Write(q, <<Row(p.cands[p.i], "error")>>) /\ UNCHANGED wire
  BY <1>7, <1>9, <1>15, RaiseOK
<1> QED BY <1>12, <1>13, <1>14, <1>15

-----------------------------------------------------------------------------
\* The steps before the loop.

\* Request q, its record about to become r, has sent nothing yet.
Waiting(q, r) ==
  /\ r \in Request /\ r.pc \in {"classify", "budget", "alert"}
  /\ r.cfg \in Configs(cap, q) /\ r.cands = <<>> /\ r.i = 1 /\ r.outcome = "none"
  /\ r.over => Spent
  /\ rows[q] = <<>> /\ sent[q] = <<>> /\ charged[q] = {}

LEMMA EarlyWaits ==
  ASSUME IInv, NEW q \in Req, req[q].pc \in {"classify", "budget", "alert"}
  PROVE  Waiting(q, req[q]) /\ (req[q].pc # "classify" => ~Refused(req[q].cfg))
<1>1. PICK r : r = req[q] OBVIOUS
<1>2. OK(cap, q, r, rows[q], sent[q], charged[q]) /\ BudgetSays(r) /\ r \in Request
  BY <1>1, RecordIn
<1>3. r.pc \in {"classify", "budget", "alert"} BY <1>1
<1>4. r.pc \in Early /\ r.pc # "new" /\ r.pc # "done" BY <1>3 DEF Early
<1>5. r.outcome = "none" BY <1>2, <1>4 DEF OK, Outcome
<1>6. r.cfg \in Configs(cap, q) BY <1>2, <1>4 DEF OK, Fits
<1>7. /\ rows[q] = <<>> /\ sent[q] = <<>> /\ charged[q] = {} /\ r.cands = <<>> /\ r.i = 1
  BY <1>2, <1>4 DEF OK, Untouched
<1>8. r.pc # "classify" => ~Refused(r.cfg) BY <1>2, <1>4 DEF OK, Refusing
<1>9. r.over => Spent BY <1>2 DEF BudgetSays
<1>10. Waiting(q, r) BY <1>2, <1>3, <1>5, <1>6, <1>7, <1>9 DEF Waiting
<1> QED BY <1>1, <1>8, <1>10

\* q goes on to another await before the loop.
LEMMA WaitOK ==
  ASSUME IInv, NEW q \in Req, NEW r, Waiting(q, r),
         r.pc # "classify" => ~Refused(r.cfg),
         Set(q, r), UNCHANGED rows, UNCHANGED wire
  PROVE  Lands(q)
<1>1. /\ r \in Request /\ r.pc \in {"classify", "budget", "alert"}
      /\ r.cfg \in Configs(cap, q) /\ r.cands = <<>> /\ r.i = 1 /\ r.outcome = "none"
      /\ r.over => Spent
      /\ rows[q] = <<>> /\ sent[q] = <<>> /\ charged[q] = {}
  BY DEF Waiting
<1>2. r.pc # "new" /\ r.pc # "done" /\ r.pc \notin Looping BY <1>1 DEF Looping
<1>3. Moves(q, r, <<>>, <<>>, {}) BY <1>1, SetWrite DEF Moves
<1>4. Fits(cap, q, r, <<>>, <<>>, {}) BY <1>1 DEF Fits
<1>5. Untouched(r, <<>>, <<>>, {}) /\ InLoop(r, <<>>, <<>>) /\ Ending(r, <<>>, <<>>)
  BY <1>1, <1>2 DEF Untouched, InLoop, Ending
<1>6. Outcome(r) /\ Keys(r, {}) /\ Refusing(r, <<>>) /\ Local(r, <<>>)
  BY <1>1, <1>2 DEF Outcome, Keys, Refusing, Local, Kin
<1>7. OK(cap, q, r, <<>>, <<>>, {}) BY <1>4, <1>5, <1>6 DEF OK
<1>8. BudgetSays(r) BY <1>1 DEF BudgetSays
<1> QED BY <1>3, <1>7, <1>8 DEF Lands

\* q ends before the loop, with w its rows.
LEMMA StopOK ==
  ASSUME IInv, NEW q \in Req, NEW r, Waiting(q, r),
         NEW o \in Outcomes \ {"none", "served", "failed"}, NEW w \in Seq(TraceRow),
         Len(w) = IF o = "unknown" THEN 0 ELSE 1,
         o # "unknown" => (w[1].status = "ok" <=> o = "cached"),
         o = "cached" => ~Refused(r.cfg),
         o = "over_budget" => cap = "reject" /\ Spent,
         Set(q, Ended(r, o)), Write(q, w), UNCHANGED wire
  PROVE  Lands(q)
<1>1. /\ r \in Request /\ r.pc # "new" /\ r.cfg \in Configs(cap, q) /\ r.cands = <<>>
      /\ r.over => Spent
      /\ rows[q] = <<>> /\ sent[q] = <<>> /\ charged[q] = {}
  BY DEF Waiting
<1>2. PICK x : x = Ended(r, o) OBVIOUS
<1>3. x.over = r.over /\ x.outcome = o BY <1>1, <1>2, EndedIs
<1>4. OK(cap, q, x, w, <<>>, {}) BY <1>1, <1>2, EarlyEnd
<1>5. rows[q] \o w = w BY <1>1, ConcatEmptySeq
<1>6. Set(q, x) BY <1>2
<1>7. Moves(q, x, w, <<>>, {}) BY <1>1, <1>5, <1>6, SetWrite DEF Moves
<1>8. BudgetSays(x) BY <1>1, <1>3 DEF BudgetSays
<1> QED BY <1>4, <1>7, <1>8 DEF Lands

LEMMA UnknownOK ==
  ASSUME IInv, NEW q \in Req, NEW r, Waiting(q, r),
         Set(q, Ended(r, "unknown")), UNCHANGED rows, UNCHANGED wire
  PROVE  Lands(q)
<1>1. /\ r \in Request /\ r.pc # "new" /\ r.cfg \in Configs(cap, q) /\ r.cands = <<>>
      /\ r.over => Spent
      /\ rows[q] = <<>> /\ sent[q] = <<>> /\ charged[q] = {}
  BY DEF Waiting
<1>2. PICK x : x = Ended(r, "unknown") OBVIOUS
<1>3. x.over = r.over /\ x.outcome = "unknown" BY <1>1, <1>2, EndedIs DEF Outcomes, Refusals
<1>4. OK(cap, q, x, <<>>, <<>>, {})
  <2>0. PICK w : w = <<>> OBVIOUS
  <2>1. w \in Seq(TraceRow) /\ w = <<>> BY <2>0
  <2>2. PICK o : o = "unknown" OBVIOUS
  <2>3. o \in Outcomes \ {"none", "served", "failed"} /\ o # "cached"
    BY <2>2 DEF Outcomes, Refusals
  <2>4. Len(w) = IF o = "unknown" THEN 0 ELSE 1 BY <2>1, <2>2
  <2>5. OK(cap, q, Ended(r, o), w, <<>>, {}) BY <1>1, <2>1, <2>2, <2>3, <2>4, EarlyEnd
  <2> QED BY <1>2, <2>1, <2>2, <2>5
<1>5. Set(q, x) BY <1>2
<1>6. Moves(q, x, <<>>, <<>>, {}) BY <1>1, <1>5, SetWrite DEF Moves
<1>7. BudgetSays(x) BY <1>1, <1>3 DEF BudgetSays
<1> QED BY <1>4, <1>6, <1>7 DEF Lands

\* Refuse: with a row, or without one for an id that names no model.
LEMMA RefuseOK ==
  ASSUME IInv, NEW q \in Req, NEW r, NEW m, Waiting(q, r),
         NEW o \in Refusals \ {"unknown"}, NEW x \in {"error", "denied", "blocked"},
         o = "over_budget" => cap = "reject" /\ Spent,
         Refuse(q, r, m, o, x), UNCHANGED wire
  PROVE  Lands(q)
<1>1. CASE Resolves(r.lost, m)
  <2>1. m \in Model BY <1>1 DEF Resolves
  <2>2. PICK d : d = Row(m, x) OBVIOUS
  <2>3. d \in TraceRow /\ d.status = x BY <2>1, <2>2, RowIs
  <2>4. PICK w : w = <<d>> OBVIOUS
  <2>5. w \in Seq(TraceRow) /\ Len(w) = 1 /\ w[1].status # "ok" BY <2>3, <2>4
  <2>6. Set(q, Ended(r, o)) /\ Write(q, w) BY <1>1, <2>2, <2>4 DEF Refuse
  <2>7. /\ o \in Outcomes \ {"none", "served", "failed"}
        /\ o # "cached" /\ o # "unknown"
    BY DEF Outcomes, Refusals
  <2> QED BY <2>5, <2>6, <2>7, StopOK
<1>2. CASE ~Resolves(r.lost, m) BY <1>2, UnknownOK DEF Refuse
<1> QED BY <1>1, <1>2

LEMMA SubstituteIs ==
  ASSUME NEW m \in Model \cup {Smart, Empty, Unknown, NoModel}
  PROVE  Substitute(m) \in Model \cup {Smart, Empty, Unknown, NoModel}
BY DispatchAssumption DEF Substitute

\* Where planning sends a request whose data must stay inside.
LEMMA DecideInside ==
  ASSUME NEW c, NEW m, c.guard \in {"allow", "downgrade_local"},
         FirstInPerimeter # NoModel, Inside(c)
  PROVE  Decide(c, m) \in Perimeter
<1>1. Verdict(c) = "downgrade_local" \/ c.rule = "residency" BY DEF Verdict, Inside
<1>2. Decide(c, m) = FirstInPerimeter BY <1>1 DEF Decide
<1> QED BY <1>2, InPerimeter

\* Planning, and the entry of the loop.
LEMMA LaunchOK ==
  ASSUME IInv, NEW q \in Req, NEW r, Waiting(q, r), ~Refused(r.cfg), Launch(q, r)
  PROVE  Lands(q)
<1>0. /\ r \in Request /\ r.pc # "new" /\ r.cfg \in Configs(cap, q) /\ r.cands = <<>>
      /\ r.i = 1 /\ r.outcome = "none" /\ (r.over => Spent)
      /\ rows[q] = <<>> /\ sent[q] = <<>> /\ charged[q] = {}
  BY DEF Waiting
<1> DEFINE plan == Plan(r.cfg, r.lost, r.model)
<1>1. CASE plan = "blocked"
  <2>1. Refuse(q, r, r.model, "blocked", "blocked") /\ UNCHANGED wire BY <1>1 DEF Launch
  <2> QED BY <2>1, RefuseOK DEF Refusals
<1>2. CASE plan = "unknown"
  <2>1. Set(q, Ended(r, "unknown")) /\ UNCHANGED rows /\ UNCHANGED wire BY <1>2 DEF Launch
  <2> QED BY <2>1, UnknownOK
<1>3. CASE plan = "not_permitted"
  <2>1. PICK e : e = Decide(r.cfg, Substitute(r.model)) OBVIOUS
  <2>2. Refuse(q, r, e, "not_permitted", "denied") /\ UNCHANGED wire
    BY <1>3, <2>1 DEF Launch
  <2> QED BY <2>2, RefuseOK DEF Refusals
<1>4. CASE plan \notin {"blocked", "unknown", "not_permitted"}
  <2>1. PICK m : m = Substitute(r.model) OBVIOUS
  <2>2. PICK e : e = Decide(r.cfg, m) OBVIOUS
  <2>3. PICK cands : cands = Candidates(r.cfg, e) OBVIOUS
  <2>4. PICK x : x = [r EXCEPT !.model = m, !.cands = cands] OBVIOUS
  <2>5. IF r.cfg.resilient THEN Seek(q, x, 1, br, <<>>) ELSE OnWire(q, x, e)
    BY <1>4, <2>1, <2>2, <2>3, <2>4 DEF Launch
  <2>6. r.cfg.guard # "block" /\ e \in Model
    BY <1>4, <2>1, <2>2 DEF Plan, Resolves
  <2>7. m \in Model \cup {Smart, Empty, Unknown, NoModel}
    BY <1>0, <2>1, SubstituteIs DEF Request
  <2>8. /\ cands \in Seq(Model) /\ Len(cands) >= 1 /\ cands[1] = e
        /\ e \in Perimeter => \A k \in DOMAIN cands : cands[k] \in Perimeter
    BY <2>3, <2>6, CandidatesAre
  <2>9. /\ x \in Request /\ x.pc = r.pc /\ x.cfg = r.cfg /\ x.cands = cands /\ x.i = 1
        /\ x.outcome = "none" /\ x.over = r.over
    BY <1>0, <2>4, <2>7, <2>8 DEF Request
  <2>10. Kin(x.cfg, x.cands)
    <3> SUFFICES ASSUME FirstInPerimeter # NoModel, Inside(r.cfg)
                 PROVE  \A k \in DOMAIN cands : cands[k] \in Perimeter
      BY <2>9 DEF Kin
    <3>1. cap \in Caps BY DEF IInv
    <3>2. r.cfg.guard \in {"allow", "downgrade_local", "block"}
      BY <1>0, <3>1, DispatchAssumption DEF Configs
    <3>3. r.cfg.guard \in {"allow", "downgrade_local"} BY <2>6, <3>2
    <3>4. e \in Perimeter BY <2>2, <3>3, DecideInside
    <3> QED BY <2>8, <3>4
  <2>11. Ready(cap, q, x, <<>>, <<>>, {}, 1)
    <3>1. Fits(cap, q, x, <<>>, <<>>, {}) BY <1>0, <2>9 DEF Fits
    <3>2. 1 \in 1..(Len(x.cands) + 1) /\ Behind(x, <<>>, 1) BY <2>8, <2>9 DEF Behind
    <3>3. Keys(x, {}) /\ Local(x, <<>>) BY <2>10 DEF Keys, Local, Kin
    <3> QED BY <1>0, <2>6, <2>9, <3>1, <3>2, <3>3 DEF Ready
  <2>12. ~(1 > Len(x.cands)) /\ x.i <= Len(x.cands) /\ e = x.cands[x.i] BY <2>8, <2>9
  <2>13. x.over => Spent BY <1>0, <2>9
  <2>14. Ready(cap, q, x, rows[q], sent[q], charged[q], 1) BY <1>0, <2>11
  <2>15. CASE r.cfg.resilient
    <3>1. PICK w : w = rows[q] \o <<>> OBVIOUS
    <3>2. w = <<>> BY <1>0, <3>1
    <3>3. Ready(cap, q, x, w, sent[q], charged[q], 1) BY <1>0, <2>14, <3>2
    <3>4. <<>> \in Seq(TraceRow) OBVIOUS
    <3>5. Seek(q, x, 1, br, <<>>) BY <2>5, <2>15
    <3> QED BY <2>12, <2>13, <3>1, <3>3, <3>4, <3>5, SeekOK
  <2>16. CASE ~r.cfg.resilient
    <3>1. OnWire(q, x, e) BY <2>5, <2>16
    <3>2. Ready(cap, q, x, rows[q], sent[q], charged[q], x.i) BY <2>9, <2>14
    <3> QED BY <2>12, <2>13, <3>1, <3>2, OnWireOK
  <2> QED BY <2>15, <2>16
<1> QED BY <1>1, <1>2, <1>3, <1>4

LEMMA BudgetModelIs ==
  ASSUME NEW c, NEW over, NEW m \in Model \cup {Smart, Empty, Unknown, NoModel}
  PROVE  BudgetModel(c, m, over) \in Model \cup {Smart, Empty, Unknown, NoModel}
BY CheapestIs DEF BudgetModel

\* _apply_budget, the cache, and on to planning.
LEMMA EnforceOK ==
  ASSUME IInv, NEW q \in Req, req[q].pc \in {"budget", "alert"},
         NEW over \in BOOLEAN, over => Spent, Enforce(q, over)
  PROVE  Lands(q)
<1>1. PICK p : p = req[q] OBVIOUS
<1>2. Waiting(q, p) /\ ~Refused(p.cfg) BY <1>1, EarlyWaits
<1>3. PICK m : m = BudgetModel(p.cfg, p.model, over) OBVIOUS
<1>4. PICK r : r = [p EXCEPT !.model = m, !.over = FALSE, !.late = FALSE] OBVIOUS
<1>5. p \in Request BY <1>2 DEF Waiting
<1>6. m \in Model \cup {Smart, Empty, Unknown, NoModel}
  <2>1. p.model \in Model \cup {Smart, Empty, Unknown, NoModel} BY <1>5 DEF Request
  <2> QED BY <1>3, <2>1, BudgetModelIs
<1>7. /\ r \in Request /\ r.pc = p.pc /\ r.cfg = p.cfg /\ r.cands = p.cands /\ r.i = p.i
      /\ r.outcome = p.outcome /\ r.over = FALSE
  BY <1>4, <1>5, <1>6 DEF Request
<1>8. Waiting(q, r) /\ ~Refused(r.cfg) BY <1>2, <1>7 DEF Waiting
<1>9. \/ over /\ cap = "reject" /\ Refuse(q, r, m, "over_budget", "error") /\ UNCHANGED wire
      \/ /\ CacheHit(r, m) /\ Set(q, Ended(r, "cached"))
         /\ Write(q, <<Row(cache[m], "ok")>>) /\ UNCHANGED wire
      \/ Launch(q, r)
  BY <1>1, <1>3, <1>4 DEF Enforce
<1>10. CASE over /\ cap = "reject" /\ Refuse(q, r, m, "over_budget", "error") /\ UNCHANGED wire
  BY <1>8, <1>10, RefuseOK DEF Refusals
<1>11. CASE /\ CacheHit(r, m) /\ Set(q, Ended(r, "cached"))
            /\ Write(q, <<Row(cache[m], "ok")>>) /\ UNCHANGED wire
  <2>1. m \in Model /\ cache[m] # NoModel
    <3>1. m \in Range(Catalog) /\ cache[m] # NoModel BY <1>11 DEF CacheHit, Cacheable
    <3> QED BY <3>1, DispatchAssumption DEF Range
  <2>2. cache[m] \in Model BY <2>1 DEF IInv
  <2>3. PICK d : d = Row(cache[m], "ok") OBVIOUS
  <2>4. d \in TraceRow /\ d.status = "ok" BY <2>2, <2>3, RowIs
  <2>5. PICK w : w = <<d>> OBVIOUS
  <2>6. w \in Seq(TraceRow) /\ Len(w) = 1 /\ w[1].status = "ok" BY <2>4, <2>5
  <2>7. PICK o : o = "cached" OBVIOUS
  <2>8. o \in Outcomes \ {"none", "served", "failed"} BY <2>7 DEF Outcomes
  <2>9. Set(q, Ended(r, o)) /\ Write(q, w) /\ UNCHANGED wire BY <1>11, <2>3, <2>5, <2>7
  <2> QED BY <1>8, <2>6, <2>7, <2>8, <2>9, StopOK
<1>12. CASE Launch(q, r) BY <1>8, <1>12, LaunchOK
<1> QED BY <1>9, <1>10, <1>11, <1>12

\* The fail policy and the data classification.
LEMMA GateOK ==
  ASSUME IInv, NEW q \in Req, NEW r, Waiting(q, r), Gate(q, r), UNCHANGED wire
  PROVE  Lands(q)
<1>1. CASE FailsClosed(r.cfg, r.cfg.degraded)
  <2>1. Refuse(q, r, r.model, "degraded", "error") BY <1>1 DEF Gate
  <2> QED BY <2>1, RefuseOK DEF Refusals
<1>2. CASE ~FailsClosed(r.cfg, r.cfg.degraded) /\ Denied(r.cfg)
  <2>1. Refuse(q, r, r.model, "data_denied", "denied") BY <1>2 DEF Gate
  <2> QED BY <2>1, RefuseOK DEF Refusals
<1>3. CASE ~FailsClosed(r.cfg, r.cfg.degraded) /\ ~Denied(r.cfg)
  <2>1. PICK x : x = [r EXCEPT !.pc = "budget"] OBVIOUS
  <2>2. Set(q, x) /\ UNCHANGED rows BY <1>3, <2>1 DEF Gate
  <2>3. r \in Request BY DEF Waiting
  <2>4. /\ x \in Request /\ x.pc = "budget" /\ x.cfg = r.cfg /\ x.cands = r.cands
        /\ x.i = r.i /\ x.outcome = r.outcome /\ x.over = r.over
    BY <2>1, <2>3 DEF Request, Early
  <2>5. Waiting(q, x) BY <2>4 DEF Waiting
  <2>6. ~Refused(x.cfg) BY <1>3, <2>4 DEF Refused, FailsClosed, Denied
  <2> QED BY <2>2, <2>5, <2>6, WaitOK
<1> QED BY <1>1, <1>2, <1>3

-----------------------------------------------------------------------------
\* The actions of one request.

LEMMA ArriveOK ==
  ASSUME IInv, NEW q \in Req, NEW c \in ConfigsOf[cap][q], Arrive(q, c)
  PROVE  Lands(q)
<1>1. PICK lost \in Unreadable(c) :
        LET r == [Fresh EXCEPT !.pc = "classify", !.cfg = c, !.lost = lost]
            known == c.model \in {Smart, Empty} \/ Resolves(lost, c.model)
        IN  Set(q, IF c.resilient /\ ~known THEN Ended(r, "unknown") ELSE r)
  BY DEF Arrive
<1>2. PICK r : r = [Fresh EXCEPT !.pc = "classify", !.cfg = c, !.lost = lost] OBVIOUS
<1>3. Set(q, Ended(r, "unknown")) \/ Set(q, r) BY <1>1, <1>2
<1>4. cap \in Caps /\ OK(cap, q, req[q], rows[q], sent[q], charged[q]) /\ req[q].pc = "new"
  BY DEF IInv, Arrive
<1>5. rows[q] = <<>> /\ sent[q] = <<>> /\ charged[q] = {} BY <1>4 DEF OK, Untouched, Early
<1>6. lost \in SUBSET Byok
  <2>1. c.keys \subseteq Byok BY <1>4, DispatchAssumption
  <2> QED BY <1>1, <2>1 DEF Unreadable
<1>7. c \in Config BY <1>4 DEF Config, Configs
<1>8. /\ r \in Request /\ r.pc = "classify" /\ r.cfg = c /\ r.cands = <<>> /\ r.i = 1
      /\ r.outcome = "none" /\ r.over = FALSE
  <2>1. r = [pc |-> "classify", cfg |-> c, model |-> NoModel, cands |-> <<>>,
             i |-> 1, attempt |-> 0, outcome |-> "none", lost |-> lost,
             over |-> FALSE, late |-> FALSE, first |-> "none", raised |-> "none"]
    BY <1>2 DEF Fresh
  <2>2. "classify" \in Early /\ "none" \in Outcomes /\ "none" \in Exception
    BY DEF Early, Outcomes, Exception
  <2>3. <<>> \in Seq(Model) OBVIOUS
  <2>4. r \in Request BY <1>6, <1>7, <2>1, <2>2, <2>3 DEF Request
  <2> QED BY <2>1, <2>4
<1>9. Waiting(q, r) BY <1>5, <1>8 DEF Waiting, Configs
<1>10. UNCHANGED rows /\ UNCHANGED wire BY DEF Arrive
<1> QED BY <1>3, <1>8, <1>9, <1>10, WaitOK, UnknownOK

LEMMA ClassifiedOK == ASSUME IInv, NEW q \in Req, Classified(q) PROVE Lands(q)
<1>1. PICK m \in (IF req[q].cfg.model = Smart THEN Range(Catalog) ELSE {req[q].cfg.model}) :
        Gate(q, [req[q] EXCEPT !.model = m])
  BY DEF Classified
<1>2. PICK p : p = req[q] OBVIOUS
<1>3. PICK r : r = [p EXCEPT !.model = m] OBVIOUS
<1>4. Waiting(q, p) BY <1>2, EarlyWaits DEF Classified
<1>5. p \in Request /\ p.cfg \in Configs(cap, q) BY <1>4 DEF Waiting
<1>6. m \in Model \cup {Smart, Empty, Unknown, NoModel}
  <2>1. cap \in Caps BY DEF IInv
  <2>2. p.cfg.model \in Model \cup {Smart, Empty, Unknown}
    BY <1>5, <2>1, DispatchAssumption DEF Configs
  <2>3. Range(Catalog) \subseteq Model BY DispatchAssumption DEF Range
  <2> QED BY <1>1, <1>2, <2>2, <2>3
<1>7. /\ r \in Request /\ r.pc = p.pc /\ r.cfg = p.cfg /\ r.cands = p.cands
      /\ r.i = p.i /\ r.outcome = p.outcome /\ r.over = p.over
  BY <1>3, <1>5, <1>6 DEF Request
<1>8. Waiting(q, r) BY <1>4, <1>7 DEF Waiting
<1>9. Gate(q, r) /\ UNCHANGED wire BY <1>1, <1>2, <1>3 DEF Classified
<1> QED BY <1>8, <1>9, GateOK

LEMMA BudgetReadOK == ASSUME IInv, NEW q \in Req, BudgetRead(q) PROVE Lands(q)
<1>1. PICK over \in OverIfRead(cap # "none" /\ Spend >= Limit) :
        Set(q, [req[q] EXCEPT !.pc = "alert", !.over = over])
  BY DEF BudgetRead
<1>2. over \in BOOLEAN /\ (over => Spent) BY <1>1 DEF OverIfRead, Spent
<1>3. PICK p : p = req[q] OBVIOUS
<1>4. Waiting(q, p) /\ ~Refused(p.cfg) BY <1>3, EarlyWaits DEF BudgetRead
<1>5. PICK r : r = [p EXCEPT !.pc = "alert", !.over = over] OBVIOUS
<1>6. p \in Request BY <1>4 DEF Waiting
<1>7. /\ r \in Request /\ r.pc = "alert" /\ r.cfg = p.cfg /\ r.cands = p.cands
      /\ r.i = p.i /\ r.outcome = p.outcome /\ (r.over <=> over)
  BY <1>2, <1>5, <1>6 DEF Request, Early
<1>8. Waiting(q, r) /\ ~Refused(r.cfg) BY <1>2, <1>4, <1>7 DEF Waiting
<1>9. Set(q, r) /\ UNCHANGED rows /\ UNCHANGED wire BY <1>1, <1>3, <1>5 DEF BudgetRead
<1> QED BY <1>8, <1>9, WaitOK

LEMMA PeerOK ==
  ASSUME IInv, NEW q \in Req, PeerClear(q) \/ PeerSkip(q) \/ Backoff(q)
  PROVE  Lands(q)
<1>1. PICK p : p = req[q] OBVIOUS
<1>2. OK(cap, q, p, rows[q], sent[q], charged[q]) /\ BudgetSays(p) /\ p \in Request
  BY <1>1, RecordIn
<1>3. p.pc \in Looping BY <1>1 DEF Looping, PeerClear, PeerSkip, Backoff
<1>4. Ready(cap, q, p, rows[q], sent[q], charged[q], p.i) /\ p.i <= Len(p.cands)
  BY <1>2, <1>3, LoopIsReady
<1>5. p.over => Spent BY <1>2 DEF BudgetSays
<1>6. CASE PeerClear(q)
  <2>1. OnWire(q, p, p.cands[p.i]) BY <1>1, <1>6 DEF PeerClear, Cand
  <2> QED BY <1>4, <1>5, <2>1, OnWireOK
<1>7. CASE Backoff(q)
  <2>1. PICK r : r = [p EXCEPT !.attempt = @ + 1] OBVIOUS
  <2>2. p.attempt + 1 \in Nat BY <1>2 DEF Request
  <2>3. /\ r \in Request /\ r.pc = p.pc /\ r.cfg = p.cfg /\ r.cands = p.cands /\ r.i = p.i
        /\ r.outcome = p.outcome /\ r.over = p.over
    BY <1>2, <2>1, <2>2 DEF Request
  <2>4. Ready(cap, q, r, rows[q], sent[q], charged[q], r.i) /\ r.i <= Len(r.cands)
    BY <1>4, <2>3 DEF Ready, Fits, Behind, Keys, Local
  <2>5. OnWire(q, r, r.cands[r.i]) BY <1>1, <1>7, <2>1, <2>3 DEF Backoff, Cand
  <2> QED BY <1>5, <2>3, <2>4, <2>5, OnWireOK
<1>8. CASE PeerSkip(q)
  <2>1. PICK d : d = Row(p.cands[p.i], "circuit_open") OBVIOUS
  <2>2. p.cands[p.i] \in Model /\ p.i \in 1..Len(p.cands) BY <1>4, CandIsModel
  <2>3. d \in TraceRow BY <2>1, <2>2, RowIs
  <2>4. d.model = p.cands[p.i] /\ d.status = "circuit_open" BY <2>1, <2>2, RowIs
  <2>5. PICK w : w = rows[q] \o <<d>> OBVIOUS
  <2>6. PICK k : k = p.i OBVIOUS
  <2>7. LeftBehind(cap, q, p, w, sent[q], charged[q], k, d)
    <3>1. Ready(cap, q, p, rows[q], sent[q], charged[q], k) /\ k <= Len(p.cands) BY <1>4, <2>6
    <3>2. d.model = p.cands[k] /\ d.status # "ok" BY <2>4, <2>6
    <3> QED BY <2>3, <2>5, <3>1, <3>2, LeaveBehind
  <2>8. <<d>> \in Seq(TraceRow) BY <2>3
  <2>9. CASE FailsClosed(p.cfg, "breaker_open")
    <3>1. PICK x : x = Ended(p, "degraded") OBVIOUS
    <3>2. Set(q, x) /\ Write(q, <<d>>) /\ UNCHANGED wire
      BY <1>1, <1>8, <2>1, <2>9, <3>1 DEF PeerSkip, Cand
    <3>3. Moves(q, x, w, sent[q], charged[q]) BY <2>5, <3>2, SetWrite DEF Moves
    <3>4. /\ x \in Request /\ x.pc = "done" /\ x.outcome = "degraded" /\ x.cfg = p.cfg
          /\ x.cands = p.cands /\ x.over = p.over
      BY <1>2, <3>1, EndedIs DEF Outcomes, Refusals
    <3>5. Ready(cap, q, p, w, sent[q], charged[q], k + 1) BY <2>7 DEF LeftBehind
    <3>6. Len(w) >= 1 BY <2>2, <2>6, <2>7 DEF LeftBehind
    <3>7. OK(cap, q, x, w, sent[q], charged[q]) BY <3>4, <3>5, <3>6, LoopEnd
    <3>8. BudgetSays(x) BY <1>5, <3>4 DEF BudgetSays
    <3> QED BY <3>3, <3>7, <3>8 DEF Lands
  <2>10. CASE ~FailsClosed(p.cfg, "breaker_open")
    <3>1. PICK r : r = [p EXCEPT !.first = OrOpen(@)] OBVIOUS
    <3>2. OrOpen(p.first) \in Exception BY <1>2 DEF Request, OrOpen, Exception
    <3>3. /\ r \in Request /\ r.pc = p.pc /\ r.cfg = p.cfg /\ r.cands = p.cands /\ r.i = p.i
          /\ r.outcome = p.outcome /\ r.over = p.over
      BY <1>2, <3>1, <3>2 DEF Request
    <3>4. PICK j : j = k + 1 OBVIOUS
    <3>5. Seek(q, r, j, br, <<d>>)
      BY <1>1, <1>8, <2>1, <2>6, <2>10, <3>1, <3>4 DEF PeerSkip, Cand
    <3>6. Ready(cap, q, p, w, sent[q], charged[q], j) BY <2>7, <3>4 DEF LeftBehind
    <3>7. Ready(cap, q, r, w, sent[q], charged[q], j)
      BY <3>3, <3>6 DEF Ready, Fits, Behind, Keys, Local
    <3>8. j > 1 /\ w[j - 1].status = "circuit_open"
      <4>1. k \in Nat /\ k >= 1 /\ w[k] = d BY <2>2, <2>6, <2>7 DEF LeftBehind
      <4>2. j > 1 /\ j - 1 = k BY <3>4, <4>1
      <4> QED BY <2>4, <4>1, <4>2
    <3>9. r.over => Spent BY <1>5, <3>3
    <3> QED BY <2>5, <2>8, <3>5, <3>7, <3>8, <3>9, SeekOK
  <2> QED BY <2>9, <2>10
<1> QED BY <1>6, <1>7, <1>8

LEMMA UpstreamFailsOK ==
  ASSUME IInv, NEW q \in Req, UpstreamTransient(q) \/ Recorded(q) \/ UpstreamRefused(q)
  PROVE  Lands(q)
<1>1. PICK p : p = req[q] OBVIOUS
<1>2. OK(cap, q, p, rows[q], sent[q], charged[q]) /\ BudgetSays(p) /\ p \in Request
  BY <1>1, RecordIn
<1>3. p.pc \in {"wire", "record"} BY <1>1 DEF UpstreamTransient, Recorded, UpstreamRefused
<1>4. p.pc \in Looping /\ p.pc # "peer" BY <1>3 DEF Looping
<1>5. Ready(cap, q, p, rows[q], sent[q], charged[q], p.i) /\ p.i <= Len(p.cands)
  BY <1>2, <1>4, LoopIsReady
<1>6. p.over => Spent BY <1>2 DEF BudgetSays
<1>7. \/ \E b : AfterFailure(q, b)
      \/ Set(q, [p EXCEPT !.pc = "record"]) /\ UNCHANGED <<rows, wire>>
      \/ Raise(q, p) /\ Write(q, <<Row(p.cands[p.i], "error")>>) /\ UNCHANGED wire
  <2>1. CASE UpstreamRefused(q) BY <1>1, <2>1 DEF UpstreamRefused, Cand
  <2>2. CASE Recorded(q) BY <2>2 DEF Recorded
  <2>3. CASE UpstreamTransient(q) /\ p.cfg.resilient
    <3>1. PICK b : b = SetBreaker(q, OnFailure(BreakerOf(br, Cand(q)))) OBVIOUS
    <3>2. IF Trips(BreakerOf(br, Cand(q)))
          THEN Set(q, [req[q] EXCEPT !.pc = "record"]) /\ UNCHANGED <<rows, wire>>
          ELSE AfterFailure(q, b)
      BY <1>1, <2>3, <3>1 DEF UpstreamTransient
    <3> QED BY <1>1, <3>2
  <2>4. CASE UpstreamTransient(q) /\ ~p.cfg.resilient
    BY <1>1, <2>4 DEF UpstreamTransient, Cand
  <2> QED BY <2>1, <2>2, <2>3, <2>4
<1>8. CASE \E b : AfterFailure(q, b) BY <1>1, <1>3, <1>8, AfterFailureOK
<1>9. CASE Set(q, [p EXCEPT !.pc = "record"]) /\ UNCHANGED <<rows, wire>>
  <2>1. PICK x : x = [p EXCEPT !.pc = "record"] OBVIOUS
  <2>2. /\ x \in Request /\ x.pc = "record" /\ x.cfg = p.cfg /\ x.cands = p.cands
        /\ x.i = p.i /\ x.outcome = p.outcome /\ x.over = p.over
    BY <1>2, <2>1 DEF Request, Looping
  <2>3. Moves(q, x, rows[q], sent[q], charged[q]) BY <1>9, <2>1, SetWrite DEF Moves
  <2>4. x.outcome = "none" /\ x.pc \in Looping BY <1>5, <2>2 DEF Ready, Looping
  <2>5. sent[q] # <<>> /\ sent[q][Len(sent[q])] = x.cands[x.i]
    BY <1>2, <1>4, <2>2 DEF OK, InLoop
  <2>6. Ready(cap, q, p, rows[q], sent[q], charged[q], x.i) /\ x.i <= Len(x.cands)
    BY <1>5, <2>2
  <2>7. OK(cap, q, x, rows[q], sent[q], charged[q]) BY <2>2, <2>4, <2>5, <2>6, LoopOn
  <2>8. BudgetSays(x) BY <1>6, <2>2, <2>4 DEF BudgetSays
  <2> QED BY <2>3, <2>7, <2>8 DEF Lands
<1>10. CASE Raise(q, p) /\ Write(q, <<Row(p.cands[p.i], "error")>>) /\ UNCHANGED wire
  BY <1>5, <1>6, <1>10, RaiseOK
<1> QED BY <1>7, <1>8, <1>9, <1>10

LEMMA UpstreamOkOK ==
  ASSUME IInv, NEW q \in Req, UpstreamOk(q) \/ ClearedPeers(q)
  PROVE  Lands(q) /\ cache' \in [Model -> Model \cup {NoModel}]
<1>1. CASE Serve(q)
  <2>1. req[q].pc \in {"wire", "clear"} /\ UNCHANGED wire BY DEF UpstreamOk, ClearedPeers
  <2> QED BY <1>1, <2>1, ServeOK
<1>2. CASE Set(q, [req[q] EXCEPT !.pc = "clear"]) /\ UNCHANGED <<rows, cache>> /\ req[q].pc = "wire"
  <2>0. PICK p : p = req[q] OBVIOUS
  <2>1. OK(cap, q, p, rows[q], sent[q], charged[q]) /\ BudgetSays(p) /\ p \in Request
    BY <2>0, RecordIn
  <2>2. p.pc \in Looping /\ p.pc # "peer" BY <1>2, <2>0 DEF Looping
  <2>3. Ready(cap, q, p, rows[q], sent[q], charged[q], p.i) /\ p.i <= Len(p.cands)
    BY <2>1, <2>2, LoopIsReady
  <2>4. PICK x : x = [p EXCEPT !.pc = "clear"] OBVIOUS
  <2>5. /\ x \in Request /\ x.pc = "clear" /\ x.cfg = p.cfg /\ x.cands = p.cands
        /\ x.i = p.i /\ x.outcome = p.outcome /\ x.over = p.over
    BY <2>1, <2>4 DEF Request, Looping
  <2>6. UNCHANGED wire BY DEF UpstreamOk, ClearedPeers
  <2>7. Moves(q, x, rows[q], sent[q], charged[q]) BY <1>2, <2>0, <2>4, <2>6, SetWrite DEF Moves
  <2>8. x.outcome = "none" /\ x.pc \in Looping BY <2>3, <2>5 DEF Ready, Looping
  <2>9. sent[q] # <<>> /\ sent[q][Len(sent[q])] = x.cands[x.i]
    BY <2>1, <2>2, <2>5 DEF OK, InLoop
  <2>10. Ready(cap, q, p, rows[q], sent[q], charged[q], x.i) /\ x.i <= Len(x.cands)
    BY <2>3, <2>5
  <2>11. OK(cap, q, x, rows[q], sent[q], charged[q]) BY <2>5, <2>8, <2>9, <2>10, LoopOn
  <2>12. BudgetSays(x) BY <2>1, <2>5, <2>8 DEF BudgetSays
  <2>13. cache' \in [Model -> Model \cup {NoModel}] BY <1>2 DEF IInv
  <2> QED BY <2>7, <2>11, <2>12, <2>13 DEF Lands
<1> QED BY <1>1, <1>2 DEF UpstreamOk, ClearedPeers

-----------------------------------------------------------------------------
\* The specification.

\* What has been spent stays spent.
LEMMA SpendGrows ==
  ASSUME cap' = cap,
         \A q \in Req : req[q].outcome = "served" => req'[q].outcome = "served"
  PROVE  Spent => Spent'
<1> DEFINE A == {q \in Req : req[q].outcome = "served"}
           B == {q \in Req : req'[q].outcome = "served"}
<1>1. A \in SUBSET B /\ B \in SUBSET Req OBVIOUS
<1>2. Spend = Cardinality(A) /\ Spend' = Cardinality(B) BY DEF Spend
<1> HIDE DEF A, B
<1>3. IsFiniteSet(B) BY <1>1, FS_Subset, DispatchAssumption
<1>4. IsFiniteSet(A) /\ Cardinality(A) <= Cardinality(B) BY <1>1, <1>3, FS_Subset
<1>5. Cardinality(A) \in Nat /\ Cardinality(B) \in Nat BY <1>3, <1>4, FS_CardinalityType
<1>6. Limit \in Nat BY DispatchAssumption
<1>7. Spend >= Limit => Spend' >= Limit BY <1>2, <1>4, <1>5, <1>6
<1> QED BY <1>7 DEF Spent

\* A step that ends well for its request keeps the invariant.
LEMMA LandsKeeps ==
  ASSUME IInv, NEW q \in Req, Lands(q), req[q].pc # "done", cap' = cap,
         verdict' = "over" => Spent,
         cache' \in [Model -> Model \cup {NoModel}]
  PROVE  IInv'
<1>1. PICK x, v, t, u : Moves(q, x, v, t, u) /\ OK(cap, q, x, v, t, u) /\ BudgetSays(x)
  BY DEF Lands
<1>2. /\ req'[q] = x /\ \A p \in Req \ {q} : req'[p] = req[p]
      /\ req' = [p \in Req |-> req'[p]]
      /\ DOMAIN rows' = Req /\ rows'[q] = v /\ \A p \in Req \ {q} : rows'[p] = rows[p]
      /\ DOMAIN sent' = Req /\ sent'[q] = t /\ \A p \in Req \ {q} : sent'[p] = sent[p]
      /\ DOMAIN charged' = Req /\ charged'[q] = u /\ \A p \in Req \ {q} : charged'[p] = charged[p]
  BY <1>1 DEF Moves, Only
<1>3. \A p \in Req : /\ OK(cap, p, req[p], rows[p], sent[p], charged[p])
                     /\ BudgetSays(req[p]) /\ req[p] \in Request
  BY RecordIn
<1>4. x \in Request BY <1>1 DEF OK, Fits
<1>5. \A p \in Req : OK(cap, p, req'[p], rows'[p], sent'[p], charged'[p]) /\ BudgetSays(req'[p])
  <2> TAKE p \in Req
  <2>1. CASE p = q BY <1>1, <1>2, <2>1
  <2>2. CASE p # q BY <1>2, <1>3, <2>2
  <2> QED BY <2>1, <2>2
<1>6. Spent => Spent'
  <2>1. req[q].outcome # "served"
    <3>1. OK(cap, q, req[q], rows[q], sent[q], charged[q]) BY <1>3
    <3>2. req[q].outcome = "none" BY <3>1 DEF OK, Outcome
    <3> QED BY <3>2
  <2>2. \A p \in Req : req[p].outcome = "served" => req'[p].outcome = "served" BY <1>2, <2>1
  <2> QED BY <2>2, SpendGrows
<1>7. req' \in [Req -> Request]
  <2>1. \A p \in Req : req'[p] \in Request BY <1>2, <1>3, <1>4
  <2> QED BY <1>2, <2>1
<1>8. \A p \in Req : BudgetSays(req[p])' BY <1>5, <1>6 DEF BudgetSays
<1>9. \A p \in Req : OK(cap, p, req[p], rows[p], sent[p], charged[p])' BY <1>5
<1>10. cap' \in Caps BY DEF IInv
<1> QED BY <1>2, <1>6, <1>7, <1>8, <1>9, <1>10 DEF IInv

LEMMA TickKeeps == ASSUME IInv, Tick PROVE IInv'
<1>1. \A q \in Req : req'[q] = [req[q] EXCEPT !.late = (req[q].pc = "alert")] BY DEF Tick
<1>2. UNCHANGED <<rows, sent, charged, cache, cap>> /\ verdict' = "none" BY DEF Tick, wire
<1>3. \A q \in Req : /\ req[q] \in Request /\ BudgetSays(req[q])
                     /\ OK(cap, q, req[q], rows[q], sent[q], charged[q])
  BY RecordIn
<1>4. ASSUME NEW q \in Req
      PROVE  /\ req'[q] \in Request /\ req'[q].outcome = req[q].outcome
             /\ BudgetSays(req'[q])
             /\ OK(cap, q, req'[q], rows[q], sent[q], charged[q])
  <2>1. PICK r : r = req[q] OBVIOUS
  <2>2. PICK b \in BOOLEAN : b <=> r.pc = "alert" OBVIOUS
  <2>3. PICK x : x = [r EXCEPT !.late = b] OBVIOUS
  <2>4. x = req'[q] BY <1>1, <2>1, <2>2, <2>3
  <2>5. r \in Request BY <1>3, <2>1
  <2>6. /\ x \in Request /\ x.pc = r.pc /\ x.cfg = r.cfg /\ x.cands = r.cands /\ x.i = r.i
        /\ x.outcome = r.outcome /\ x.over = r.over /\ x.raised = r.raised
    BY <2>3, <2>5 DEF Request
  <2>7. OK(cap, q, r, rows[q], sent[q], charged[q]) /\ BudgetSays(r) BY <1>3, <2>1
  <2>8. OK(cap, q, x, rows[q], sent[q], charged[q])
    BY <2>6, <2>7 DEF OK, Fits, Untouched, InLoop, Behind, Ending, LeftOf, Outcome, Keys,
                      Refusing, Local
  <2>9. BudgetSays(x) BY <2>6, <2>7 DEF BudgetSays
  <2> QED BY <2>1, <2>4, <2>6, <2>8, <2>9
<1>5. Spent => Spent' BY <1>2, <1>4, SpendGrows
<1>6. req' \in [Req -> Request] BY <1>4 DEF Tick
<1>7. \A p \in Req : BudgetSays(req[p])' BY <1>2, <1>4, <1>5 DEF BudgetSays
<1>8. \A p \in Req : OK(cap, p, req[p], rows[p], sent[p], charged[p])' BY <1>2, <1>4
<1>9. /\ DOMAIN rows' = Req /\ DOMAIN sent' = Req /\ DOMAIN charged' = Req
      /\ cap' \in Caps /\ cache' \in [Model -> Model \cup {NoModel}]
  BY <1>2 DEF IInv
<1> QED BY <1>2, <1>6, <1>7, <1>8, <1>9 DEF IInv

LEMMA InitOK == Init => IInv
<1> SUFFICES ASSUME Init PROVE IInv OBVIOUS
<1>1. PICK f : f = Fresh OBVIOUS
<1>2. /\ f \in Request /\ f.pc = "new" /\ f.cands = <<>> /\ f.i = 1
      /\ f.outcome = "none" /\ f.over = FALSE
  <2>1. "new" \in Early /\ "none" \in Outcomes /\ "none" \in Exception
    BY DEF Early, Outcomes, Exception
  <2>2. <<>> \in Seq(Model) OBVIOUS
  <2> QED BY <1>1, <2>1, <2>2 DEF Fresh, Request
<1>3. ASSUME NEW q \in Req PROVE OK(cap, q, f, <<>>, <<>>, {})
  <2>1. Fits(cap, q, f, <<>>, <<>>, {}) BY <1>2 DEF Fits
  <2>2. Untouched(f, <<>>, <<>>, {}) /\ InLoop(f, <<>>, <<>>) /\ Ending(f, <<>>, <<>>)
    BY <1>2 DEF Untouched, InLoop, Ending, Looping
  <2>3. Outcome(f) /\ Keys(f, {}) /\ Refusing(f, <<>>) /\ Local(f, <<>>)
    BY <1>2 DEF Outcome, Keys, Refusing, Local
  <2> QED BY <2>1, <2>2, <2>3 DEF OK
<1>4. BudgetSays(f) BY <1>2 DEF BudgetSays
<1>5. \A q \in Req : req[q] = f /\ rows[q] = <<>> /\ sent[q] = <<>> /\ charged[q] = {}
  BY <1>1 DEF Init
<1>6. /\ req \in [Req -> Request] /\ DOMAIN rows = Req /\ DOMAIN sent = Req
      /\ DOMAIN charged = Req /\ cache \in [Model -> Model \cup {NoModel}]
      /\ cap \in Caps /\ verdict = "none"
  BY <1>1, <1>2 DEF Init
<1> QED BY <1>3, <1>4, <1>5, <1>6 DEF IInv

LEMMA NextKeeps == ASSUME IInv, [Next]_vars PROVE IInv'
<1>0. cache \in [Model -> Model \cup {NoModel}] /\ (verdict = "over" => Spent) BY DEF IInv
<1>1. CASE Tick BY <1>1, TickKeeps
<1>2. ASSUME NEW q \in Req, NEW c \in ConfigsOf[cap][q], Arrive(q, c) PROVE IInv'
  <2>1. req[q].pc # "done" /\ UNCHANGED <<cap, verdict, cache>> BY <1>2 DEF Arrive
  <2>2. Lands(q) BY <1>2, ArriveOK
  <2> QED BY <1>0, <2>1, <2>2, LandsKeeps
<1>3. ASSUME NEW q \in Req, Classified(q) PROVE IInv'
  <2>1. req[q].pc # "done" /\ UNCHANGED <<cap, verdict, cache>> BY <1>3 DEF Classified
  <2>2. Lands(q) BY <1>3, ClassifiedOK
  <2> QED BY <1>0, <2>1, <2>2, LandsKeeps
<1>4. ASSUME NEW q \in Req, BudgetKnown(q) PROVE IInv'
  <2>1. /\ req[q].pc = "budget" /\ UNCHANGED <<cap, verdict, cache>>
        /\ Enforce(q, verdict = "over")
    BY <1>4 DEF BudgetKnown
  <2>2. PICK over \in BOOLEAN : over = (verdict = "over") OBVIOUS
  <2>3. Enforce(q, over) /\ (over => Spent) BY <1>0, <2>1, <2>2
  <2>4. Lands(q) BY <2>1, <2>3, EnforceOK
  <2> QED BY <1>0, <2>1, <2>4, LandsKeeps
<1>5. ASSUME NEW q \in Req, BudgetRead(q) PROVE IInv'
  <2>1. req[q].pc # "done" /\ UNCHANGED <<cap, verdict, cache>> BY <1>5 DEF BudgetRead
  <2>2. Lands(q) BY <1>5, BudgetReadOK
  <2> QED BY <1>0, <2>1, <2>2, LandsKeeps
<1>6. ASSUME NEW q \in Req, BudgetDecided(q) PROVE IInv'
  <2>1. req[q].pc = "alert" /\ UNCHANGED <<cap, cache>> /\ Enforce(q, req[q].over)
    BY <1>6 DEF BudgetDecided
  <2>2. req[q].over \in BOOLEAN /\ (req[q].over => Spent)
    BY RecordIn DEF Request, BudgetSays
  <2>3. verdict' = "over" => Spent BY <1>6, <2>2 DEF BudgetDecided
  <2>4. Lands(q) BY <2>1, <2>2, EnforceOK
  <2> QED BY <1>0, <2>1, <2>3, <2>4, LandsKeeps
<1>7. ASSUME NEW q \in Req, PeerClear(q) \/ PeerSkip(q) \/ Backoff(q) PROVE IInv'
  <2>1. req[q].pc # "done" /\ UNCHANGED <<cap, verdict, cache>>
    BY <1>7 DEF PeerClear, PeerSkip, Backoff
  <2>2. Lands(q) BY <1>7, PeerOK
  <2> QED BY <1>0, <2>1, <2>2, LandsKeeps
<1>8. ASSUME NEW q \in Req, UpstreamOk(q) \/ ClearedPeers(q) PROVE IInv'
  <2>1. req[q].pc # "done" /\ UNCHANGED <<cap, verdict>> BY <1>8 DEF UpstreamOk, ClearedPeers
  <2>2. Lands(q) /\ cache' \in [Model -> Model \cup {NoModel}] BY <1>8, UpstreamOkOK
  <2> QED BY <1>0, <2>1, <2>2, LandsKeeps
<1>9. ASSUME NEW q \in Req, UpstreamTransient(q) \/ Recorded(q) \/ UpstreamRefused(q)
      PROVE  IInv'
  <2>1. req[q].pc # "done" /\ UNCHANGED <<cap, verdict, cache>>
    BY <1>9 DEF UpstreamTransient, Recorded, UpstreamRefused
  <2>2. Lands(q) BY <1>9, UpstreamFailsOK
  <2> QED BY <1>0, <2>1, <2>2, LandsKeeps
<1>10. CASE UNCHANGED vars
  <2>1. UNCHANGED <<req, rows, sent, charged, cache, cap, verdict>> BY <1>10 DEF vars
  <2> QED BY <2>1 DEF IInv, BudgetSays, Spent, Spend
<1> QED BY <1>1, <1>2, <1>3, <1>4, <1>5, <1>6, <1>7, <1>8, <1>9, <1>10
       DEF Next, Progress, Step

\* The invariant holds of every behaviour of the dispatch.
THEOREM DispatchInvariant == Spec => []IInv
<1>1. Init => IInv BY InitOK
<1>2. IInv /\ [Next]_vars => IInv' BY NextKeeps
<1> QED BY <1>1, <1>2, PTL DEF Spec

\* load_byok, _get_client: in every behaviour, whatever keys callers have stored
\* and could or could not be read, a provider a caller has a key for is never
\* called with the platform's.
THEOREM AlwaysOwnKeyOrNone == Spec => []OwnKeyOrNone
<1>1. IInv => OwnKeyOrNone BY DEF IInv, OK, Keys, OwnKeyOrNone
<1> QED BY <1>1, DispatchInvariant, PTL

\* complete: in every behaviour a refused request reaches no provider and no
\* cached answer, and a budget refuses only when it is spent.
THEOREM RefusedAlwaysStopped == Spec => []RefusedNeverServed
<1>1. IInv => RefusedNeverServed
  <2> SUFFICES ASSUME IInv, NEW q \in Req, req[q].pc # "new"
               PROVE  /\ \/ Refused(req[q].cfg) \/ req[q].cfg.guard = "block"
                         \/ req[q].outcome = "over_budget"
                         => sent[q] = <<>>
                      /\ Refused(req[q].cfg) => req[q].outcome # "cached"
                      /\ req[q].outcome = "over_budget" => cap = "reject" /\ Spend >= Limit
    BY DEF RefusedNeverServed, Refused
  <2>1. Refusing(req[q], sent[q]) /\ BudgetSays(req[q]) BY RecordIn DEF OK
  <2> QED BY <2>1 DEF Refusing, BudgetSays, Spent
<1> QED BY <1>1, DispatchInvariant, PTL

\* _plan and fallbacks: in every behaviour, through every retry and fallback, data
\* that must stay inside the perimeter is sent to in-perimeter models only.
THEOREM AlwaysInPerimeter == Spec => []StaysInPerimeter
<1>1. IInv => StaysInPerimeter
  <2> SUFFICES ASSUME IInv, NEW q \in Req, req[q].pc # "new", FirstInPerimeter # NoModel,
                      Inside(req[q].cfg)
               PROVE  Range(sent[q]) \subseteq Perimeter
    BY DEF StaysInPerimeter, Inside
  <2>1. Local(req[q], sent[q]) BY RecordIn DEF OK
  <2>2. \A k \in DOMAIN sent[q] : sent[q][k] \in Perimeter BY <2>1 DEF Local, Kin
  <2> QED BY <2>2 DEF Range
<1> QED BY <1>1, DispatchInvariant, PTL

\* The candidates left behind are as many as the rows, and name the same models.
LEMMA RowsAreLeft ==
  ASSUME IInv, NEW q \in Req, req[q].cands # <<>>, req[q].outcome # "degraded"
  PROVE  [k \in 1..Len(rows[q]) |-> rows[q][k].model] = Left(q)
<1>1. PICK r : r = req[q] OBVIOUS
<1>2. PICK w : w = rows[q] OBVIOUS
<1>3. OK(cap, q, r, w, sent[q], charged[q]) /\ r \in Request /\ w \in Seq(TraceRow)
  BY <1>1, <1>2, RecordIn
<1>4. r.cands \in Seq(Model) /\ r.i \in Nat BY <1>3 DEF Request
<1>5. /\ Len(w) = LeftOf(r) /\ Len(w) <= Len(r.cands)
      /\ \A j \in 1..Len(w) : w[j].model = r.cands[j]
  <2>1. CASE r.pc \in Early BY <1>1, <1>3, <2>1 DEF OK, Untouched
  <2>2. CASE r.pc \in Looping
    <3>1. /\ r.i \in 1..Len(r.cands) /\ Len(w) = r.i - 1
          /\ \A j \in 1..Len(w) : w[j].model = r.cands[j]
      BY <1>3, <2>2 DEF OK, InLoop, Behind
    <3>2. LeftOf(r) = r.i - 1 BY <2>2 DEF LeftOf, Looping
    <3> QED BY <1>4, <3>1, <3>2
  <2>3. CASE r.pc = "done" BY <1>1, <1>3, <2>3 DEF OK, Ending
  <2> QED BY <1>3, <2>1, <2>2, <2>3 DEF Request
<1>6. Left(q) = SubSeq(r.cands, 1, Len(w)) BY <1>1, <1>5 DEF Left, LeftOf, Done
<1>7. Len(w) \in Nat BY <1>3
<1>8. PICK n : n = Len(w) OBVIOUS
<1>9. SubSeq(r.cands, 1, n) = [j \in 1..n |-> r.cands[j]]
  <2>1. n \in 0..Len(r.cands) BY <1>4, <1>5, <1>7, <1>8
  <2> QED BY <1>4, <2>1
<1>10. [j \in 1..n |-> r.cands[j]] = [j \in 1..n |-> w[j].model] BY <1>5, <1>8
<1> QED BY <1>2, <1>6, <1>8, <1>9, <1>10

\* _finalize and chat_completions: in every behaviour the rows are the candidates
\* left behind, and agree with the wire and with the answer.
THEOREM TraceAlwaysHonest == Spec => []TraceHonest
<1>1. IInv => TraceHonest
  <2> SUFFICES ASSUME IInv, NEW q \in Req, Done(q)
               PROVE  /\ Answer(q) = "ok" <=> "ok" \in Statuses(q)
                      /\ \A k \in 1..Len(rows[q]) :
                           rows[q][k].status = "ok" => k = Len(rows[q])
                      /\ req[q].outcome = "served" =>
                           rows[q][Len(rows[q])].model = sent[q][Len(sent[q])]
                      /\ Answer(q) = "circuit_open" =>
                           /\ rows[q][Len(rows[q])].status = "circuit_open"
                           /\ Len(rows[q]) = Len(req[q].cands)
                      /\ Len(rows[q]) = 0 <=> Answer(q) = "not_found"
    BY RowsAreLeft DEF TraceHonest
  <2>1. PICK r : r = req[q] OBVIOUS
  <2>2. PICK w : w = rows[q] OBVIOUS
  <2>3. OK(cap, q, r, w, sent[q], charged[q]) /\ r \in Request /\ w \in Seq(TraceRow)
    BY <2>1, <2>2, RecordIn
  <2>4. r.pc = "done" /\ r.outcome \in Outcomes /\ r.outcome # "none"
    BY <2>1, <2>3 DEF Done, OK, Outcome, Request
  <2>5. /\ r.outcome \in {"served", "cached"} <=> \E j \in 1..Len(w) : w[j].status = "ok"
        /\ \A j \in 1..Len(w) : w[j].status = "ok" => j = Len(w)
        /\ r.outcome = "served" => w[Len(w)].model = sent[q][Len(sent[q])]
        /\ r.outcome = "failed" /\ r.raised = "open" =>
             w[Len(w)].status = "circuit_open" /\ Len(w) = Len(r.cands)
        /\ Len(w) = 0 <=> r.outcome = "unknown"
    BY <2>3, <2>4 DEF OK, Ending
  <2>6. /\ Answer(q) = "ok" <=> r.outcome \in {"served", "cached"}
        /\ Answer(q) = "not_found" <=> r.outcome = "unknown"
        /\ Answer(q) = "circuit_open" => r.outcome = "failed" /\ r.raised = "open"
    BY <2>1, <2>4 DEF Answer, UpstreamAnswer, Outcomes, Refusals
  <2>7. "ok" \in Statuses(q) <=> \E j \in 1..Len(w) : w[j].status = "ok"
    BY <2>2, <2>3 DEF Statuses
  <2> QED BY <2>1, <2>2, <2>5, <2>6, <2>7
<1> QED BY <1>1, DispatchInvariant, PTL

-----------------------------------------------------------------------------
(***************************************************************************)
(* The breakers themselves: the cluster of replicas whose CircuitBreaker   *)
(* Dispatch consults, with the same threshold and reset window.            *)
(* Their safety holds for any number of replicas, providers and calls.     *)
(***************************************************************************)
LEMMA RetriesNat == MaxRetries \in Nat
BY ClusterAssumption

\* on_success, on_failure and the passing of time keep a breaker state
\* well formed whenever fails counts below the threshold while closed.
LEMMA StateClosure ==
  ASSUME NEW s \in BreakerState, s.mode = "closed" => s.fails < Threshold
  PROVE  /\ Closed \in BreakerState
         /\ OnSuccess(s) \in BreakerState
         /\ OnFailure(s) \in BreakerState
         /\ Elapse(s) \in BreakerState
BY BreakerAssumption
   DEF BreakerState, Closed, OnSuccess, OnFailure, Trips, Elapse

\* The inductive invariant: types, the streak the breaker counts, and the
\* state a suspended call is in (a sleeping call has an attempt left).
BreakersOk ==
  /\ TypeOK
  /\ OpenIffStreak
  /\ \A c \in Call : call[c].pc = "sleep" => call[c].attempt < MaxRetries

\* Under the invariant a closed breaker is below its threshold.
LEMMA ClosedBelowThreshold ==
  ASSUME BreakersOk, NEW r \in Replica, NEW p \in Upstream
  PROVE  /\ st[r][p] \in BreakerState
         /\ st[r][p].mode = "closed" => st[r][p].fails < Threshold
<1>1. st[r][p] \in BreakerState /\ streak[r][p] \in 0..Threshold
  BY DEF BreakersOk, TypeOK
<1>2. Tracks(st[r][p], streak[r][p])
  BY DEF BreakersOk, OpenIffStreak
<1> QED BY <1>1, <1>2, BreakerAssumption DEF Tracks, BreakerState

\* Fresh breakers, no calls.
LEMMA InitBreakers == BreakerInit => BreakersOk
BY BreakerAssumption, RetriesNat
   DEF BreakerInit, BreakersOk, TypeOK, OpenIffStreak, Tracks, Idle, Closed,
       BreakerState, CallState,
       Pc, RedisTtl

\* What the two ways of leaving an await do to the coroutine.
LEMMA FinishEffect ==
  ASSUME TypeOK, NEW d \in Call, Finish(d)
  PROVE  /\ call' \in [Call -> CallState]
         /\ call'[d].pc = "idle"
         /\ \A c \in Call \ {d} : call'[c] = call[c]
BY RetriesNat DEF TypeOK, CallState, Pc, Finish, Idle

\* The coroutine moves to another await.
LEMMA GotoEffect ==
  ASSUME TypeOK, NEW d \in Call, NEW x \in Pc, Goto(d, x)
  PROVE  /\ call' \in [Call -> CallState]
         /\ call'[d].pc = x /\ call'[d].attempt = call[d].attempt
         /\ \A c \in Call \ {d} : call'[c] = call[c]
BY DEF TypeOK, CallState, Goto

\* A retry needs an attempt left.
LEMMA RetryOrStopEffect ==
  ASSUME TypeOK, NEW d \in Call, NEW s, RetryOrStop(d, s)
  PROVE  /\ call' \in [Call -> CallState]
         /\ call'[d].pc = "sleep" => call'[d].attempt < MaxRetries
         /\ \A c \in Call \ {d} : call'[c] = call[c]
<1>1. CASE call[d].attempt < MaxRetries /\ Allow(s)
  <2>1. Goto(d, "sleep") BY <1>1 DEF RetryOrStop
  <2> QED BY <1>1, <2>1, GotoEffect DEF Pc
<1>2. CASE ~(call[d].attempt < MaxRetries /\ Allow(s))
  <2>1. Finish(d) BY <1>2 DEF RetryOrStop
  <2> QED BY <2>1, FinishEffect
<1> QED BY <1>1, <1>2

\* Every step keeps the types and the retry budget.
LEMMA BreakersTyped == BreakersOk /\ [BreakerNext]_breakerVars => TypeOK'
<1> SUFFICES ASSUME BreakersOk, [BreakerNext]_breakerVars PROVE TypeOK'
  OBVIOUS
<1> USE BreakerAssumption, RetriesNat
<1>t. TypeOK BY DEF BreakersOk
<1>0. ASSUME UNCHANGED breakerVars PROVE TypeOK'
  BY <1>0, <1>t DEF TypeOK, breakerVars
<1>1. ASSUME NEW c \in Call, NEW r \in Replica, NEW p \in Upstream, Admit(c, r, p)
      PROVE  TypeOK'
  BY <1>1, <1>t DEF TypeOK, Admit, Allow, Snapshot, CallState, Pc,
      BreakerState
<1>2. ASSUME NEW c \in Call, PeerOpen(c) PROVE TypeOK'
  <2>1. Finish(c) \/ Goto(c, "wire") BY <1>2 DEF PeerOpen
  <2>2. call' \in [Call -> CallState]
    BY <1>t, <2>1, FinishEffect, GotoEffect DEF Pc
  <2> QED BY <1>2, <1>t, <2>2 DEF TypeOK, PeerOpen
<1>3. ASSUME NEW c \in Call, Succeed(c) PROVE TypeOK'
  <2>1. call[c].rep \in Replica /\ call[c].prov \in Upstream
    BY <1>t DEF TypeOK, CallState
  <2>2. st' \in [Replica -> [Upstream -> BreakerState]]
    BY <1>3, <1>t, <2>1, StateClosure, ClosedBelowThreshold
       DEF Succeed, SetSt, StOf, TypeOK, OnSuccess
  <2>3. call' \in [Call -> CallState]
    <3>1. Finish(c) \/ Goto(c, "clear") BY <1>3 DEF Succeed
    <3> QED BY <1>t, <3>1, FinishEffect, GotoEffect DEF Pc
  <2>4. streak' \in [Replica -> [Upstream -> 0..Threshold]]
    BY <1>3, <1>t, <2>1 DEF Succeed, TypeOK
  <2>5. redis' = redis BY <1>3 DEF Succeed
  <2> QED BY <1>t, <2>2, <2>3, <2>4, <2>5 DEF TypeOK
<1>4. ASSUME NEW c \in Call, ClearOpen(c) PROVE TypeOK'
  <2>1. redis' \in [Upstream -> 0..RedisTtl]
    BY <1>4, <1>t DEF TypeOK, ClearOpen, BestEffort, RedisTtl
  <2>2. call' \in [Call -> CallState]
    <3>1. Finish(c) BY <1>4 DEF ClearOpen
    <3> QED BY <1>t, <3>1, FinishEffect
  <2>3. st' = st /\ streak' = streak BY <1>4 DEF ClearOpen
  <2> QED BY <1>t, <2>1, <2>2, <2>3 DEF TypeOK
<1>5. ASSUME NEW c \in Call, FailTransient(c) PROVE TypeOK'
  <2>1. call[c].rep \in Replica /\ call[c].prov \in Upstream
    BY <1>t DEF TypeOK, CallState
  <2>2. st' \in [Replica -> [Upstream -> BreakerState]]
    BY <1>5, <1>t, <2>1, StateClosure, ClosedBelowThreshold
       DEF FailTransient, SetSt, StOf, TypeOK
  <2>3. call' \in [Call -> CallState]
    <3>1. Goto(c, "record") \/ RetryOrStop(c, OnFailure(StOf(c)))
      BY <1>5 DEF FailTransient
    <3> QED BY <1>t, <3>1, GotoEffect, RetryOrStopEffect DEF Pc
  <2>4. streak' \in [Replica -> [Upstream -> 0..Threshold]]
    BY <1>5, <1>t, <2>1 DEF FailTransient, TypeOK
  <2>5. redis' = redis BY <1>5 DEF FailTransient
  <2> QED BY <1>t, <2>2, <2>3, <2>4, <2>5 DEF TypeOK
<1>6. ASSUME NEW c \in Call, RecordOpen(c) PROVE TypeOK'
  <2>1. redis' \in [Upstream -> 0..RedisTtl]
    BY <1>6, <1>t DEF TypeOK, RecordOpen, BestEffort, RedisTtl
  <2>2. call' \in [Call -> CallState]
    <3>1. RetryOrStop(c, StOf(c)) BY <1>6 DEF RecordOpen
    <3> QED BY <1>t, <3>1, RetryOrStopEffect
  <2> QED BY <1>6, <1>t, <2>1, <2>2 DEF TypeOK, RecordOpen
<1>7. ASSUME NEW c \in Call, Retry(c) PROVE TypeOK'
  <2>1. call[c].attempt < MaxRetries BY <1>7 DEF BreakersOk, Retry
  <2>2. call' = [call EXCEPT ![c].pc = "wire", ![c].attempt = call[c].attempt + 1]
    BY <1>7 DEF Retry
  <2>3. call' \in [Call -> CallState]
    <3>1. call \in [Call -> CallState] BY <1>t DEF TypeOK
    <3>2. [call[c] EXCEPT !.pc = "wire", !.attempt = call[c].attempt + 1] \in CallState
      <4>1. call[c] \in CallState /\ call[c].attempt \in Nat /\ MaxRetries \in Nat
        BY <3>1 DEF CallState
      <4>2. call[c].attempt + 1 \in 0..MaxRetries BY <2>1, <4>1
      <4> QED BY <4>1, <4>2 DEF CallState, Pc
    <3> QED BY <2>2, <3>1, <3>2
  <2> QED BY <1>7, <1>t, <2>3 DEF TypeOK, Retry
<1>8. ASSUME NEW c \in Call, FailPermanent(c) PROVE TypeOK'
  BY <1>8, <1>t DEF TypeOK, FailPermanent, Finish, Idle, CallState, Pc
<1>9. ASSUME NEW r \in Replica, Restart(r) PROVE TypeOK'
  <2>1. st' \in [Replica -> [Upstream -> BreakerState]]
    BY <1>9, <1>t DEF Restart, TypeOK, Closed, BreakerState
  <2>2. call' \in [Call -> CallState]
    BY <1>9, <1>t DEF Restart, Idle, TypeOK, CallState, Pc
  <2> QED BY <1>9, <1>t, <2>1, <2>2 DEF TypeOK, Restart
<1>10. ASSUME ClockTick PROVE TypeOK'
  <2>1. st' \in [Replica -> [Upstream -> BreakerState]]
    BY <1>10, <1>t, StateClosure, ClosedBelowThreshold DEF ClockTick, TypeOK
  <2>2. redis' \in [Upstream -> 0..RedisTtl]
    BY <1>10, <1>t DEF ClockTick, TypeOK, RedisTtl
  <2> QED BY <1>10, <1>t, <2>1, <2>2 DEF TypeOK, ClockTick
<1> QED
  BY <1>0, <1>1, <1>2, <1>3, <1>4, <1>5, <1>6, <1>7, <1>8, <1>9, <1>10
     DEF BreakerNext, CallStep

\* Only four kinds of step touch a breaker: success, transient failure,
\* restart and the passing of time; each moves it along with its streak.
LEMMA BreakersTrack == BreakersOk /\ [BreakerNext]_breakerVars => OpenIffStreak'
<1> SUFFICES ASSUME BreakersOk, [BreakerNext]_breakerVars,
                    NEW r \in Replica, NEW p \in Upstream
             PROVE  Tracks(st'[r][p], streak'[r][p])
  BY DEF OpenIffStreak
<1> USE BreakerAssumption, RetriesNat
<1>t. TypeOK BY DEF BreakersOk
<1>s. st[r][p] \in BreakerState /\ Tracks(st[r][p], streak[r][p])
  BY <1>t DEF BreakersOk, TypeOK, OpenIffStreak
<1>1. ASSUME UNCHANGED <<st, streak>> PROVE Tracks(st'[r][p], streak'[r][p])
  BY <1>1, <1>s
<1>2. ASSUME NEW c \in Call, Succeed(c)
      PROVE Tracks(st'[r][p], streak'[r][p])
  <2>1. CASE call[c].rep = r /\ call[c].prov = p
    <3>1. st'[r][p] = Closed /\ streak'[r][p] = 0
      BY <1>2, <1>t, <2>1 DEF Succeed, SetSt, OnSuccess, TypeOK
    <3> QED BY <3>1 DEF Closed, Tracks
  <2>2. CASE ~(call[c].rep = r /\ call[c].prov = p)
    <3>1. st'[r][p] = st[r][p] /\ streak'[r][p] = streak[r][p]
      BY <1>2, <1>t, <2>2 DEF Succeed, SetSt, TypeOK
    <3> QED BY <3>1, <1>s
  <2> QED BY <2>1, <2>2
<1>3. ASSUME NEW c \in Call, FailTransient(c)
      PROVE Tracks(st'[r][p], streak'[r][p])
  <2>1. CASE call[c].rep = r /\ call[c].prov = p
    <3>1. /\ st'[r][p] = OnFailure(st[r][p])
          /\ streak'[r][p] = IF streak[r][p] < Threshold THEN streak[r][p] + 1
                                                         ELSE streak[r][p]
      BY <1>3, <1>t, <2>1 DEF FailTransient, SetSt, StOf, TypeOK
    <3>2. streak[r][p] \in 0..Threshold
      BY <1>t DEF TypeOK
    <3> QED BY <3>1, <3>2, <1>s DEF Tracks, OnFailure, Trips, BreakerState
  <2>2. CASE ~(call[c].rep = r /\ call[c].prov = p)
    <3>1. st'[r][p] = st[r][p] /\ streak'[r][p] = streak[r][p]
      BY <1>3, <1>t, <2>2 DEF FailTransient, SetSt, TypeOK
    <3> QED BY <3>1, <1>s
  <2> QED BY <2>1, <2>2
<1>4. ASSUME NEW q \in Replica, Restart(q)
      PROVE Tracks(st'[r][p], streak'[r][p])
  BY <1>4, <1>s, <1>t DEF Restart, TypeOK, Closed, Tracks
<1>5. ASSUME ClockTick PROVE Tracks(st'[r][p], streak'[r][p])
  BY <1>5, <1>s DEF ClockTick, Elapse, Tracks, BreakerState
<1> QED
  BY <1>1, <1>2, <1>3, <1>4, <1>5
     DEF BreakerNext, CallStep, breakerVars, Admit, PeerOpen, ClearOpen, RecordOpen,
         Retry, FailPermanent

\* A call goes to sleep only with an attempt left, and nothing but its own
\* retry spends it.
LEMMA BreakersSleep ==
  BreakersOk /\ [BreakerNext]_breakerVars =>
    (\A c \in Call : call[c].pc = "sleep" => call[c].attempt < MaxRetries)'
<1> SUFFICES ASSUME BreakersOk, [BreakerNext]_breakerVars, NEW c \in Call, call'[c].pc = "sleep"
             PROVE  call'[c].attempt < MaxRetries
  OBVIOUS
<1>t. TypeOK BY DEF BreakersOk
<1>1. call[c].pc = "sleep" => call[c].attempt < MaxRetries BY DEF BreakersOk
<1>2. ASSUME NEW d \in Call, PeerOpen(d) PROVE call'[c].attempt < MaxRetries
  <2>1. Finish(d) \/ Goto(d, "wire") BY <1>2 DEF PeerOpen
  <2> QED BY <1>t, <1>1, <2>1, FinishEffect, GotoEffect DEF Pc
<1>3. ASSUME NEW d \in Call, Succeed(d) PROVE call'[c].attempt < MaxRetries
  <2>1. Finish(d) \/ Goto(d, "clear") BY <1>3 DEF Succeed
  <2> QED BY <1>t, <1>1, <2>1, FinishEffect, GotoEffect DEF Pc
<1>4. ASSUME NEW d \in Call, ClearOpen(d) PROVE call'[c].attempt < MaxRetries
  <2>1. Finish(d) BY <1>4 DEF ClearOpen
  <2> QED BY <1>t, <1>1, <2>1, FinishEffect
<1>5. ASSUME NEW d \in Call, FailTransient(d) PROVE call'[c].attempt < MaxRetries
  <2>1. Goto(d, "record") \/ RetryOrStop(d, OnFailure(StOf(d)))
    BY <1>5 DEF FailTransient
  <2> QED BY <1>t, <1>1, <2>1, GotoEffect, RetryOrStopEffect DEF Pc
<1>6. ASSUME NEW d \in Call, RecordOpen(d) PROVE call'[c].attempt < MaxRetries
  <2>1. RetryOrStop(d, StOf(d)) BY <1>6 DEF RecordOpen
  <2> QED BY <1>t, <1>1, <2>1, RetryOrStopEffect
<1>7. ASSUME NEW d \in Call, Retry(d) PROVE call'[c].attempt < MaxRetries
  BY <1>7, <1>t, <1>1 DEF Retry, TypeOK, CallState
<1>8. ASSUME NEW d \in Call, FailPermanent(d) PROVE call'[c].attempt < MaxRetries
  <2>1. Finish(d) BY <1>8 DEF FailPermanent
  <2> QED BY <1>t, <1>1, <2>1, FinishEffect
<1>9. ASSUME NEW d \in Call, NEW r \in Replica, NEW p \in Upstream, Admit(d, r, p)
      PROVE  call'[c].attempt < MaxRetries
  BY <1>9, <1>t, <1>1 DEF Admit, TypeOK, CallState
<1>10. ASSUME NEW r \in Replica, Restart(r) PROVE call'[c].attempt < MaxRetries
  BY <1>10, <1>t, <1>1 DEF Restart, Idle, TypeOK, CallState
<1>11. ASSUME UNCHANGED call PROVE call'[c].attempt < MaxRetries
  BY <1>11, <1>1
<1> QED
  BY <1>2, <1>3, <1>4, <1>5, <1>6, <1>7, <1>8, <1>9, <1>10, <1>11
     DEF BreakerNext, CallStep, ClockTick, breakerVars

\* The types and OpenIffStreak are invariants of the cluster: a breaker is
\* open exactly after Threshold transient failures with no success between.
THEOREM BreakerCorrect == BreakerSpec => [](TypeOK /\ OpenIffStreak)
<1>1. BreakersOk /\ [BreakerNext]_breakerVars => BreakersOk'
  BY BreakersTyped, BreakersTrack, BreakersSleep DEF BreakersOk
<1>2. BreakersOk => TypeOK /\ OpenIffStreak
  BY DEF BreakersOk
<1> QED BY InitBreakers, <1>1, <1>2, PTL DEF BreakerSpec

=============================================================================
