----------------------------- MODULE SmartProofs -----------------------------
(***************************************************************************)
(* Labels, bindings, tools and warmth of the smart model, for any turns,   *)
(* replicas, catalogs, policies, rankings and holds.                       *)
(***************************************************************************)
EXTENDS SmartRouting, SequenceTheorems, WellFoundedInduction, TLAPS

Fields == DOMAIN Fresh

\* A kept label is a pair the classifier gave to the conversation of its key,
\* in the vocabulary of its key.
RowOk(x) ==
  /\ DOMAIN x = {"key", "label", "data", "ttl", "left"}
  /\ <<x.key[1], x.label, x.data>> \in said
  /\ x.label \in x.key[2]

\* The label of turn t is such a pair, in the vocabulary of its policy.
LabelOk(t, r) ==
  <<ConvOf(t), r.label, r.data>> \in said /\ r.label \in Vocab(r.pol)

BindingOk(r) ==
  r.label # None /\ r.ask # "explicit" =>
    LET b == BoundTo(r.pol, r.label)
    IN  ToolsOk(r.pol, r.ask = "tools", b) => r.model = b

ToolingOk(r) ==
  r.ask = "tools" /\ r.pol.cat \cap ToolModel # {} => r.model \in ToolModel

\* What holds of turn t with record r.
TurnOk(t, r) ==
  /\ DOMAIN r = Fields
  /\ r.pc \in {"new", "l2", "classify", "share", "routed", "done"}
  /\ r.pc \notin {"new", "done"} => r.at \in Replica /\ r.pol.cat \subseteq Model
  /\ r.pc \in {"new", "l2", "classify"} => r.label = None
  /\ r.pc \in {"l2", "classify", "share"} => r.key = CacheKey(t, r.pol)
  /\ r.pc = "share" => LabelOk(t, r)
  /\ r.pc = "routed" => (r.label # None => LabelOk(t, r)) /\ BindingOk(r) /\ ToolingOk(r)
  /\ r.pc # "done" => r.served = None

\* Turn s was served and left row w in the warmth table of replica p.
Left(s, w, p) ==
  /\ turn[s].served = w.model /\ turn[s].served # None
  /\ turn[s].at = p /\ ConvOf(s) = w.conv
  /\ turn[s].warmed = w.cached
  /\ turn[s].when \in Nat /\ w.age \in Nat /\ turn[s].when + w.age <= ticks

WarmOk(w, p) ==
  /\ DOMAIN w = {"conv", "turns", "cached", "age", "model"}
  /\ \E s \in Turn : Left(s, w, p)

\* A conversation that was served at a replica has a row there.
Remembered(s) ==
  turn[s].served # None =>
    turn[s].at \in Replica /\ \E w \in warm[turn[s].at] : w.conv = ConvOf(s)

\* The inductive invariant.
IInv ==
  /\ DOMAIN turn = Turn /\ DOMAIN memo = Replica /\ DOMAIN warm = Replica
  /\ rank \in Seq(Model) /\ ticks \in Nat
  /\ \A t \in Turn : TurnOk(t, turn[t])
  /\ \A x \in l2 : RowOk(x)
  /\ \A p \in Replica : \A x \in memo[p] : RowOk(x)
  /\ \A p \in Replica : \A w \in warm[p] : WarmOk(w, p)
  /\ \A s \in Turn : Remembered(s)

-----------------------------------------------------------------------------
\* Resolution of a label.

\* A non-empty set of naturals has a least element, and Min returns it.
LEMMA MinIs ==
  ASSUME NEW S \in SUBSET Nat, S # {}
  PROVE  Min(S) \in S
<1>1. PICK n \in S : \A x \in S : ~(<<x, n>> \in OpToRel(<, Nat))
  BY NatLessThanWellFounded, WFMin
<1>2. \A x \in S : ~(x < n) BY <1>1 DEF OpToRel
<1>3. \A x \in S : n <= x BY <1>2
<1> QED BY <1>3 DEF Min

\* FirstIn finds an element if there is one.
LEMMA FirstInIs ==
  ASSUME NEW s, DOMAIN s \subseteq Nat, NEW S
  PROVE  \/ FirstIn(s, S) \in S
         \/ FirstIn(s, S) = None /\ \A i \in DOMAIN s : s[i] \notin S
<1> DEFINE at == {i \in DOMAIN s : s[i] \in S}
<1>1. CASE at = {} BY <1>1 DEF FirstIn
<1>2. CASE at # {}
  <2>1. Min(at) \in at BY <1>2, MinIs
  <2>2. s[Min(at)] \in S BY <2>1
  <2>3. FirstIn(s, S) = s[Min(at)] BY <1>2 DEF FirstIn
  <2> QED BY <2>2, <2>3
<1> QED BY <1>1, <1>2

\* What FirstOk finds will do.
LEMMA FirstOkIs ==
  ASSUME NEW pol, NEW tools, NEW s, DOMAIN s \subseteq Nat
  PROVE  \/ ToolsOk(pol, tools, FirstOk(pol, tools, s))
         \/ /\ FirstOk(pol, tools, s) = None
            /\ \A i \in DOMAIN s : ~ToolsOk(pol, tools, s[i])
<1> DEFINE S == {m \in pol.cat : ToolsOk(pol, tools, m)}
<1>1. \A m : ToolsOk(pol, tools, m) => m \in S BY DEF ToolsOk
<1>2. FirstOk(pol, tools, s) = FirstIn(s, S) BY DEF FirstOk
<1>3. \A m \in S : ToolsOk(pol, tools, m) OBVIOUS
<1> HIDE DEF S
<1> QED BY <1>1, <1>2, <1>3, FirstInIs

\* A fallback for tools speaks tools if any model of the catalog does.
LEMMA FallbackTools ==
  ASSUME NEW pol, NEW tools \in BOOLEAN, tools, NEW shipped, rank \in Seq(Model),
         pol.cat \subseteq Model,
         pol.cat \cap ToolModel # {}
  PROVE  Fallback(pol, tools, shipped) \in ToolModel
<1> DEFINE best == FirstIn(rank, pol.cat)
           four == <<pol.bind["other"], shipped, best, Frontier>>
           s    == four \o Order
           pick == FirstOk(pol, tools, s)
<1>1. PICK X : X = Model \cup {pol.bind["other"], shipped, best, Frontier} OBVIOUS
<1>2. four \in Seq(X) /\ Len(four) = 4 BY <1>1
<1>3. Order \in Seq(X) BY <1>1, SmartAssumption
<1> HIDE DEF four
<1>4. s \in Seq(X) /\ Len(s) = 4 + Len(Order) /\ DOMAIN s \subseteq Nat
  <2>1. s \in Seq(X) /\ Len(s) = Len(four) + Len(Order) BY <1>2, <1>3, ConcatProperties
  <2>2. Len(s) = 4 + Len(Order) BY <1>2, <2>1
  <2> QED BY <2>1, <2>2
<1>5. \A i \in DOMAIN Order : 4 + i \in DOMAIN s /\ s[4 + i] = Order[i] BY <1>2, <1>3, <1>4
<1>6. PICK m \in pol.cat \cap ToolModel : TRUE OBVIOUS
<1>7. PICK i \in DOMAIN Order : Order[i] = m BY <1>6 DEF Model
<1> HIDE DEF s
<1>8. ToolsOk(pol, tools, s[4 + i]) BY <1>5, <1>6, <1>7 DEF ToolsOk
<1>9. ToolsOk(pol, tools, pick) BY <1>4, <1>5, <1>8, FirstOkIs
<1> HIDE DEF pick
<1>10. pick \in Model /\ pick \in ToolModel BY <1>9 DEF ToolsOk
<1>11. pick # None BY <1>10, SmartAssumption
<1>12. Fallback(pol, tools, shipped) = pick BY <1>11 DEF Fallback, pick, s, four
<1> QED BY <1>10, <1>12

\* A binding that will do decides.
LEMMA LadderBinds ==
  ASSUME NEW pol, NEW tools, NEW l, pol.cat \subseteq Model,
         ToolsOk(pol, tools, BoundTo(pol, l))
  PROVE  Ladder(pol, tools, l) = [model |-> BoundTo(pol, l), bound |-> TRUE]
<1>1. BoundTo(pol, l) # None BY SmartAssumption DEF ToolsOk
<1> QED BY <1>1 DEF Ladder

\* The ladder of a turn with tools.
LEMMA LadderTools ==
  ASSUME NEW pol, NEW tools \in BOOLEAN, tools, NEW l, rank \in Seq(Model), pol.cat \subseteq Model,
         pol.cat \cap ToolModel # {}
  PROVE  Ladder(pol, tools, l).model \in ToolModel
<1> DEFINE b == BoundTo(pol, l)
           bench == BenchPick(pol, tools, l)
           fb == Fallback(pol, tools, Global["other"])
<1>1. fb \in ToolModel BY FallbackTools
<1>2. bench # None => bench \in ToolModel
  <2>1. DOMAIN rank \subseteq Nat OBVIOUS
  <2> QED BY <2>1, FirstOkIs DEF BenchPick, ToolsOk
<1>3. ToolsOk(pol, tools, b) => b \in ToolModel BY DEF ToolsOk
<1> DEFINE L == Ladder(pol, tools, l)
<1>4. \/ L.model = b /\ ToolsOk(pol, tools, b)
      \/ L.model = bench /\ bench # None
      \/ L.model = fb
  BY DEF Ladder
<1> QED BY <1>1, <1>2, <1>3, <1>4

\* Only a binding makes the ladder bind.
LEMMA LadderUnbound ==
  ASSUME NEW pol, NEW tools, NEW l, BoundTo(pol, l) = None
  PROVE  Ladder(pol, tools, l).bound = FALSE
<1>1. CASE BenchPick(pol, tools, l) # None /\ ~ToolsOk(pol, tools, pol.bind["other"])
  BY <1>1 DEF Ladder
<1>2. CASE ~(BenchPick(pol, tools, l) # None /\ ~ToolsOk(pol, tools, pol.bind["other"]))
  BY <1>2 DEF Ladder
<1> QED BY <1>1, <1>2

\* The hold keeps the model of the ladder, or an incumbent that will do.
LEMMA HeldIs ==
  ASSUME NEW fresh, NEW p, NEW c, NEW pol, NEW tools
  PROVE  \/ Held(fresh, p, c, pol, tools) = fresh.model
         \/ ~fresh.bound /\ ToolsOk(pol, tools, Held(fresh, p, c, pol, tools))
<1> DEFINE inc == {w.model : w \in {x \in WarmRow(p, c) : Holds(x, pol, tools)}}
<1>1. \A m \in inc : ToolsOk(pol, tools, m) BY DEF Holds
<1>2. inc # {} => (CHOOSE m \in inc : TRUE) \in inc OBVIOUS
<1>3. Held(fresh, p, c, pol, tools) = IF fresh.bound \/ inc = {} THEN fresh.model
                                       ELSE CHOOSE m \in inc : TRUE
  BY DEF Held
<1> HIDE DEF inc
<1> QED BY <1>1, <1>2, <1>3

\* A turn whose label is the conversation's own is resolved soundly.
LEMMA ResolvedOk ==
  ASSUME NEW t, NEW r, NEW l, NEW d, rank \in Seq(Model),
         DOMAIN r = Fields, r.at \in Replica, r.pol.cat \subseteq Model, r.served = None,
         l # None => <<ConvOf(t), l, d>> \in said /\ l \in Vocab(r.pol)
  PROVE  TurnOk(t, Resolved(r, t, l, d))
<1>1. PICK tools \in BOOLEAN : tools = (r.ask = "tools") OBVIOUS
<1>2. PICK n : n = Resolved(r, t, l, d) OBVIOUS
<1> DEFINE lad == Ladder(r.pol, tools, l)
           fb == Fallback(r.pol, tools, Global["other"])
<1>3. /\ DOMAIN n = Fields /\ n.pc = "routed" /\ n.label = l /\ n.data = d /\ n.at = r.at
      /\ n.pol = r.pol /\ n.ask = r.ask /\ n.served = None
  BY <1>2 DEF Resolved, Fields, Fresh
<1>4. n.model = IF r.ask = "explicit" THEN None
                ELSE IF l = None THEN fb ELSE Held(lad, r.at, ConvOf(t), r.pol, tools)
  BY <1>1, <1>2 DEF Resolved, Fields, Fresh
<1>5. l # None => LabelOk(t, n) BY <1>3 DEF LabelOk
<1>6. BindingOk(n)
  <2> SUFFICES ASSUME l # None, r.ask # "explicit",
                      ToolsOk(r.pol, r.ask = "tools", BoundTo(r.pol, l))
               PROVE  n.model = BoundTo(r.pol, l)
    BY <1>3 DEF BindingOk
  <2>1. ToolsOk(r.pol, tools, BoundTo(r.pol, l)) BY <1>1
  <2>2. lad = [model |-> BoundTo(r.pol, l), bound |-> TRUE] BY <2>1, LadderBinds
  <2>3. lad.model = BoundTo(r.pol, l) /\ lad.bound = TRUE BY <2>2
  <2> HIDE DEF lad
  <2>4. Held(lad, r.at, ConvOf(t), r.pol, tools) = lad.model BY <2>3, HeldIs
  <2> QED BY <1>4, <2>3, <2>4
<1>7. ToolingOk(n)
  <2> SUFFICES ASSUME r.ask = "tools", r.pol.cat \cap ToolModel # {}
               PROVE  n.model \in ToolModel
    BY <1>3 DEF ToolingOk
  <2>1. tools BY <1>1
  <2>2. fb \in ToolModel BY <2>1, FallbackTools
  <2>3. lad.model \in ToolModel BY <2>1, LadderTools
  <2> HIDE DEF lad
  <2>4. Held(lad, r.at, ConvOf(t), r.pol, tools) \in ToolModel
    BY <2>1, <2>3, HeldIs DEF ToolsOk
  <2> HIDE DEF fb
  <2> QED BY <1>4, <2>2, <2>4
<1>8. TurnOk(t, n) BY <1>3, <1>5, <1>6, <1>7 DEF TurnOk
<1> QED BY <1>2, <1>8

-----------------------------------------------------------------------------
\* The frame.

\* What the classifier said stays said.
LEMMA TurnStays ==
  ASSUME NEW t, NEW r, TurnOk(t, r), said \subseteq said'
  PROVE  TurnOk(t, r)'
<1>1. LabelOk(t, r) => LabelOk(t, r)' BY DEF LabelOk
<1> QED BY <1>1 DEF TurnOk

LEMMA RowStays ==
  ASSUME NEW x, RowOk(x), said \subseteq said'
  PROVE  RowOk(x)'
BY DEF RowOk

\* The label tables, as the invariant has them.
Tables ==
  /\ DOMAIN memo = Replica
  /\ \A x \in l2 : RowOk(x)
  /\ \A p \in Replica : \A x \in memo[p] : RowOk(x)

LEMMA TablesStay ==
  ASSUME Tables, said \subseteq said', UNCHANGED <<memo, l2>>
  PROVE  Tables'
BY RowStays DEF Tables

\* The warmth table, as the invariant has it.
Warmth ==
  /\ DOMAIN warm = Replica
  /\ \A p \in Replica : \A w \in warm[p] : WarmOk(w, p)
  /\ \A s \in Turn : Remembered(s)

LEMMA InvariantParts ==
  IInv <=> /\ DOMAIN turn = Turn /\ rank \in Seq(Model) /\ ticks \in Nat
           /\ \A t \in Turn : TurnOk(t, turn[t])
           /\ Tables /\ Warmth
BY DEF IInv, Tables, Warmth

\* A turn that was not served does not bear on the warmth of any conversation.
LEMMA WarmthStays ==
  ASSUME Warmth, DOMAIN turn = Turn, NEW t \in Turn, NEW n, turn[t].served = None,
         n.served = None, turn' = [turn EXCEPT ![t] = n], UNCHANGED <<warm, ticks>>
  PROVE  Warmth'
<1>1. \A s \in Turn : turn[s].served # None \/ turn'[s].served # None => turn'[s] = turn[s]
  OBVIOUS
<1>2. ASSUME NEW p \in Replica, NEW w \in warm[p] PROVE WarmOk(w, p)'
  <2>1. WarmOk(w, p) BY DEF Warmth
  <2>2. PICK s \in Turn : Left(s, w, p) BY <2>1 DEF WarmOk
  <2>3. Left(s, w, p)' BY <1>1, <2>2 DEF Left
  <2> QED BY <2>1, <2>3 DEF WarmOk
<1>3. ASSUME NEW s \in Turn PROVE Remembered(s)'
  BY <1>1 DEF Warmth, Remembered
<1> QED BY <1>2, <1>3 DEF Warmth

\* A turn goes on, not yet served or over.
LEMMA TurnGoesOn ==
  ASSUME IInv, NEW t \in Turn, NEW n, turn[t].pc # "done", n.served = None,
         TurnOk(t, n)', turn' = [turn EXCEPT ![t] = n], said \subseteq said', Tables',
         UNCHANGED <<warm, rank, ticks>>
  PROVE  IInv'
<1>1. /\ DOMAIN turn = Turn /\ rank \in Seq(Model) /\ ticks \in Nat /\ Warmth
      /\ \A u \in Turn : TurnOk(u, turn[u])
  BY InvariantParts
<1>2. turn[t].served = None BY <1>1 DEF TurnOk
<1>3. Warmth' BY <1>1, <1>2, WarmthStays
<1>4. ASSUME NEW u \in Turn PROVE TurnOk(u, turn[u])'
  <2>1. CASE u = t
    <3>1. turn'[u] = n BY <1>1, <2>1
    <3> QED BY <2>1, <3>1 DEF TurnOk, LabelOk, BindingOk, ToolingOk
  <2>2. CASE u # t
    <3>1. turn'[u] = turn[u] BY <1>1, <2>2
    <3>2. PICK r : r = turn[u] OBVIOUS
    <3>3. TurnOk(u, r)' BY <1>1, <3>2, TurnStays
    <3> QED BY <3>1, <3>2, <3>3 DEF TurnOk, LabelOk, BindingOk, ToolingOk
  <2> QED BY <2>1, <2>2
<1>5. DOMAIN turn' = Turn /\ rank' \in Seq(Model) /\ ticks' \in Nat BY <1>1
<1> QED BY <1>3, <1>4, <1>5, InvariantParts DEF IInv, Tables, Warmth

-----------------------------------------------------------------------------
\* The steps of a turn.

\* A turn that reached a replica and has looked nothing up.
Arrived(t, r) ==
  /\ DOMAIN r = Fields
  /\ r.at \in Replica /\ r.pol.cat \subseteq Model
  /\ r.key = CacheKey(t, r.pol)
  /\ r.label = None /\ r.served = None

\* A resolved turn is not served yet, and a step of its own.
LEMMA ResolvedServed ==
  ASSUME NEW t, NEW r, NEW l, NEW d, DOMAIN r = Fields, r.served = None
  PROVE  Resolved(r, t, l, d).served = None
BY DEF Resolved, Fields, Fresh

LEMMA Resolves ==
  ASSUME IInv, NEW t \in Turn, turn[t].pc # "done", NEW r, NEW l, NEW d,
         DOMAIN r = Fields, r.at \in Replica, r.pol.cat \subseteq Model, r.served = None,
         l # None => <<ConvOf(t), l, d>> \in said /\ l \in Vocab(r.pol),
         turn' = [turn EXCEPT ![t] = Resolved(r, t, l, d)],
         Tables', UNCHANGED <<warm, rank, ticks, said>>
  PROVE  IInv'
<1>1. rank \in Seq(Model) BY DEF IInv
<1>2. PICK n : n = Resolved(r, t, l, d) OBVIOUS
<1>3. TurnOk(t, n) BY <1>1, <1>2, ResolvedOk
<1>4. TurnOk(t, n)' BY <1>3, TurnStays
<1>5. n.served = None BY <1>2, ResolvedServed
<1>6. turn' = [turn EXCEPT ![t] = n] BY <1>2
<1> QED BY <1>4, <1>5, <1>6, TurnGoesOn

\* A row under the key of a turn is a label for it.
LEMMA HitIs ==
  ASSUME NEW t, NEW pol, NEW x, RowOk(x), x.key = CacheKey(t, pol)
  PROVE  <<ConvOf(t), x.label, x.data>> \in said /\ x.label \in Vocab(pol)
<1>1. x.key[1] = ConvOf(t) /\ x.key[2] = Vocab(pol) BY DEF CacheKey
<1> QED BY <1>1 DEF RowOk

\* A slid row is the same pair under the same key.
LEMMA SlidOk ==
  ASSUME NEW x, RowOk(x)
  PROVE  RowOk([x EXCEPT !.left = x.ttl])
BY DEF RowOk

LEMMA LookupKeeps ==
  ASSUME IInv, NEW t \in Turn, turn[t].pc = "new", NEW r, Arrived(t, r), Lookup(t, r),
         UNCHANGED <<l2, warm, rank, ticks, said>>
  PROVE  IInv'
<1>1. Tables BY InvariantParts
<1>2. CASE Hits(r.at, r.key) = {}
  <2>1. UNCHANGED memo BY <1>2 DEF Lookup
  <2>2. Tables' BY <1>1, <2>1, TablesStay
  <2>3. PICK n : n = [r EXCEPT !.pc = "l2"] OBVIOUS
  <2>4. /\ DOMAIN n = Fields /\ n.pc = "l2" /\ n.at = r.at /\ n.pol = r.pol /\ n.key = r.key
        /\ n.label = None /\ n.served = None
    BY <2>3 DEF Arrived, Fields, Fresh
  <2>5. TurnOk(t, n) BY <2>4 DEF TurnOk, Arrived
  <2>6. TurnOk(t, n)' BY <2>5, TurnStays
  <2>7. turn' = [turn EXCEPT ![t] = n] BY <1>2, <2>3 DEF Lookup
  <2> QED BY <2>2, <2>4, <2>6, <2>7, TurnGoesOn
<1>3. CASE Hits(r.at, r.key) # {}
  <2>1. PICK x \in Hits(r.at, r.key) :
          /\ turn' = [turn EXCEPT ![t] = Resolved(r, t, x.label, x.data)]
          /\ memo' = [memo EXCEPT ![r.at] = Slid(r.at, r.key)]
    BY <1>3 DEF Lookup
  <2>2. x \in memo[r.at] /\ x.key = r.key BY <2>1 DEF Hits
  <2>3. RowOk(x) BY <1>1, <2>2 DEF Tables, Arrived
  <2>4. <<ConvOf(t), x.label, x.data>> \in said /\ x.label \in Vocab(r.pol)
    BY <2>2, <2>3, HitIs DEF Arrived
  <2>5. \A y \in Slid(r.at, r.key) : RowOk(y)
    <3> SUFFICES ASSUME NEW x2 \in memo[r.at]
                 PROVE  RowOk(IF x2.key = r.key THEN [x2 EXCEPT !.left = x2.ttl] ELSE x2)
      BY DEF Slid
    <3>1. RowOk(x2) BY <1>1 DEF Tables, Arrived
    <3> QED BY <3>1, SlidOk
  <2>6. Tables'
    <3>1. ASSUME NEW p \in Replica, NEW y \in memo'[p] PROVE RowOk(y)'
      <4>1. y \in Slid(r.at, r.key) \/ y \in memo[p] BY <1>1, <2>1 DEF Tables
      <4>2. RowOk(y) BY <1>1, <2>5, <4>1 DEF Tables
      <4> QED BY <4>2, RowStays
    <3>2. ASSUME NEW y \in l2' PROVE RowOk(y)' BY <1>1, RowStays DEF Tables
    <3>3. DOMAIN memo' = Replica BY <1>1, <2>1 DEF Tables
    <3> QED BY <3>1, <3>2, <3>3 DEF Tables
  <2> QED BY <2>1, <2>4, <2>6, Resolves DEF Arrived
<1> QED BY <1>2, <1>3

\* The records of an arriving turn.
LEMMA ArrivalIs ==
  ASSUME IInv, NEW t \in Turn, turn[t].pc = "new", NEW p \in SitesOf[t],
         NEW s \in ScopesOf[t], NEW ask, NEW r \in Arrivals(t, p, s, ask)
  PROVE  Arrived(t, r) /\ r.ask = ask
<1>1. DOMAIN turn[t] = Fields /\ turn[t].label = None /\ turn[t].served = None
  BY DEF IInv, TurnOk
<1>2. PICK pol \in PoliciesFor(s) :
        r = [turn[t] EXCEPT !.at = p, !.pol = pol, !.key = CacheKey(t, pol), !.ask = ask,
                            !.scope = s]
  BY DEF Arrivals
<1>3. PICK row \in RowsFor(s), adopted \in AdoptionsFor(s), barred \in BarredFor(s) :
        pol = Effective(row, adopted, barred)
  BY DEF PoliciesFor
<1>4. /\ DOMAIN r = Fields /\ r.at = p /\ r.pol = pol /\ r.key = CacheKey(t, pol)
      /\ r.ask = ask /\ r.label = None /\ r.served = None
  BY <1>1, <1>2 DEF Fields, Fresh
<1>5. pol.cat = Base \cup adopted BY <1>3 DEF Effective, CatalogWith
<1>6. adopted \subseteq Model /\ Base \subseteq Model /\ p \in Replica
  BY SmartAssumption DEF AdoptionsFor
<1> QED BY <1>4, <1>5, <1>6 DEF Arrived

LEMMA ArriveKeeps ==
  ASSUME IInv, NEW t \in Turn, NEW p \in SitesOf[t], NEW s \in ScopesOf[t], NEW ask,
         Arrive(t, p, s, ask) \/ ArriveExplicit(t, p, s, ask)
  PROVE  IInv'
<1>1. turn[t].pc = "new" /\ UNCHANGED <<l2, warm, rank, ticks, said>>
  BY DEF Arrive, ArriveExplicit
<1>2. CASE \E r \in Arrivals(t, p, s, ask) : Lookup(t, r)
  <2>1. PICK r \in Arrivals(t, p, s, ask) : Lookup(t, r) BY <1>2
  <2>2. Arrived(t, r) BY <1>1, ArrivalIs
  <2> QED BY <1>1, <2>1, <2>2, LookupKeeps
<1>3. CASE ask = "explicit" /\ \E r \in Arrivals(t, p, s, ask) :
             turn' = [turn EXCEPT ![t] = [r EXCEPT !.pc = "routed"]] /\ UNCHANGED memo
  <2>1. PICK r \in Arrivals(t, p, s, ask) :
          turn' = [turn EXCEPT ![t] = [r EXCEPT !.pc = "routed"]] /\ UNCHANGED memo
    BY <1>3
  <2>2. Arrived(t, r) /\ r.ask = "explicit" BY <1>1, <1>3, ArrivalIs
  <2>3. PICK n : n = [r EXCEPT !.pc = "routed"] OBVIOUS
  <2>4. /\ DOMAIN n = Fields /\ n.pc = "routed" /\ n.at = r.at /\ n.pol = r.pol
        /\ n.label = None /\ n.served = None /\ n.ask = "explicit"
    BY <2>2, <2>3 DEF Arrived, Fields, Fresh
  <2>5. TurnOk(t, n) BY <2>2, <2>4 DEF TurnOk, Arrived, BindingOk, ToolingOk
  <2>6. TurnOk(t, n)' BY <1>1, <2>5, TurnStays
  <2>7. Tables' BY <1>1, <2>1, InvariantParts, TablesStay
  <2> QED BY <1>1, <2>1, <2>3, <2>4, <2>6, <2>7, TurnGoesOn
<1> QED BY <1>2, <1>3 DEF Arrive, ArriveExplicit

LEMMA PolicyErrorKeeps ==
  ASSUME IInv, NEW t \in Turn, NEW p \in SitesOf[t], NEW s \in ScopesOf[t], NEW ask,
         PolicyError(t, p, s, ask)
  PROVE  IInv'
<1>1. /\ turn[t].pc = "new" /\ ask # "explicit"
      /\ UNCHANGED <<memo, l2, warm, rank, ticks, said>>
  BY DEF PolicyError
<1>2. PICK adopted \in AdoptionsFor(s) :
        turn' = [turn EXCEPT ![t] =
          [@ EXCEPT !.pc = "routed", !.at = p, !.pol = Effective(NoRow, adopted, {}),
                    !.ask = ask, !.scope = s,
                    !.model = Fallback(Effective(NoRow, adopted, {}), ask = "tools", None)]]
  BY DEF PolicyError
<1>3. DOMAIN turn[t] = Fields /\ turn[t].label = None /\ turn[t].served = None
      /\ rank \in Seq(Model) /\ DOMAIN turn = Turn
  BY <1>1 DEF IInv, TurnOk
<1>4. PICK pol : pol = Effective(NoRow, adopted, {}) OBVIOUS
<1>5. PICK tools \in BOOLEAN : tools = (ask = "tools") OBVIOUS
<1>6. PICK n : n = [turn[t] EXCEPT !.pc = "routed", !.at = p, !.pol = pol, !.ask = ask,
                                   !.scope = s, !.model = Fallback(pol, tools, None)]
  OBVIOUS
<1>7. turn' = [turn EXCEPT ![t] = n] BY <1>2, <1>4, <1>5, <1>6
<1>8. /\ DOMAIN n = Fields /\ n.pc = "routed" /\ n.at = p /\ n.pol = pol /\ n.ask = ask
      /\ n.label = None /\ n.served = None /\ n.model = Fallback(pol, tools, None)
  BY <1>3, <1>6 DEF Fields, Fresh
<1>9. p \in Replica /\ pol.cat \subseteq Model
  <2>1. pol.cat = Base \cup adopted BY <1>4 DEF Effective, CatalogWith
  <2>2. adopted \subseteq Model /\ Base \subseteq Model /\ p \in Replica
    BY SmartAssumption DEF AdoptionsFor
  <2> QED BY <2>1, <2>2
<1>10. ToolingOk(n)
  <2> SUFFICES ASSUME ask = "tools", pol.cat \cap ToolModel # {} PROVE n.model \in ToolModel
    BY <1>8 DEF ToolingOk
  <2>1. tools BY <1>5
  <2>2. Fallback(pol, tools, None) \in ToolModel BY <1>3, <1>9, <2>1, FallbackTools
  <2> QED BY <1>8, <2>2
<1>11. TurnOk(t, n) BY <1>8, <1>9, <1>10 DEF TurnOk, BindingOk
<1>12. TurnOk(t, n)' BY <1>1, <1>11, TurnStays
<1>13. Tables' BY <1>1, InvariantParts, TablesStay
<1> QED BY <1>1, <1>7, <1>8, <1>12, <1>13, TurnGoesOn

\* Replacing the row of a key.
LEMMA PutOk ==
  ASSUME NEW rows, NEW k, NEW l, NEW d, NEW ttl, \A x \in rows : RowOk(x),
         <<k[1], l, d>> \in said, l \in k[2]
  PROVE  \A x \in Put(rows, Row(k, l, d, ttl)) : RowOk(x)
<1>1. RowOk(Row(k, l, d, ttl)) BY DEF RowOk, Row
<1> QED BY <1>1 DEF Put

\* What a turn between its lookup and its answer knows.
LEMMA Underway ==
  ASSUME IInv, NEW t \in Turn, turn[t].pc \in {"l2", "classify", "share"}
  PROVE  /\ DOMAIN turn[t] = Fields /\ turn[t].at \in Replica
         /\ turn[t].pol.cat \subseteq Model
         /\ turn[t].key = CacheKey(t, turn[t].pol) /\ turn[t].served = None
         /\ turn[t].key[1] = ConvOf(t) /\ turn[t].key[2] = Vocab(turn[t].pol)
<1>1. TurnOk(t, turn[t]) BY DEF IInv
<1>2. turn[t].key = CacheKey(t, turn[t].pol) BY <1>1 DEF TurnOk
<1>3. turn[t].key[1] = ConvOf(t) /\ turn[t].key[2] = Vocab(turn[t].pol) BY <1>2 DEF CacheKey
<1> QED BY <1>1, <1>2, <1>3 DEF TurnOk

LEMMA L2HitKeeps ==
  ASSUME IInv, NEW t \in Turn, L2Hit(t)
  PROVE  IInv'
<1>1. turn[t].pc = "l2" /\ UNCHANGED <<l2, warm, rank, ticks, said>> BY DEF L2Hit
<1>2. PICK x \in l2 :
        /\ x.key = turn[t].key
        /\ memo' = [memo EXCEPT ![turn[t].at] = Put(@, Row(x.key, x.label, x.data, LabelTtl))]
        /\ turn' = [turn EXCEPT ![t] = Resolved(@, t, x.label, x.data)]
  BY DEF L2Hit
<1>3. Tables /\ DOMAIN turn = Turn BY InvariantParts
<1>4. RowOk(x) BY <1>3 DEF Tables
<1>5. PICK r : r = turn[t] OBVIOUS
<1>6. /\ DOMAIN r = Fields /\ r.at \in Replica /\ r.pol.cat \subseteq Model /\ r.served = None
      /\ r.key = CacheKey(t, r.pol) /\ r.key[1] = ConvOf(t) /\ r.key[2] = Vocab(r.pol)
  BY <1>1, <1>5, Underway
<1>7. <<ConvOf(t), x.label, x.data>> \in said /\ x.label \in Vocab(r.pol)
  BY <1>2, <1>4, <1>5, <1>6, HitIs
<1>8. Tables'
  <2>1. memo' = [memo EXCEPT ![r.at] = Put(memo[r.at], Row(x.key, x.label, x.data, LabelTtl))]
    BY <1>2, <1>3, <1>5, <1>6 DEF Tables
  <2>2. \A y \in memo[r.at] : RowOk(y) BY <1>3, <1>6 DEF Tables
  <2>3. <<x.key[1], x.label, x.data>> \in said /\ x.label \in x.key[2] BY <1>4 DEF RowOk
  <2>4. \A y \in Put(memo[r.at], Row(x.key, x.label, x.data, LabelTtl)) : RowOk(y)
    BY <2>2, <2>3, PutOk
  <2>5. ASSUME NEW p \in Replica, NEW y \in memo'[p] PROVE RowOk(y)'
    <3>1. \/ y \in Put(memo[r.at], Row(x.key, x.label, x.data, LabelTtl))
          \/ y \in memo[p]
      BY <1>3, <2>1 DEF Tables
    <3>2. RowOk(y) BY <1>3, <2>4, <3>1 DEF Tables
    <3> QED BY <1>1, <3>2, RowStays
  <2>6. ASSUME NEW y \in l2' PROVE RowOk(y)' BY <1>1, <1>3, RowStays DEF Tables
  <2>7. DOMAIN memo' = Replica BY <1>3, <2>1 DEF Tables
  <2> QED BY <2>5, <2>6, <2>7 DEF Tables
<1>9. turn' = [turn EXCEPT ![t] = Resolved(r, t, x.label, x.data)] BY <1>2, <1>3, <1>5
<1> QED BY <1>1, <1>6, <1>7, <1>8, <1>9, Resolves

LEMMA L2MissKeeps ==
  ASSUME IInv, NEW t \in Turn, L2Miss(t)
  PROVE  IInv'
<1>1. turn[t].pc = "l2" /\ UNCHANGED <<memo, l2, warm, rank, ticks, said>> BY DEF L2Miss
<1>2. DOMAIN turn = Turn /\ TurnOk(t, turn[t]) /\ Tables BY InvariantParts
<1>3. PICK n : n = [turn[t] EXCEPT !.pc = "classify"] OBVIOUS
<1>4. turn' = [turn EXCEPT ![t] = n] BY <1>2, <1>3 DEF L2Miss
<1>5. /\ DOMAIN n = Fields /\ n.pc = "classify" /\ n.at = turn[t].at /\ n.pol = turn[t].pol
      /\ n.key = turn[t].key /\ n.label = turn[t].label /\ n.served = turn[t].served
  BY <1>2, <1>3 DEF TurnOk, Fields, Fresh
<1>6. TurnOk(t, n) /\ n.served = None BY <1>1, <1>2, <1>5 DEF TurnOk
<1>7. TurnOk(t, n)' BY <1>1, <1>6, TurnStays
<1>8. Tables' BY <1>1, <1>2, TablesStay
<1> QED BY <1>1, <1>4, <1>6, <1>7, <1>8, TurnGoesOn

LEMMA ClassifiedKeeps ==
  ASSUME IInv, NEW t \in Turn, Classified(t)
  PROVE  IInv'
<1>1. turn[t].pc = "classify" /\ UNCHANGED <<l2, warm, rank, ticks>> BY DEF Classified
<1>2. Tables /\ DOMAIN turn = Turn BY InvariantParts
<1>3. PICK r : r = turn[t] OBVIOUS
<1>0. PICK l \in Vocab(r.pol), d \in ParsedData(r.pol) :
        /\ memo' = [memo EXCEPT ![r.at] = Put(@, Row(r.key, l, d, Hold(t, r.at, l)))]
        /\ turn' = [turn EXCEPT ![t].pc = "share", ![t].label = l, ![t].data = d,
                                ![t].hold = Hold(t, r.at, l)]
        /\ said' = said \cup {<<ConvOf(t), l, d>>}
  BY <1>3 DEF Classified, ParsedLabels
<1>h. PICK h : h = Hold(t, r.at, l) OBVIOUS
<1>4. /\ memo' = [memo EXCEPT ![r.at] = Put(memo[r.at], Row(r.key, l, d, h))]
      /\ turn' = [turn EXCEPT ![t] = [r EXCEPT !.pc = "share", !.label = l, !.data = d,
                                               !.hold = h]]
      /\ said' = said \cup {<<ConvOf(t), l, d>>}
  <2>1. r.at \in Replica BY <1>1, <1>3, Underway
  <2>2. memo' = [memo EXCEPT ![r.at] = Put(memo[r.at], Row(r.key, l, d, h))]
    BY <1>0, <1>2, <1>h, <2>1 DEF Tables
  <2>3. turn' = [turn EXCEPT ![t] = [r EXCEPT !.pc = "share", !.label = l, !.data = d,
                                              !.hold = h]]
    BY <1>0, <1>2, <1>3, <1>h
  <2> QED BY <1>0, <2>2, <2>3
<1>5. /\ DOMAIN r = Fields /\ r.at \in Replica /\ r.pol.cat \subseteq Model /\ r.served = None
      /\ r.key = CacheKey(t, r.pol) /\ r.key[1] = ConvOf(t) /\ r.key[2] = Vocab(r.pol)
  BY <1>1, <1>3, Underway
<1>6. PICK n : n = [r EXCEPT !.pc = "share", !.label = l, !.data = d, !.hold = h] OBVIOUS
<1>7. /\ DOMAIN n = Fields /\ n.pc = "share" /\ n.at = r.at /\ n.pol = r.pol /\ n.key = r.key
      /\ n.label = l /\ n.data = d /\ n.served = None
  BY <1>5, <1>6 DEF Fields, Fresh
<1>8. said \subseteq said' /\ <<ConvOf(t), l, d>> \in said' BY <1>4
<1>9. TurnOk(t, n)' BY <1>5, <1>7, <1>8 DEF TurnOk, LabelOk
<1>10. Tables'
  <2>1. \A y \in memo[r.at] : RowOk(y)' BY <1>2, <1>5, <1>8, RowStays DEF Tables
  <2>2. RowOk(Row(r.key, l, d, h))'
    <3>1. PICK x : x = Row(r.key, l, d, h) OBVIOUS
    <3>2. RowOk(x)' BY <1>5, <1>8, <3>1 DEF RowOk, Row
    <3> QED BY <3>1, <3>2
  <2>3. ASSUME NEW p \in Replica, NEW y \in memo'[p] PROVE RowOk(y)'
    <3>1. y \in memo[r.at] \/ y = Row(r.key, l, d, h) \/ y \in memo[p]
      BY <1>2, <1>4 DEF Tables, Put
    <3>2. y \in memo[p] => RowOk(y)' BY <1>2, <1>8, RowStays DEF Tables
    <3> QED BY <2>1, <2>2, <3>1, <3>2
  <2>4. ASSUME NEW y \in l2' PROVE RowOk(y)' BY <1>1, <1>2, <1>8, RowStays DEF Tables
  <2>5. DOMAIN memo' = Replica BY <1>2, <1>4 DEF Tables
  <2> QED BY <2>3, <2>4, <2>5 DEF Tables
<1>11. turn' = [turn EXCEPT ![t] = n] BY <1>4, <1>6
<1> QED BY <1>1, <1>7, <1>8, <1>9, <1>10, <1>11, TurnGoesOn

LEMMA ClassifyFailsKeeps ==
  ASSUME IInv, NEW t \in Turn, ClassifyFails(t)
  PROVE  IInv'
<1>1. turn[t].pc = "classify" /\ UNCHANGED <<memo, l2, warm, rank, ticks, said>>
  BY DEF ClassifyFails
<1>2. Tables /\ DOMAIN turn = Turn BY InvariantParts
<1>3. PICK r : r = turn[t] OBVIOUS
<1>4. DOMAIN r = Fields /\ r.at \in Replica /\ r.pol.cat \subseteq Model /\ r.served = None
  BY <1>1, <1>3, Underway
<1>5. PICK d : turn' = [turn EXCEPT ![t] = Resolved(r, t, None, d)]
  BY <1>2, <1>3 DEF ClassifyFails
<1>6. Tables' BY <1>1, <1>2, TablesStay
<1> QED BY <1>1, <1>4, <1>5, <1>6, Resolves

LEMMA ShareKeeps ==
  ASSUME IInv, NEW t \in Turn, Share(t)
  PROVE  IInv'
<1>1. turn[t].pc = "share" /\ UNCHANGED <<memo, warm, rank, ticks, said>> BY DEF Share
<1>2. Tables /\ DOMAIN turn = Turn BY InvariantParts
<1>3. PICK r : r = turn[t] OBVIOUS
<1>4. /\ DOMAIN r = Fields /\ r.at \in Replica /\ r.pol.cat \subseteq Model /\ r.served = None
      /\ r.key[1] = ConvOf(t) /\ r.key[2] = Vocab(r.pol)
  BY <1>1, <1>3, Underway
<1>5. <<ConvOf(t), r.label, r.data>> \in said /\ r.label \in Vocab(r.pol)
  BY <1>1, <1>3 DEF IInv, TurnOk, LabelOk
<1>6. turn' = [turn EXCEPT ![t] = Resolved(r, t, r.label, r.data)]
  BY <1>2, <1>3 DEF Share
<1>7. Tables'
  <2>1. l2' = l2 \/ l2' = Put(l2, Row(r.key, r.label, r.data, r.hold)) BY <1>3 DEF Share
  <2>2. \A x \in Put(l2, Row(r.key, r.label, r.data, r.hold)) : RowOk(x)
    BY <1>2, <1>4, <1>5, PutOk DEF Tables
  <2>3. ASSUME NEW x \in l2' PROVE RowOk(x)'
    <3>1. RowOk(x) BY <1>2, <2>1, <2>2 DEF Tables
    <3> QED BY <1>1, <3>1, RowStays
  <2>4. ASSUME NEW p \in Replica, NEW x \in memo'[p] PROVE RowOk(x)'
    BY <1>1, <1>2, RowStays DEF Tables
  <2> QED BY <1>1, <1>2, <2>3, <2>4 DEF Tables
<1> QED BY <1>1, <1>4, <1>5, <1>6, <1>7, Resolves

LEMMA ServeFailsKeeps ==
  ASSUME IInv, NEW t \in Turn, ServeFails(t)
  PROVE  IInv'
<1>1. turn[t].pc = "routed" /\ UNCHANGED <<memo, l2, warm, rank, ticks, said>>
  BY DEF ServeFails
<1>2. PICK n : n = [Fresh EXCEPT !.pc = "done"] OBVIOUS
<1>3. DOMAIN n = Fields /\ n.pc = "done" /\ n.served = None BY <1>2 DEF Fields, Fresh
<1>4. turn' = [turn EXCEPT ![t] = n] BY <1>2 DEF ServeFails
<1>5. TurnOk(t, n)' BY <1>3 DEF TurnOk
<1>6. Tables' BY <1>1, InvariantParts, TablesStay
<1> QED BY <1>1, <1>3, <1>4, <1>5, <1>6, TurnGoesOn

LEMMA ServeKeeps ==
  ASSUME IInv, NEW t \in Turn, Serve(t)
  PROVE  IInv'
<1>1. turn[t].pc = "routed" /\ UNCHANGED <<memo, l2, rank, ticks, said>> BY DEF Serve
<1>2. /\ DOMAIN turn = Turn /\ rank \in Seq(Model) /\ ticks \in Nat /\ Tables /\ Warmth
      /\ \A u \in Turn : TurnOk(u, turn[u])
  BY InvariantParts
<1>3. PICK r : r = turn[t] OBVIOUS
<1>4. r.at \in Replica /\ r.pol.cat \subseteq Model /\ r.served = None
  BY <1>1, <1>2, <1>3 DEF TurnOk
<1>5. PICK m \in r.pol.cat, cached \in BOOLEAN :
        /\ warm' = [warm EXCEPT ![r.at] = Warmed(r.at, t, m, cached)]
        /\ turn' = [turn EXCEPT ![t] =
             [Fresh EXCEPT !.pc = "done", !.at = r.at, !.served = m,
                           !.warmed = cached, !.when = ticks]]
  BY <1>3 DEF Serve
<1>6. PICK n : n = [Fresh EXCEPT !.pc = "done", !.at = r.at, !.served = m,
                                 !.warmed = cached, !.when = ticks]
  OBVIOUS
<1>7. /\ DOMAIN n = Fields /\ n.pc = "done" /\ n.at = r.at /\ n.served = m
      /\ n.warmed = cached /\ n.when = ticks
  BY <1>6 DEF Fields, Fresh
<1>8. m # None BY <1>4, SmartAssumption
<1>9. turn'[t] = n /\ DOMAIN turn' = Turn /\ \A u \in Turn \ {t} : turn'[u] = turn[u]
  BY <1>2, <1>5, <1>6
<1>10. PICK own : /\ Warmed(r.at, t, m, cached) =
                       {w \in warm[r.at] : w.conv # ConvOf(t)} \cup {own}
                  /\ DOMAIN own = {"conv", "turns", "cached", "age", "model"}
                  /\ own.conv = ConvOf(t) /\ own.cached = cached /\ own.age = 0
                  /\ own.model = m
  <2> DEFINE k == {w.turns : w \in WarmRow(r.at, ConvOf(t))}
             x == [conv |-> ConvOf(t),
                   turns |-> IF 2 \in k \/ 3 \in k THEN 3 ELSE 1 + Cardinality(k),
                   cached |-> cached, age |-> 0, model |-> m]
  <2>1. Warmed(r.at, t, m, cached) = {w \in warm[r.at] : w.conv # ConvOf(t)} \cup {x}
    BY DEF Warmed
  <2>2. /\ DOMAIN x = {"conv", "turns", "cached", "age", "model"}
        /\ x.conv = ConvOf(t) /\ x.cached = cached /\ x.age = 0 /\ x.model = m
    OBVIOUS
  <2> HIDE DEF x
  <2> QED BY <2>1, <2>2
<1>11. WarmOk(own, r.at)'
  <2>1. Left(t, own, r.at)' BY <1>1, <1>2, <1>7, <1>8, <1>9, <1>10 DEF Left
  <2> QED BY <1>10, <2>1 DEF WarmOk
<1>12. ASSUME NEW p \in Replica, NEW w \in warm[p] PROVE WarmOk(w, p)'
  <2>1. WarmOk(w, p) BY <1>2 DEF Warmth
  <2>2. PICK s \in Turn : Left(s, w, p) BY <2>1 DEF WarmOk
  <2>3. s # t BY <1>3, <1>4, <2>2 DEF Left
  <2>4. Left(s, w, p)' BY <1>1, <1>9, <2>2, <2>3 DEF Left
  <2> QED BY <2>1, <2>4 DEF WarmOk
<1>13. ASSUME NEW p \in Replica, NEW w \in warm'[p] PROVE WarmOk(w, p)'
  <2>1. (p = r.at /\ w = own) \/ w \in warm[p] BY <1>2, <1>5, <1>10 DEF Warmth
  <2> QED BY <1>11, <1>12, <2>1
<1>14. ASSUME NEW s \in Turn PROVE Remembered(s)'
  <2>1. own \in warm'[r.at] BY <1>2, <1>4, <1>5, <1>10 DEF Warmth
  <2>2. CASE s = t BY <1>4, <1>7, <1>9, <1>10, <2>1, <2>2 DEF Remembered
  <2>3. CASE s # t /\ turn[s].served # None
    <3>1. turn'[s] = turn[s] /\ Remembered(s) BY <1>2, <1>9, <2>3 DEF Warmth
    <3>2. PICK w \in warm[turn[s].at] : w.conv = ConvOf(s) BY <2>3, <3>1 DEF Remembered
    <3>3. turn[s].at \in Replica BY <2>3, <3>1 DEF Remembered
    <3>4. CASE turn[s].at = r.at /\ ConvOf(s) = ConvOf(t)
      BY <1>4, <1>10, <2>1, <3>1, <3>4 DEF Remembered
    <3>5. CASE ~(turn[s].at = r.at /\ ConvOf(s) = ConvOf(t))
      <4>1. w \in warm'[turn[s].at] BY <1>2, <1>5, <1>10, <3>2, <3>3, <3>5 DEF Warmth
      <4> QED BY <3>1, <3>2, <3>3, <4>1 DEF Remembered
    <3> QED BY <3>4, <3>5
  <2>4. CASE s # t /\ turn[s].served = None BY <1>9, <2>4 DEF Remembered
  <2> QED BY <2>2, <2>3, <2>4
<1>15. DOMAIN warm' = Replica BY <1>2, <1>5 DEF Warmth
<1>16. Tables' BY <1>1, <1>2, TablesStay
<1>17. ASSUME NEW u \in Turn PROVE TurnOk(u, turn[u])'
  <2>1. CASE u = t BY <1>7, <1>9, <2>1 DEF TurnOk
  <2>2. CASE u # t
    <3>1. PICK x : x = turn[u] OBVIOUS
    <3>2. TurnOk(u, x)' BY <1>1, <1>2, <3>1, TurnStays
    <3> QED BY <1>9, <2>2, <3>1, <3>2 DEF TurnOk, LabelOk, BindingOk, ToolingOk
  <2> QED BY <2>1, <2>2
<1>18. rank' \in Seq(Model) /\ ticks' \in Nat BY <1>1, <1>2
<1> QED BY <1>9, <1>13, <1>14, <1>15, <1>16, <1>17, <1>18 DEF IInv, Tables

-----------------------------------------------------------------------------
\* The environment, and the theorems.

\* A step that leaves turns and tables alone.
LEMMA Elsewhere ==
  ASSUME IInv, UNCHANGED <<turn, memo, l2, warm, ticks, said>>, rank' \in Seq(Model)
  PROVE  IInv'
<1>1. \A t \in Turn : TurnOk(t, turn[t])'
  BY DEF IInv, TurnOk, LabelOk, BindingOk, ToolingOk
<1>2. Tables' BY InvariantParts, TablesStay
<1>3. Warmth' BY InvariantParts DEF Warmth, WarmOk, Left, Remembered
<1> QED BY <1>1, <1>2, <1>3 DEF IInv, Tables, Warmth

LEMMA SetRowKeeps ==
  ASSUME IInv, NEW s, NEW row, SetRow(s, row)
  PROVE  IInv'
<1>1. rank \in Seq(Model) BY DEF IInv
<1> QED BY <1>1, Elsewhere DEF SetRow

LEMMA RefreshKeeps ==
  ASSUME IInv, RefreshBenchmarks
  PROVE  IInv'
<1>1. rank' \in Seq(Model) BY SmartAssumption DEF RefreshBenchmarks
<1> QED BY <1>1, Elsewhere DEF RefreshBenchmarks

\* An aged row is the same pair under the same key.
LEMMA AgedOk ==
  ASSUME NEW rows, \A x \in rows : RowOk(x)
  PROVE  \A x \in Aged(rows) : RowOk(x)
<1> SUFFICES ASSUME NEW y \in rows PROVE RowOk([y EXCEPT !.left = @ - 1])
  BY DEF Aged
<1>1. RowOk(y) OBVIOUS
<1> QED BY <1>1 DEF RowOk

LEMMA TickKeeps ==
  ASSUME IInv, Tick
  PROVE  IInv'
<1>1. UNCHANGED <<turn, rank, said>> /\ ticks' = ticks + 1 BY DEF Tick
<1>2. /\ DOMAIN turn = Turn /\ rank \in Seq(Model) /\ ticks \in Nat /\ Tables /\ Warmth
      /\ \A u \in Turn : TurnOk(u, turn[u])
  BY InvariantParts
<1>3. \A u \in Turn : TurnOk(u, turn[u])'
  BY <1>1, <1>2 DEF TurnOk, LabelOk, BindingOk, ToolingOk
<1>4. Tables'
  <2>1. ASSUME NEW x \in l2' PROVE RowOk(x)'
    <3>1. RowOk(x) BY <1>2, AgedOk DEF Tick, Tables
    <3> QED BY <1>1, <3>1, RowStays
  <2>2. ASSUME NEW p \in Replica, NEW x \in memo'[p] PROVE RowOk(x)'
    <3>1. x \in Aged(memo[p]) BY DEF Tick
    <3>2. RowOk(x) BY <1>2, <3>1, AgedOk DEF Tables
    <3> QED BY <1>1, <3>2, RowStays
  <2>3. DOMAIN memo' = Replica BY DEF Tick
  <2> QED BY <2>1, <2>2, <2>3 DEF Tables
<1> DEFINE Older(w) == [w EXCEPT !.age = IF @ < Window THEN @ + 1 ELSE @]
<1>5. \A p \in Replica : warm'[p] = {Older(w) : w \in warm[p]} BY DEF Tick
<1>6. ASSUME NEW p \in Replica, NEW w \in warm[p] PROVE WarmOk(Older(w), p)'
  <2>1. WarmOk(w, p) BY <1>2 DEF Warmth
  <2>2. PICK s \in Turn : Left(s, w, p) BY <2>1 DEF WarmOk
  <2>3. PICK o : o = Older(w) OBVIOUS
  <2>4. /\ DOMAIN o = DOMAIN w /\ o.conv = w.conv /\ o.cached = w.cached
        /\ o.model = w.model /\ o.age = IF w.age < Window THEN w.age + 1 ELSE w.age
    BY <2>1, <2>3 DEF WarmOk
  <2>5. o.age \in Nat /\ o.age <= w.age + 1
    <3>1. w.age \in Nat /\ Window \in Nat BY <2>2, SmartAssumption DEF Left
    <3> QED BY <2>4, <3>1
  <2>6. turn[s].when + o.age <= ticks + 1 BY <1>2, <2>2, <2>5 DEF Left
  <2>7. Left(s, o, p)' BY <1>1, <2>2, <2>4, <2>5, <2>6 DEF Left
  <2>8. WarmOk(o, p)' BY <2>1, <2>4, <2>7 DEF WarmOk
  <2> QED BY <2>3, <2>8
<1>7. ASSUME NEW s \in Turn PROVE Remembered(s)'
  <2> SUFFICES ASSUME turn[s].served # None
               PROVE  /\ turn[s].at \in Replica
                      /\ \E w \in warm'[turn[s].at] : w.conv = ConvOf(s)
    BY <1>1 DEF Remembered
  <2>1. Remembered(s) BY <1>2 DEF Warmth
  <2>2. turn[s].at \in Replica BY <2>1 DEF Remembered
  <2>3. PICK w \in warm[turn[s].at] : w.conv = ConvOf(s) BY <2>1 DEF Remembered
  <2>4. Older(w) \in warm'[turn[s].at] BY <1>5, <2>2
  <2>5. WarmOk(w, turn[s].at) BY <1>2, <2>2 DEF Warmth
  <2>6. Older(w).conv = w.conv BY <2>5 DEF WarmOk
  <2> QED BY <2>2, <2>3, <2>4, <2>6
<1>8. Warmth'
  <2>1. DOMAIN warm' = Replica BY DEF Tick
  <2>2. ASSUME NEW p \in Replica, NEW o \in warm'[p] PROVE WarmOk(o, p)'
    <3>1. PICK w \in warm[p] : o = Older(w) BY <1>5
    <3> HIDE DEF Older
    <3> QED BY <1>6, <3>1
  <2> QED BY <1>7, <2>1, <2>2 DEF Warmth
<1>9. DOMAIN turn' = Turn /\ rank' \in Seq(Model) /\ ticks' \in Nat BY <1>1, <1>2
<1> QED BY <1>3, <1>4, <1>8, <1>9 DEF IInv, Tables, Warmth

LEMMA InitIInv == Init => IInv
<1> SUFFICES ASSUME Init PROVE IInv OBVIOUS
<1>1. /\ DOMAIN turn = Turn /\ DOMAIN memo = Replica /\ DOMAIN warm = Replica
      /\ rank \in Seq(Model) /\ ticks \in Nat
  BY SmartAssumption DEF Init
<1>2. \A t \in Turn : TurnOk(t, turn[t]) /\ turn[t].served = None
  BY DEF Init, TurnOk, Fields, Fresh
<1>3. l2 = {} /\ \A p \in Replica : memo[p] = {} /\ warm[p] = {} BY DEF Init
<1> QED BY <1>1, <1>2, <1>3 DEF IInv, Remembered

LEMMA NextKeeps == IInv /\ [Next]_vars => IInv'
<1> SUFFICES ASSUME IInv, [Next]_vars PROVE IInv' OBVIOUS
<1>1. ASSUME NEW t \in Turn, NEW p \in SitesOf[t], NEW s \in ScopesOf[t], NEW ask \in AsksOf[t],
             \/ Arrive(t, p, s, ask) \/ ArriveExplicit(t, p, s, ask)
             \/ PolicyError(t, p, s, ask)
      PROVE  IInv'
  BY <1>1, ArriveKeeps, PolicyErrorKeeps
<1>2. ASSUME NEW t \in Turn, L2Hit(t) PROVE IInv' BY <1>2, L2HitKeeps
<1>3. ASSUME NEW t \in Turn, L2Miss(t) PROVE IInv' BY <1>3, L2MissKeeps
<1>4. ASSUME NEW t \in Turn, Classified(t) PROVE IInv' BY <1>4, ClassifiedKeeps
<1>5. ASSUME NEW t \in Turn, ClassifyFails(t) PROVE IInv' BY <1>5, ClassifyFailsKeeps
<1>6. ASSUME NEW t \in Turn, Share(t) PROVE IInv' BY <1>6, ShareKeeps
<1>7. ASSUME NEW t \in Turn, Serve(t) PROVE IInv' BY <1>7, ServeKeeps
<1>8. ASSUME NEW t \in Turn, ServeFails(t) PROVE IInv' BY <1>8, ServeFailsKeeps
<1>9. ASSUME NEW s \in Scope, NEW row \in Bodies[s],
             SetOrgPolicy(s, row) \/ SetTeamPolicy(s, row)
      PROVE  IInv'
  BY <1>9, SetRowKeeps DEF SetOrgPolicy, SetTeamPolicy
<1>10. CASE RefreshBenchmarks BY <1>10, RefreshKeeps
<1>11. CASE Tick BY <1>11, TickKeeps
<1>12. CASE UNCHANGED vars
  <2>1. rank \in Seq(Model) BY DEF IInv
  <2> QED BY <1>12, <2>1, Elsewhere DEF vars
<1> QED BY <1>1, <1>2, <1>3, <1>4, <1>5, <1>6, <1>7, <1>8, <1>9, <1>10, <1>11, <1>12 DEF Next

\* The invariant holds of every behaviour.
THEOREM SmartInvariant == Spec => []IInv
<1> QED BY InitIInv, NextKeeps, PTL DEF Spec

\* _cache_key, _l2_put: in every behaviour, a label and its data label are a pair the
\* classifier gave to this conversation, in the turn's own vocabulary, whichever
\* replica, team or org remembered it.
THEOREM LabelsAlwaysTogether == Spec => []LabelsTravelTogether
<1>1. IInv => LabelsTravelTogether
  <2> SUFFICES ASSUME IInv PROVE LabelsTravelTogether OBVIOUS
  <2>1. ASSUME NEW t \in Turn, Labelled(t)
        PROVE  /\ <<ConvOf(t), turn[t].label, turn[t].data>> \in said
               /\ turn[t].label \in Vocab(turn[t].pol)
    BY <2>1 DEF IInv, TurnOk, LabelOk, Labelled, Routed
  <2>2. ASSUME NEW x \in l2 \cup UNION {memo[p] : p \in Replica}
        PROVE  <<x.key[1], x.label, x.data>> \in said
    BY DEF IInv, RowOk
  <2> QED BY <2>1, <2>2 DEF LabelsTravelTogether
<1> QED BY <1>1, SmartInvariant, PTL

\* smart_route: in every behaviour an operator's binding that suits the turn decides
\* it, whatever is warm and whatever the benchmarks say.
THEOREM BindingsAlwaysBeatWarmth == Spec => []BindingsBeatWarmth
<1>1. IInv => BindingsBeatWarmth
  BY DEF IInv, TurnOk, BindingOk, BindingsBeatWarmth, Labelled, Routed
<1> QED BY <1>1, SmartInvariant, PTL

\* _tools_ok: in every behaviour a turn with tools reaches a model that speaks them if
\* the caller's catalog has one.
THEOREM ToolsAlwaysReachTools == Spec => []ToolsReachTools
<1>1. IInv => ToolsReachTools
  BY DEF IInv, TurnOk, ToolingOk, ToolsReachTools, Routed
<1> QED BY <1>1, SmartInvariant, PTL

-----------------------------------------------------------------------------
\* Warmth.

\* The premises of WarmConversationStays.
Stays(t, m) ==
  LET n == turn'[t] IN
    /\ ~Routed(t) /\ n.pc = "routed" /\ n.label # None /\ n.ask # "explicit"
    /\ BoundTo(n.pol, n.label) = None
    /\ Earlier(t) # {}
    /\ \A s \in Earlier(t) :
         turn[s].served = m /\ turn[s].warmed /\ ticks < turn[s].when + Window
    /\ ToolsOk(n.pol, n.ask = "tools", m) /\ Permits(n.pol, m)

\* All that a conversation is warm on is the model m.
LEMMA AllWarm ==
  ASSUME IInv, NEW t \in Turn, turn[t].served = None, NEW m \in Model, Stays(t, m),
         turn'[t].at \in Replica, NEW w \in WarmRow(turn'[t].at, ConvOf(t))
  PROVE  w.model = m /\ w.cached /\ ~Cold(w)
<1>1. PICK p : p = turn'[t].at OBVIOUS
<1>2. p \in Replica /\ w \in warm[p] /\ w.conv = ConvOf(t) BY <1>1 DEF WarmRow
<1>3. WarmOk(w, p) BY <1>2 DEF IInv
<1>4. PICK s \in Turn : Left(s, w, p) BY <1>3 DEF WarmOk
<1>5. s # t BY <1>4 DEF Left
<1>6. s \in Earlier(t) BY <1>1, <1>2, <1>4, <1>5 DEF Earlier, Left
<1>7. turn[s].served = m /\ turn[s].warmed /\ ticks < turn[s].when + Window
  BY <1>6 DEF Stays
<1>8. w.age < Window
  <2>1. ticks \in Nat /\ Window \in Nat BY SmartAssumption DEF IInv
  <2> QED BY <1>4, <1>7, <2>1 DEF Left
<1>9. ~(w.age >= Window)
  <2>1. w.age \in Nat /\ Window \in Nat BY <1>4, SmartAssumption DEF Left
  <2> QED BY <1>8, <2>1
<1> QED BY <1>4, <1>7, <1>9 DEF Left, Cold

\* A turn that is resolved while its conversation is warm stays.
LEMMA ResolvedStays ==
  ASSUME IInv, NEW t \in Turn, turn[t].served = None, NEW m \in Model, Stays(t, m),
         NEW r, NEW l, NEW d, DOMAIN r = Fields, r.at \in Replica,
         turn'[t] = Resolved(r, t, l, d)
  PROVE  turn'[t].model = m
<1>1. PICK tools \in BOOLEAN : tools = (r.ask = "tools") OBVIOUS
<1>2. PICK n : n = turn'[t] OBVIOUS
<1> DEFINE lad == Ladder(r.pol, tools, l)
           held == Held(lad, r.at, ConvOf(t), r.pol, tools)
           rows == {x \in WarmRow(r.at, ConvOf(t)) : Holds(x, r.pol, tools)}
           inc == {w.model : w \in rows}
<1>3. n.label = l /\ n.at = r.at /\ n.pol = r.pol /\ n.ask = r.ask
  BY <1>2 DEF Resolved, Fields, Fresh
<1>4. /\ l # None /\ r.ask # "explicit" /\ BoundTo(r.pol, l) = None
      /\ ToolsOk(r.pol, tools, m) /\ Permits(r.pol, m) /\ Earlier(t) # {}
  BY <1>1, <1>2, <1>3 DEF Stays
<1>5. n.model = held BY <1>1, <1>2, <1>4 DEF Resolved, Fields, Fresh
<1>6. \A w \in WarmRow(r.at, ConvOf(t)) : w.model = m /\ w.cached /\ ~Cold(w)
  BY <1>2, <1>3, AllWarm
<1>7. WarmRow(r.at, ConvOf(t)) # {}
  <2>1. PICK s \in Earlier(t) : TRUE BY <1>4
  <2>2. s \in Turn /\ turn[s].served # None /\ ConvOf(s) = ConvOf(t) /\ turn[s].at = r.at
    BY <1>2, <1>3, <2>1 DEF Earlier
  <2>3. Remembered(s) BY <2>2 DEF IInv
  <2> QED BY <2>2, <2>3 DEF Remembered, WarmRow
<1>8. m # None BY SmartAssumption
<1>9. \A w \in WarmRow(r.at, ConvOf(t)) : Holds(w, r.pol, tools)
  BY <1>4, <1>6, <1>8 DEF Holds
<1>10. inc = {m}
  <2>1. rows # {} /\ \A w \in rows : w.model = m BY <1>6, <1>7, <1>9
  <2> HIDE DEF rows
  <2> QED BY <2>1
<1>11. lad.bound = FALSE BY <1>4, LadderUnbound
<1>12. held = IF lad.bound \/ inc = {} THEN lad.model ELSE CHOOSE x \in inc : TRUE
  BY DEF Held
<1> HIDE DEF lad, inc, held
<1>13. held = m BY <1>10, <1>11, <1>12
<1> QED BY <1>2, <1>5, <1>13

\* How a turn gets a label and a model.
LEMMA LookupRoutes ==
  ASSUME DOMAIN turn = Turn, NEW t \in Turn, NEW r, DOMAIN r = Fields, Lookup(t, r),
         turn'[t].pc = "routed"
  PROVE  \E x \in Hits(r.at, r.key) : turn'[t] = Resolved(r, t, x.label, x.data)
<1>1. CASE Hits(r.at, r.key) = {}
  <2>1. turn'[t] = [r EXCEPT !.pc = "l2"] BY <1>1 DEF Lookup
  <2> QED BY <2>1 DEF Fields, Fresh
<1>2. CASE Hits(r.at, r.key) # {}
  <2>1. PICK x \in Hits(r.at, r.key) : turn' = [turn EXCEPT ![t] = Resolved(r, t, x.label, x.data)]
    BY <1>2 DEF Lookup
  <2>2. turn'[t] = Resolved(r, t, x.label, x.data) BY <2>1
  <2> QED BY <2>2
<1> QED BY <1>1, <1>2

\* A step of another turn leaves t alone, and t is routed by one of its own.
LEMMA StepStays ==
  ASSUME IInv, NEW t \in Turn, NEW m \in Model, Stays(t, m), NEW u \in Turn,
         \/ L2Hit(u) \/ L2Miss(u) \/ Classified(u) \/ ClassifyFails(u)
         \/ Share(u) \/ Serve(u) \/ ServeFails(u)
         \/ \E p \in SitesOf[u], s \in ScopesOf[u], ask \in AsksOf[u] :
              \/ Arrive(u, p, s, ask) \/ ArriveExplicit(u, p, s, ask)
              \/ PolicyError(u, p, s, ask)
  PROVE  turn'[t].model = m
<1>1. /\ DOMAIN turn = Turn /\ TurnOk(t, turn[t]) /\ turn[t].pc # "routed"
      /\ turn'[t].pc = "routed" /\ turn'[t].label # None /\ turn'[t].ask # "explicit"
  BY DEF IInv, Stays, Routed
<1>2. turn'[t] # turn[t] BY <1>1
<1>3. u = t
  <2>1. \A v \in Turn \ {u} : turn'[v] = turn[v]
    <3>1. CASE L2Hit(u) \/ L2Miss(u) BY <1>1, <3>1 DEF L2Hit, L2Miss
    <3>2. CASE Classified(u) \/ ClassifyFails(u)
      BY <1>1, <3>2 DEF Classified, ClassifyFails
    <3>3. CASE Share(u) \/ Serve(u) \/ ServeFails(u)
      BY <1>1, <3>3 DEF Share, Serve, ServeFails
    <3>4. ASSUME NEW p \in SitesOf[u], NEW s \in ScopesOf[u], NEW ask \in AsksOf[u],
                 Arrive(u, p, s, ask) \/ ArriveExplicit(u, p, s, ask)
          PROVE  \A v \in Turn \ {u} : turn'[v] = turn[v]
      BY <1>1, <3>4 DEF Arrive, ArriveExplicit, Lookup
    <3>5. ASSUME NEW p \in SitesOf[u], NEW s \in ScopesOf[u], NEW ask \in AsksOf[u],
                 PolicyError(u, p, s, ask)
          PROVE  \A v \in Turn \ {u} : turn'[v] = turn[v]
      BY <1>1, <3>5 DEF PolicyError
    <3> QED BY <3>1, <3>2, <3>3, <3>4, <3>5
  <2> QED BY <1>1, <1>2, <2>1
<1>4. turn[t].pc # "done" => turn[t].served = None BY <1>1 DEF TurnOk
<1>5. DOMAIN turn[t] = Fields BY <1>1 DEF TurnOk
<1>6. CASE L2Hit(t)
  <2>1. PICK x \in l2 : turn' = [turn EXCEPT ![t] = Resolved(@, t, x.label, x.data)]
    BY <1>6 DEF L2Hit
  <2>2. turn'[t] = Resolved(turn[t], t, x.label, x.data) BY <1>1, <2>1
  <2>3. turn[t].at \in Replica /\ turn[t].served = None BY <1>6, Underway DEF L2Hit
  <2> QED BY <1>5, <2>2, <2>3, ResolvedStays
<1>7. CASE Share(t)
  <2>1. turn' = [turn EXCEPT ![t] = Resolved(@, t, turn[t].label, turn[t].data)]
    BY <1>7 DEF Share
  <2>2. turn'[t] = Resolved(turn[t], t, turn[t].label, turn[t].data) BY <1>1, <2>1
  <2>3. turn[t].at \in Replica /\ turn[t].served = None BY <1>7, Underway DEF Share
  <2> QED BY <1>5, <2>2, <2>3, ResolvedStays
<1>8. CASE ClassifyFails(t)
  <2>1. PICK d : turn'[t] = Resolved(turn[t], t, None, d) BY <1>1, <1>8 DEF ClassifyFails
  <2>2. turn'[t].label = None BY <1>5, <2>1 DEF Resolved, Fields, Fresh
  <2> QED BY <1>1, <2>2
<1>9. CASE L2Miss(t)
  <2>1. turn'[t].pc = "classify" BY <1>1, <1>5, <1>9 DEF L2Miss, Fields, Fresh
  <2> QED BY <1>1, <2>1
<1>10. CASE Classified(t)
  <2>1. PICK l, d, h :
          turn' = [turn EXCEPT ![t].pc = "share", ![t].label = l, ![t].data = d, ![t].hold = h]
    <3>1. PICK l \in ParsedLabels(turn[t].pol), d \in ParsedData(turn[t].pol) :
            turn' = [turn EXCEPT ![t].pc = "share", ![t].label = l, ![t].data = d,
                                 ![t].hold = Hold(t, turn[t].at, l)]
      BY <1>10 DEF Classified
    <3> QED BY <3>1
  <2>2. turn'[t] = [turn[t] EXCEPT !.pc = "share", !.label = l, !.data = d, !.hold = h]
    BY <1>1, <2>1
  <2>3. turn'[t].pc = "share" BY <1>5, <2>2 DEF Fields, Fresh
  <2> QED BY <1>1, <2>3
<1>11. CASE Serve(t) \/ ServeFails(t)
  BY <1>1, <1>11 DEF Serve, ServeFails
<1>12. ASSUME NEW p \in SitesOf[t], NEW s \in ScopesOf[t], NEW ask,
              Arrive(t, p, s, ask) \/ ArriveExplicit(t, p, s, ask)
       PROVE  turn'[t].model = m
  <2>1. turn[t].pc = "new" BY <1>12 DEF Arrive, ArriveExplicit
  <2>2. PICK r \in Arrivals(t, p, s, ask) :
          \/ Lookup(t, r)
          \/ ask = "explicit" /\ turn' = [turn EXCEPT ![t] = [r EXCEPT !.pc = "routed"]]
    BY <1>12 DEF Arrive, ArriveExplicit
  <2>3. Arrived(t, r) /\ r.ask = ask BY <2>1, ArrivalIs
  <2>4. CASE Lookup(t, r)
    <3>1. PICK x \in Hits(r.at, r.key) : turn'[t] = Resolved(r, t, x.label, x.data)
      BY <1>1, <2>3, <2>4, LookupRoutes DEF Arrived
    <3> QED BY <1>4, <2>1, <2>3, <3>1, ResolvedStays DEF Arrived
  <2>5. CASE ask = "explicit" /\ turn' = [turn EXCEPT ![t] = [r EXCEPT !.pc = "routed"]]
    <3>1. turn'[t] = [r EXCEPT !.pc = "routed"] BY <1>1, <2>5
    <3>2. turn'[t].ask = "explicit" BY <2>3, <2>5, <3>1 DEF Arrived, Fields, Fresh
    <3> QED BY <1>1, <3>2
  <2> QED BY <2>2, <2>4, <2>5
<1>13. ASSUME NEW p \in SitesOf[t], NEW s \in ScopesOf[t], NEW ask, PolicyError(t, p, s, ask)
       PROVE  FALSE
  <2>1. turn[t].pc = "new" /\ turn[t].label = None BY <1>1, <1>13 DEF PolicyError, TurnOk
  <2>2. PICK bare, model :
          turn' = [turn EXCEPT ![t] =
              [@ EXCEPT !.pc = "routed", !.at = p, !.pol = bare, !.ask = ask, !.scope = s,
                        !.model = model]]
    <3>1. PICK adopted \in AdoptionsFor(s) :
            turn' = [turn EXCEPT ![t] =
                [@ EXCEPT !.pc = "routed", !.at = p, !.pol = Effective(NoRow, adopted, {}),
                          !.ask = ask, !.scope = s,
                          !.model = Fallback(Effective(NoRow, adopted, {}), ask = "tools",
                                             None)]]
      BY <1>13 DEF PolicyError
    <3> QED BY <3>1
  <2>3. turn'[t] = [turn[t] EXCEPT !.pc = "routed", !.at = p, !.pol = bare, !.ask = ask,
                                   !.scope = s, !.model = model]
    BY <1>1, <2>2
  <2>4. turn'[t].label = turn[t].label BY <1>5, <2>3 DEF Fields, Fresh
  <2> QED BY <1>1, <2>1, <2>4
<1> QED BY <1>3, <1>6, <1>7, <1>8, <1>9, <1>10, <1>11, <1>12, <1>13

\* _warm_hold, record_warmth: in every behaviour a turn that no binding decides stays
\* with the model its conversation is warm on, whatever the benchmarks became.
THEOREM WarmAlwaysStays == Spec => WarmConversationStays
<1>1. ASSUME IInv, Next, NEW t \in Turn, NEW m \in Model, Stays(t, m)
      PROVE  turn'[t].model = m
  <2>1. turn'[t] # turn[t] BY <1>1 DEF Stays, Routed
  <2>2. \/ \E u \in Turn :
             \/ L2Hit(u) \/ L2Miss(u) \/ Classified(u) \/ ClassifyFails(u)
             \/ Share(u) \/ Serve(u) \/ ServeFails(u)
             \/ \E p \in SitesOf[u], s \in ScopesOf[u], ask \in AsksOf[u] :
                  \/ Arrive(u, p, s, ask) \/ ArriveExplicit(u, p, s, ask)
                  \/ PolicyError(u, p, s, ask)
        \/ UNCHANGED turn
    BY <1>1 DEF Next, SetOrgPolicy, SetTeamPolicy, SetRow, RefreshBenchmarks, Tick
  <2>3. CASE UNCHANGED turn BY <2>1, <2>3
  <2> QED BY <1>1, <2>2, <2>3, StepStays
<1>2. IInv /\ [Next]_vars => [\A t \in Turn, m \in Model : Stays(t, m) => turn'[t].model = m]_vars
  BY <1>1
<1> QED BY <1>2, SmartInvariant, PTL DEF Spec, WarmConversationStays, Stays
=============================================================================
