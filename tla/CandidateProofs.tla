-------------------------- MODULE CandidateProofs ---------------------------
(***************************************************************************)
(* Catalog synchronisation and paging, for any partitions, snapshots,      *)
(* coroutines and page size.                                               *)
(***************************************************************************)
EXTENDS CandidateSync, FiniteSetTheorems, TLAPS

Coroutine == [pc : {"idle", "hydrate", "load", "wait", "read", "fetch", "confirm"},
              stale : BOOLEAN, revs : [Part -> Nat], parts : SUBSET Part,
              got : [Part -> SUBSET Nat], attempt : {1, 2}]

Reader == [pc : {"first", "read", "next", "end", "gone"}, cursor : Nat,
           pins : [Part -> Nat], got : SUBSET Nat,
           query : Query \cup {NewReader.query}]

\* The types of the store, the coroutines, the catalog and the client.
TypeOK ==
  /\ committed \in [Part -> SUBSET Rank] /\ expired \in [Part -> Nat]
  /\ \A p \in Part : committed[p] \subseteq DOMAIN Offers[p]
  /\ sync \in [Syncer -> Coroutine]
  /\ holder \in Syncer \cup {None}
  /\ catalog \in [Part -> SUBSET Nat] /\ revisions \in [Part -> Nat]
  /\ syncs \in Nat
  /\ history \subseteq Identity /\ \A p \in Part : \A n \in committed[p] : Offers[p][n] \subseteq history
  /\ reader \in Reader
  /\ matched \in [always : SUBSET Identity, ever : SUBSET Identity]

\* A revision is none or that of a committed snapshot.
Known(revs) == \A p \in Part : revs[p] \in committed[p] \cup {0}

\* The lock, and what its holder read: the partitions that differ from the
\* published catalog, and their offers unless a newer snapshot is committed.
SyncInv(s) ==
  /\ sync[s].pc \in {"load", "read", "fetch", "confirm"} <=> holder = s
  /\ sync[s].pc \in {"fetch", "confirm"} =>
       /\ Known(sync[s].revs)
       /\ sync[s].parts = {p \in Part : sync[s].revs[p] # revisions[p]}
  /\ sync[s].pc = "confirm" => \A p \in sync[s].parts :
       \/ sync[s].got[p] = OffersOf(p, sync[s].revs[p])
       \/ sync[s].revs[p] # 0 /\ \E n \in committed[p] : n > sync[s].revs[p]

\* What meets the client's query in the present state.
Now == Matches(reader.query, reader.pins, history, alias)

\* What a query that the revision answers is answered by.
Exact == Listing(reader.pins) \cap Named(reader.query, alias)

\* What met the query throughout is on the pages up to the cursor, what is on
\* them met it once; for a query the revision answers the two are the same.
ReaderInv ==
  /\ reader.pc = "first" => reader.cursor = 0 /\ reader.got = {}
  /\ reader.pc \in {"read", "next", "end"} =>
       /\ Known(reader.pins) /\ reader.query \in Query
       /\ reader.got \subseteq matched.ever
       /\ Pinned(reader.query) => matched.always = Exact /\ matched.ever = Exact
  /\ Paging => /\ matched.always \subseteq Now /\ Now \subseteq matched.ever
               /\ \A m \in matched.always : m <= reader.cursor => m \in reader.got
  /\ reader.pc = "end" => matched.always \subseteq reader.got

\* The inductive invariant.
IInv ==
  /\ TypeOK /\ CatalogNotTorn /\ ReaderInv
  /\ \A s \in Syncer : SyncInv(s)

-----------------------------------------------------------------------------
\* A finite set of numbers has a greatest element, and Max returns it.
LEMMA MaxOfFinite ==
  ASSUME NEW S \in SUBSET Nat, IsFiniteSet(S), S # {}
  PROVE  Max(S) \in S /\ \A x \in S : x <= Max(S)
<1> DEFINE From(m) == {x \in S : x >= m}
           T == {From(m) : m \in S}
<1>1. T \subseteq FiniteSubsetsOf(S) /\ T # {}
  <2>1. T \subseteq SUBSET S /\ T # {} OBVIOUS
  <2> HIDE DEF T
  <2> QED BY <2>1, FS_FiniteSubsetsOfFinite
<1>2. PICK X \in T : \A Y \in T : ~(<<Y, X>> \in StrictSubsetOrdering(S))
  <2>1. IsWellFoundedOn(StrictSubsetOrdering(S), FiniteSubsetsOf(S))
    BY FS_StrictSubsetOrderingWellFounded
  <2> HIDE DEF T
  <2> QED BY <1>1, <2>1, WFMin
<1>3. PICK m \in S : X = From(m) BY <1>2
<1>4. ASSUME NEW x \in S PROVE m >= x
  <2> SUFFICES ASSUME ~(m >= x) PROVE FALSE OBVIOUS
  <2>1. m < x /\ m \in Nat /\ x \in Nat OBVIOUS
  <2>2. From(x) \subseteq X /\ m \in X /\ m \notin From(x)
    <3> HIDE DEF T
    <3>1. \A y \in S : y \in Nat OBVIOUS
    <3>2. m \in From(m) /\ m \notin From(x) BY <2>1
    <3>3. \A y \in From(x) : y \in From(m) BY <2>1, <3>1
    <3> QED BY <1>3, <3>2, <3>3
  <2>3. From(x) \in T OBVIOUS
  <2>5. From(x) \in SUBSET S /\ X \in SUBSET S BY <1>3
  <2>4. <<From(x), X>> \in StrictSubsetOrdering(S)
    <3> HIDE DEF From
    <3> QED BY <2>2, <2>5 DEF StrictSubsetOrdering
  <2> QED BY <1>2, <2>3, <2>4
<1>5. Max(S) \in S /\ \A y \in S : Max(S) >= y BY <1>4 DEF Max
<1> QED BY <1>5

\* ORDER BY ... DESC LIMIT 1.
LEMMA NewestIs ==
  ASSUME NEW S \in SUBSET Rank
  PROVE  /\ S = {} => Newest(S) = 0
         /\ S # {} => Newest(S) \in S /\ \A n \in S : n <= Newest(S)
         /\ Newest(S) \in Nat
<1>1. S \in SUBSET Nat /\ IsFiniteSet(S) BY SyncAssumption, FS_Subset
<1> QED BY <1>1, MaxOfFinite DEF Newest

\* The latest unexpired snapshot is committed and none is newer.
LEMMA LatestIs ==
  ASSUME TypeOK, NEW p \in Part
  PROVE  /\ Latest(p) \in committed[p] \cup {0} /\ Latest(p) \in Nat
         /\ Latest(p) # 0 => \A n \in committed[p] : n <= Latest(p)
<1>1. committed[p] \in SUBSET Rank /\ expired[p] \in Nat BY DEF TypeOK
<1> QED BY <1>1, NewestIs DEF Latest

\* Models are numbered.
LEMMA OffersType ==
  ASSUME TypeOK, NEW p \in Part, NEW n \in committed[p] \cup {0}
  PROVE  OffersOf(p, n) \subseteq Nat
<1>1. n # 0 => n \in DOMAIN Offers[p] BY DEF TypeOK
<1>2. n # 0 => Offers[p][n] \subseteq Nat BY <1>1, SyncAssumption
<1> QED BY <1>2 DEF OffersOf

\* A coroutine that is not at a statement under the lock, before and after the
\* step of the one that may hold it.
LEMMA Others ==
  ASSUME IInv, NEW s \in Syncer, NEW t \in Syncer \ {s}, sync'[t].pc = sync[t].pc,
         holder \in {s, None}, holder' \in {s, None}
  PROVE  SyncInv(t)'
<1>1. holder # t /\ holder' # t BY SyncAssumption DEF None
<1>2. sync[t].pc \notin {"load", "read", "fetch", "confirm"} BY <1>1 DEF IInv, SyncInv
<1> QED BY <1>1, <1>2 DEF SyncInv

\* The coroutine of a step that takes or releases the lock.
LEMMA SetType ==
  ASSUME TypeOK, NEW s \in Syncer, NEW r \in Coroutine, Set(s, r)
  PROVE  /\ sync' \in [Syncer -> Coroutine] /\ sync'[s] = r
         /\ \A t \in Syncer \ {s} : sync'[t] = sync[t]
BY DEF TypeOK, Set

\* A new generation marks the others and changes nothing else of them.
LEMMA BeginType ==
  ASSUME TypeOK, NEW s \in Syncer, NEW r \in Coroutine, Begin(s, r)
  PROVE  /\ sync' \in [Syncer -> Coroutine] /\ sync'[s] = r
         /\ \A t \in Syncer \ {s} :
              /\ sync'[t].pc = sync[t].pc /\ sync'[t].revs = sync[t].revs
              /\ sync'[t].parts = sync[t].parts /\ sync'[t].got = sync[t].got
<1>1. ASSUME NEW t \in Syncer \ {s}
      PROVE  /\ sync'[t] \in Coroutine /\ sync'[t].pc = sync[t].pc
             /\ sync'[t].revs = sync[t].revs
             /\ sync'[t].parts = sync[t].parts /\ sync'[t].got = sync[t].got
  <2>1. sync[t] \in Coroutine BY DEF TypeOK
  <2>2. sync'[t] = [sync[t] EXCEPT !.stale = (sync[t].pc # "idle")] BY DEF Begin
  <2> DEFINE b == (sync[t].pc # "idle")
  <2>3. b \in BOOLEAN OBVIOUS
  <2> HIDE DEF b
  <2> QED BY <2>1, <2>2, <2>3 DEF Coroutine
<1>2. sync'[s] = r BY DEF Begin
<1>3. sync' \in [Syncer -> Coroutine] BY <1>1, <1>2 DEF Begin
<1> QED BY <1>1, <1>2, <1>3

\* The resting coroutine.
LEMMA IdleType ==
  /\ Idle \in Coroutine /\ Idle.pc = "idle" /\ Nothing \in [Part -> Nat]
  /\ [Idle EXCEPT !.pc = "wait"] \in Coroutine /\ [Idle EXCEPT !.pc = "wait"].pc = "wait"
<1>1. Nothing \in [Part -> Nat] BY DEF Nothing
<1> QED BY <1>1 DEF Idle, Coroutine

\* A step that leaves the store alone, and the client.
LEMMA ReaderFrame ==
  ASSUME ReaderInv, UNCHANGED <<store, client>>
  PROVE  ReaderInv'
<1>1. Now' = Now /\ Exact' = Exact /\ Paging' = Paging
  BY DEF store, client, Now, Exact, Paging, Listing, Matches, Named
<1>2. Known(reader.pins)' = Known(reader.pins) BY DEF store, client, Known
<1> QED BY <1>1, <1>2 DEF ReaderInv, client, Pinned

\* The lock is given back.
LEMMA StepReturn ==
  ASSUME IInv, NEW s \in Syncer, holder = s, Return(s), CatalogNotTorn',
         catalog' \in [Part -> SUBSET Nat], revisions' \in [Part -> Nat],
         syncs' \in Nat, UNCHANGED <<store, client>>
  PROVE  IInv'
<1>a. TypeOK /\ ReaderInv BY DEF IInv
<1>1. /\ sync' \in [Syncer -> Coroutine] /\ sync'[s] = Idle /\ holder' = None
      /\ \A t \in Syncer \ {s} : sync'[t] = sync[t]
  BY <1>a, IdleType, SetType DEF Return
<1>2. TypeOK' BY <1>a, <1>1 DEF TypeOK, store, client
<1>3. SyncInv(s)' BY <1>1, IdleType, SyncAssumption DEF SyncInv, None
<1>4. \A t \in Syncer \ {s} : SyncInv(t)' BY <1>1, Others
<1> QED BY <1>a, <1>2, <1>3, <1>4, ReaderFrame DEF IInv

\* The offers of the latest snapshots are a catalog.
LEMMA CandidatesType ==
  ASSUME TypeOK
  PROVE  /\ AllCandidates \in [Part -> SUBSET Nat] /\ Revisions \in [Part -> Nat]
         /\ Known(Revisions)
<1>1. ASSUME NEW p \in Part PROVE OffersOf(p, Latest(p)) \subseteq Nat
  <2>1. Latest(p) \in committed[p] \cup {0} BY LatestIs
  <2> QED BY <2>1, OffersType
<1> QED BY <1>1, LatestIs DEF AllCandidates, Revisions, Known

\* What a revision lists.
LEMMA ListingType ==
  ASSUME TypeOK, NEW pins \in [Part -> Nat], Known(pins)
  PROVE  Listing(pins) \subseteq history /\ Listing(pins) \subseteq Identity
<1>1. \A p \in Part : OffersOf(p, pins[p]) \subseteq history /\ OffersOf(p, pins[p]) \subseteq Identity
  BY SyncAssumption DEF Known, OffersOf, TypeOK
<1> QED BY <1>1 DEF Listing

\* What meets a query; the revision alone answers the pinned ones.
LEMMA MatchesAre ==
  ASSUME NEW q \in Query, NEW pins, NEW rows \in SUBSET Identity, NEW names,
         Listing(pins) \subseteq rows
  PROVE  /\ Matches(q, pins, rows, names) \subseteq Identity
         /\ Pinned(q) => Matches(q, pins, rows, names) = Listing(pins) \cap Named(q, names)
<1>1. Matches(q, pins, rows, names) \subseteq Identity BY DEF Matches
<1>2. CASE q.by = "id"
  BY <1>1, <1>2 DEF Matches
<1>3. CASE q.by = "any" /\ q.avail = "available"
  <2>1. q.avail # "all" BY <1>3
  <2> QED BY <1>1, <1>3, <2>1 DEF Matches
<1> QED BY <1>1, <1>2, <1>3 DEF Pinned

\* A pinned query asks no alias.
LEMMA PinnedNames ==
  ASSUME NEW q, Pinned(q), NEW a, NEW b
  PROVE  Named(q, a) = Named(q, b)
BY DEF Pinned, Named

\* Commits and expiries: what was committed stays, the client is watched.
LEMMA StepStore ==
  ASSUME IInv, NEW p \in Part,
         Expire(p) \/ (\E n \in Rank : Commit(p, n)) \/ \E m \in Elsewhere : CommitOther(p, m)
  PROVE  IInv'
<1>a. TypeOK /\ ReaderInv /\ CatalogNotTorn BY DEF IInv
<1>b. UNCHANGED <<sync, holder, catalog, revisions, syncs, reader>>
  BY DEF Expire, Commit, CommitOther
<1>1. /\ committed' \in [Part -> SUBSET Rank] /\ expired' \in [Part -> Nat]
      /\ \A q \in Part : committed'[q] \subseteq DOMAIN Offers[q]
      /\ \A q \in Part : committed[q] \subseteq committed'[q]
      /\ history' \subseteq Identity
      /\ \A q \in Part : \A n \in committed'[q] : Offers[q][n] \subseteq history'
  <2>1. CASE Expire(p)
    <3>1. Newest(committed[p]) \in Nat BY <1>a, NewestIs DEF TypeOK
    <3> QED BY <1>a, <2>1, <3>1 DEF Expire, TypeOK
  <2>2. CASE \E n \in Rank : Commit(p, n)
    <3>1. PICK n \in Rank : Commit(p, n) BY <2>2
    <3>2. Offers[p][n] \subseteq Identity BY <3>1, SyncAssumption DEF Commit
    <3> QED BY <1>a, <3>1, <3>2 DEF Commit, TypeOK
  <2>3. CASE \E m \in Elsewhere : CommitOther(p, m)
    <3>1. PICK m \in Elsewhere : CommitOther(p, m) BY <2>3
    <3>2. m \in Identity BY SyncAssumption
    <3>3. history' \subseteq Identity /\ history \subseteq history'
      BY <1>a, <3>1, <3>2 DEF CommitOther, TypeOK
    <3> QED BY <1>a, <3>1, <3>3 DEF CommitOther, TypeOK
  <2> QED BY <2>1, <2>2, <2>3
<1> DEFINE now == Matches(reader.query, reader.pins, history', alias')
<1>2. \/ Paging /\ matched' = [always |-> matched.always \cap now, ever |-> matched.ever \cup now]
      \/ ~Paging /\ matched' = matched
      \/ UNCHANGED <<history, alias, matched>>
  BY DEF Expire, Commit, CommitOther, Watch
<1>3. Paging => /\ now \subseteq Identity
                /\ Pinned(reader.query) => now = Exact
  <2> SUFFICES ASSUME Paging
               PROVE  now \subseteq Identity /\ (Pinned(reader.query) => now = Exact)
    OBVIOUS
  <2>1. reader.query \in Query /\ Known(reader.pins) /\ reader.pins \in [Part -> Nat]
    BY <1>a DEF ReaderInv, Paging, TypeOK, Reader
  <2>2. Listing(reader.pins) \subseteq history' /\ Listing(reader.pins) \subseteq Identity
    <3>1. \A q \in Part : OffersOf(q, reader.pins[q]) \subseteq history'
      BY <1>1, <2>1 DEF Known, OffersOf
    <3> QED BY <1>a, <2>1, <3>1, ListingType DEF Listing
  <2> HIDE DEF now
  <2>3. now \subseteq Identity
        /\ (Pinned(reader.query) => now = Listing(reader.pins) \cap Named(reader.query, alias'))
    BY <1>1, <2>1, <2>2, MatchesAre DEF now
  <2> QED BY <2>3, PinnedNames DEF Exact
<1>4. matched' \in [always : SUBSET Identity, ever : SUBSET Identity]
  <2> HIDE DEF now
  <2> QED BY <1>a, <1>2, <1>3 DEF TypeOK
<1>5. TypeOK' BY <1>a, <1>b, <1>1, <1>4 DEF TypeOK
<1>6. CatalogNotTorn' BY <1>a, <1>b, <1>1 DEF CatalogNotTorn
<1>7. ReaderInv'
  <2>1. Pinned(reader.query) => Exact' = Exact
    BY <1>b, PinnedNames DEF Exact, Listing
  <2>2. Known(reader.pins) => Known(reader.pins)' BY <1>b, <1>1 DEF Known
  <2>3. Now' = now BY <1>b DEF Now, Matches, Listing, Named
  <2>4. Paging' = Paging /\ Pinned(reader.query)' = Pinned(reader.query) BY <1>b DEF Paging, Pinned
  <2> HIDE DEF now
  <2>5. CASE Paging /\ matched' = [always |-> matched.always \cap now, ever |-> matched.ever \cup now]
    <3>1. matched'.always = matched.always \cap now /\ matched'.ever = matched.ever \cup now BY <2>5
    <3>2. Pinned(reader.query) => matched'.always = Exact /\ matched'.ever = Exact
      BY <1>3, <1>a, <2>5, <3>1 DEF ReaderInv, Paging
    <3> QED BY <1>a, <1>b, <2>1, <2>2, <2>3, <2>4, <2>5, <3>1, <3>2 DEF ReaderInv, Paging
  <2>6. CASE ~Paging /\ matched' = matched
    BY <1>a, <1>b, <2>1, <2>2, <2>4, <2>6 DEF ReaderInv
  <2>7. CASE UNCHANGED <<history, alias, matched>>
    <3>1. Now' = Now BY <1>b, <2>7 DEF Now, Matches, Listing, Named
    <3> QED BY <1>a, <1>b, <2>1, <2>2, <2>4, <2>7, <3>1 DEF ReaderInv
  <2> QED BY <1>2, <2>5, <2>6, <2>7
<1>8. ASSUME NEW s \in Syncer PROVE SyncInv(s)'
  <2>1. SyncInv(s) /\ sync'[s] = sync[s] BY <1>b DEF IInv
  <2>2. sync[s].parts \subseteq Part BY <1>a DEF TypeOK, Coroutine
  <2> QED BY <1>b, <1>1, <2>1, <2>2 DEF SyncInv, Known
<1> QED BY <1>5, <1>6, <1>7, <1>8 DEF IInv

\* Taking the lock, for hydration or for a synchronisation.
LEMMA StepLock ==
  ASSUME IInv, NEW s \in Syncer, HydrateLock(s) \/ Lock(s)
  PROVE  IInv'
<1>a. TypeOK /\ ReaderInv /\ CatalogNotTorn /\ sync[s] \in Coroutine BY DEF IInv, TypeOK
<1>b. UNCHANGED <<store, view, syncs, client>> /\ holder = None /\ holder' = s
  BY DEF HydrateLock, Lock
<1>1. PICK pc \in {"load", "read"} : Set(s, [sync[s] EXCEPT !.pc = pc])
  BY DEF HydrateLock, Lock
<1> DEFINE r == [sync[s] EXCEPT !.pc = pc]
<1>2. r \in Coroutine /\ r.pc = pc BY <1>a DEF Coroutine
<1> HIDE DEF r
<1>3. /\ sync' \in [Syncer -> Coroutine] /\ sync'[s] = r
      /\ \A t \in Syncer \ {s} : sync'[t] = sync[t]
  BY <1>a, <1>1, <1>2, SetType DEF r
<1>4. TypeOK' BY <1>a, <1>b, <1>3 DEF TypeOK, store, view, client
<1>5. SyncInv(s)' BY <1>b, <1>2, <1>3 DEF SyncInv
<1>6. \A t \in Syncer \ {s} : SyncInv(t)' BY <1>b, <1>3, Others
<1>7. CatalogNotTorn' BY <1>a, <1>b DEF CatalogNotTorn, view, store
<1> QED BY <1>a, <1>b, <1>4, <1>5, <1>6, <1>7, ReaderFrame DEF IInv

\* _hydrate_candidates publishes the latest snapshots of one statement.
LEMMA StepHydratePublish ==
  ASSUME IInv, NEW s \in Syncer, HydratePublish(s)
  PROVE  IInv'
<1>a. TypeOK /\ ReaderInv /\ CatalogNotTorn BY DEF IInv
<1>b. UNCHANGED <<store, syncs, client>> /\ holder = s /\ holder' = None
  BY DEF HydratePublish, IInv, SyncInv
<1>1. /\ sync' \in [Syncer -> Coroutine] /\ sync'[s].pc = "wait"
      /\ \A t \in Syncer \ {s} : sync'[t].pc = sync[t].pc
  BY <1>a, IdleType, BeginType DEF HydratePublish
<1>2. /\ catalog' \in [Part -> SUBSET Nat] /\ revisions' \in [Part -> Nat]
      /\ CatalogNotTorn'
  <2>1. CASE UNCHANGED view BY <1>a, <1>b, <2>1 DEF CatalogNotTorn, view, store, TypeOK
  <2>2. CASE /\ catalog' = AllCandidates
             /\ revisions' = [p \in Part |-> IF AllCandidates[p] = {} THEN 0 ELSE Latest(p)]
    <3>1. \A p \in Part : Latest(p) \in committed[p] \cup {0} /\ Latest(p) \in Nat
      BY <1>a, LatestIs
    <3>2. revisions' \in [Part -> Nat] BY <2>2, <3>1
    <3>3. \A p \in Part : catalog'[p] = OffersOf(p, revisions'[p])
      BY <2>2 DEF AllCandidates, OffersOf
    <3>4. \A p \in Part : revisions'[p] \in committed'[p] \cup {0}
      BY <1>b, <2>2, <3>1 DEF store
    <3> QED BY <1>a, <2>2, <3>2, <3>3, <3>4, CandidatesType DEF CatalogNotTorn
  <2> QED BY <2>1, <2>2 DEF HydratePublish
<1>3. TypeOK' BY <1>a, <1>b, <1>1, <1>2 DEF TypeOK, store, client
<1>4. SyncInv(s)' BY <1>b, <1>1, SyncAssumption DEF SyncInv, None
<1>5. \A t \in Syncer \ {s} : SyncInv(t)' BY <1>b, <1>1, Others
<1> QED BY <1>a, <1>b, <1>2, <1>3, <1>4, <1>5, ReaderFrame DEF IInv

\* A synchronisation begins: the others only become stale.
LEMMA StepEnter ==
  ASSUME IInv, NEW s \in Syncer, Enter(s)
  PROVE  IInv'
<1>a. TypeOK /\ ReaderInv /\ CatalogNotTorn BY DEF IInv
<1>b. UNCHANGED <<store, holder, view, client>> /\ syncs' \in Nat
  BY <1>a DEF Enter, TypeOK
<1>c. holder # s BY DEF IInv, SyncInv, Enter
<1>1. /\ sync' \in [Syncer -> Coroutine] /\ sync'[s].pc = "wait"
      /\ \A t \in Syncer \ {s} :
           /\ sync'[t].pc = sync[t].pc /\ sync'[t].revs = sync[t].revs
           /\ sync'[t].parts = sync[t].parts /\ sync'[t].got = sync[t].got
  BY <1>a, IdleType, BeginType DEF Enter
<1>2. TypeOK' BY <1>a, <1>b, <1>1 DEF TypeOK, store, view, client
<1>3. SyncInv(s)' BY <1>b, <1>c, <1>1 DEF SyncInv
<1>4. ASSUME NEW t \in Syncer \ {s} PROVE SyncInv(t)'
  <2>1. SyncInv(t) BY DEF IInv
  <2> QED BY <1>b, <1>1, <2>1 DEF SyncInv, Known, store, view
<1>5. CatalogNotTorn' BY <1>a, <1>b DEF CatalogNotTorn, view, store
<1> QED BY <1>a, <1>b, <1>2, <1>3, <1>4, <1>5, ReaderFrame DEF IInv

\* A step of the lock's holder that keeps it and publishes nothing.
LEMMA StepHolder ==
  ASSUME IInv, NEW s \in Syncer, holder = s, NEW r \in Coroutine, Set(s, r), SyncInv(s)',
         UNCHANGED <<store, holder, view, syncs, client>>
  PROVE  IInv'
<1>a. TypeOK /\ ReaderInv /\ CatalogNotTorn BY DEF IInv
<1>1. /\ sync' \in [Syncer -> Coroutine]
      /\ \A t \in Syncer \ {s} : sync'[t] = sync[t]
  BY <1>a, SetType
<1>2. TypeOK' BY <1>a, <1>1 DEF TypeOK, store, view, client
<1>3. \A t \in Syncer \ {s} : SyncInv(t)' BY <1>1, Others
<1>4. CatalogNotTorn' BY <1>a DEF CatalogNotTorn, view, store
<1> QED BY <1>a, <1>2, <1>3, <1>4, ReaderFrame DEF IInv

\* Nothing is published by a holder that gives up.
LEMMA GivesUp ==
  ASSUME IInv, NEW s \in Syncer, holder = s, Return(s), syncs' \in Nat,
         UNCHANGED <<store, view, client>>
  PROVE  IInv'
<1>1. CatalogNotTorn' /\ catalog' \in [Part -> SUBSET Nat] /\ revisions' \in [Part -> Nat]
  BY DEF IInv, TypeOK, CatalogNotTorn, view, store
<1> QED BY <1>1, StepReturn

\* The first read under the lock.
LEMMA StepRead ==
  ASSUME IInv, NEW s \in Syncer, Read(s)
  PROVE  IInv'
<1>a. TypeOK /\ sync[s] \in Coroutine BY DEF IInv, TypeOK
<1>b. UNCHANGED <<store, view, syncs, client>> /\ holder = s
  BY DEF Read, IInv, SyncInv
<1>c. syncs' \in Nat BY <1>a, <1>b DEF TypeOK
<1> DEFINE parts == {p \in Part : Changed(p, Revisions)}
           r == [sync[s] EXCEPT !.pc = "fetch", !.revs = Revisions, !.parts = parts]
<1>1. CASE Return(s) BY <1>b, <1>c, <1>1, GivesUp
<1>2. CASE Set(s, r) /\ UNCHANGED holder
  <2>1. Revisions \in [Part -> Nat] /\ Known(Revisions) BY <1>a, CandidatesType
  <2>2. parts \in SUBSET Part /\ parts = {p \in Part : Revisions[p] # revisions[p]}
    BY DEF Changed
  <2> HIDE DEF parts
  <2>3. r \in Coroutine /\ r.pc = "fetch" /\ r.revs = Revisions /\ r.parts = parts
    BY <1>a, <2>1, <2>2 DEF Coroutine
  <2>4. sync'[s] = r BY <1>a, <1>2, <2>3, SetType
  <2>5. SyncInv(s)'
    BY <1>b, <1>2, <2>1, <2>2, <2>3, <2>4 DEF SyncInv, Known, view, store
  <2> QED BY <1>b, <1>2, <2>3, <2>5, StepHolder
<1> QED BY <1>1, <1>2 DEF Read

\* The offers: of the revisions read, or a newer snapshot is there.
LEMMA StepFetch ==
  ASSUME IInv, NEW s \in Syncer, Fetch(s)
  PROVE  IInv'
<1>a. TypeOK /\ sync[s] \in Coroutine /\ SyncInv(s) BY DEF IInv, TypeOK
<1>b. UNCHANGED <<store, holder, view, syncs, client>> /\ holder = s /\ sync[s].pc = "fetch"
  BY DEF Fetch, IInv, SyncInv
<1> DEFINE revs == sync[s].revs
           asOf(p) == IF revs[p] = Newest(committed[p]) THEN revs[p] ELSE Latest(p)
           got == [p \in Part |-> IF p \in sync[s].parts /\ revs[p] # 0
                                  THEN OffersOf(p, asOf(p)) ELSE {}]
           r == [sync[s] EXCEPT !.pc = "confirm", !.got = got]
<1>1. Set(s, r) BY DEF Fetch
<1>2. ASSUME NEW p \in Part
      PROVE  /\ got[p] \in SUBSET Nat
             /\ p \in sync[s].parts => \/ got[p] = OffersOf(p, revs[p])
                                       \/ revs[p] # 0 /\ \E n \in committed[p] : n > revs[p]
  <2>1. revs[p] \in committed[p] \cup {0} /\ revs[p] \in Nat /\ committed[p] \in SUBSET Rank
    BY <1>a, <1>b DEF SyncInv, Known, TypeOK, Coroutine
  <2>2. asOf(p) \in committed[p] \cup {0} BY <1>a, <2>1, LatestIs
  <2>3. OffersOf(p, asOf(p)) \in SUBSET Nat BY <1>a, <2>2, OffersType
  <2>4. revs[p] # 0 /\ asOf(p) # revs[p] => \E n \in committed[p] : n > revs[p]
    <3> SUFFICES ASSUME revs[p] # 0, revs[p] # Newest(committed[p])
                 PROVE  \E n \in committed[p] : n > revs[p]
      OBVIOUS
    <3>1. Newest(committed[p]) \in committed[p] /\ revs[p] <= Newest(committed[p])
          /\ Newest(committed[p]) \in Nat
      BY <2>1, NewestIs
    <3> QED BY <2>1, <3>1
  <2>5. revs[p] = 0 => OffersOf(p, revs[p]) = {} BY DEF OffersOf
  <2> HIDE DEF asOf
  <2> QED BY <2>3, <2>4, <2>5
<1>3. got \in [Part -> SUBSET Nat]
  <2> DEFINE g(p) == IF p \in sync[s].parts /\ revs[p] # 0 THEN OffersOf(p, asOf(p)) ELSE {}
  <2>1. got = [p \in Part |-> g(p)] OBVIOUS
  <2>2. \A p \in Part : g(p) \in SUBSET Nat BY <1>2
  <2> HIDE DEF g
  <2> QED BY <2>1, <2>2
<1> HIDE DEF got
<1>4. /\ r \in Coroutine /\ r.pc = "confirm" /\ r.revs = revs /\ r.parts = sync[s].parts
      /\ r.got = got
  BY <1>a, <1>3 DEF Coroutine
<1> HIDE DEF r
<1>5. sync'[s] = r BY <1>a, <1>1, <1>4, SetType
<1>6. sync[s].parts \subseteq Part BY <1>a DEF Coroutine
<1>7. SyncInv(s)'
  BY <1>a, <1>b, <1>2, <1>4, <1>5, <1>6 DEF SyncInv, Known, view, store
<1> QED BY <1>1, <1>4, <1>7, <1>b, StepHolder

\* Publishing what was confirmed: nothing newer than the revisions read is
\* committed, so the offers are theirs.
LEMMA PublishedNotTorn ==
  ASSUME IInv, NEW s \in Syncer, sync[s].pc = "confirm", Confirmed(s), UNCHANGED store,
         catalog' = [p \in Part |-> IF p \in sync[s].parts THEN sync[s].got[p] ELSE catalog[p]],
         revisions' = sync[s].revs
  PROVE  /\ CatalogNotTorn'
         /\ catalog' \in [Part -> SUBSET Nat] /\ revisions' \in [Part -> Nat]
<1>a. TypeOK /\ sync[s] \in Coroutine /\ SyncInv(s) /\ CatalogNotTorn BY DEF IInv, TypeOK
<1>1. catalog' \in [Part -> SUBSET Nat] /\ revisions' \in [Part -> Nat]
  BY <1>a DEF TypeOK, Coroutine
<1>2. ASSUME NEW p \in Part
      PROVE  /\ catalog'[p] = OffersOf(p, revisions'[p])
             /\ revisions'[p] \in committed'[p] \cup {0}
  <2>1. revisions'[p] = Latest(p) /\ sync[s].revs[p] = Latest(p)
    BY DEF Confirmed, Revisions
  <2>2. CASE p \in sync[s].parts
    <3>1. Latest(p) # 0 => \A n \in committed[p] : ~(n > Latest(p))
      BY <1>a, SyncAssumption, LatestIs DEF TypeOK
    <3>2. sync[s].got[p] = OffersOf(p, Latest(p)) BY <1>a, <2>1, <2>2, <3>1 DEF SyncInv
    <3> QED BY <1>a, <2>1, <2>2, <3>2, LatestIs DEF store
  <2>3. CASE p \notin sync[s].parts
    <3>1. sync[s].revs[p] = revisions[p] BY <1>a, <2>3 DEF SyncInv
    <3> QED BY <1>a, <2>1, <2>3, <3>1 DEF CatalogNotTorn, store
  <2> QED BY <2>2, <2>3
<1> QED BY <1>1, <1>2 DEF CatalogNotTorn

\* The end of a synchronisation.
LEMMA StepPublish ==
  ASSUME IInv, NEW s \in Syncer, Publish(s)
  PROVE  IInv'
<1>a. TypeOK /\ sync[s] \in Coroutine /\ SyncInv(s) BY DEF IInv, TypeOK
<1>b. UNCHANGED <<store, syncs, client>> /\ holder = s /\ sync[s].pc = "confirm"
  BY DEF Publish, IInv, SyncInv
<1>c. syncs' \in Nat BY <1>a, <1>b DEF TypeOK
<1> DEFINE r == [sync[s] EXCEPT !.pc = "read", !.attempt = 2]
<1>1. CASE Set(s, r) /\ UNCHANGED <<holder, view>>
  <2>1. r \in Coroutine /\ r.pc = "read" BY <1>a DEF Coroutine
  <2> HIDE DEF r
  <2>2. sync'[s] = r BY <1>1, <1>a, <2>1, SetType
  <2>3. SyncInv(s)' BY <1>1, <1>b, <2>1, <2>2 DEF SyncInv
  <2> QED BY <1>1, <1>b, <2>1, <2>3, StepHolder
<1>2. CASE /\ Confirmed(s) /\ Return(s) /\ revisions' = sync[s].revs
           /\ catalog' = [p \in Part |-> IF p \in sync[s].parts THEN sync[s].got[p]
                                                               ELSE catalog[p]]
  BY <1>2, <1>b, <1>c, PublishedNotTorn, StepReturn
<1>3. CASE Return(s) /\ UNCHANGED view BY <1>3, <1>b, <1>c, GivesUp
<1> QED BY <1>1, <1>2, <1>3 DEF Publish

\* A SELECT raises.
LEMMA StepRaises ==
  ASSUME IInv, NEW s \in Syncer, SyncRaises(s)
  PROVE  IInv'
<1>1. holder = s /\ syncs' \in Nat BY DEF IInv, TypeOK, SyncInv, SyncRaises
<1> QED BY <1>1, GivesUp DEF SyncRaises

-----------------------------------------------------------------------------
\* A page is what follows the cursor, up to its last identity.
LEMMA PageIsNext ==
  ASSUME NEW S \in SUBSET (Nat \ {0}), reader.cursor \in Nat,
         NEW m \in PageOf(S), NEW k \in S, k > reader.cursor, k <= m
  PROVE  k \in PageOf(S)
<1> DEFINE Up(x) == {y \in S : y > reader.cursor /\ y <= x}
<1>a. \A y \in S : y \in Nat OBVIOUS
<1>1. m \in S /\ m \in Nat /\ k \in Nat /\ Cardinality(Up(m)) <= Limit BY <1>a DEF PageOf
<1>2. IsFiniteSet(Up(m))
  <2>1. IsFiniteSet(0..m) BY <1>1, FS_Interval
  <2>2. \A y \in Up(m) : y \in 0..m BY <1>a, <1>1
  <2> HIDE DEF Up
  <2> QED BY <2>1, <2>2, FS_Subset
<1>3. Up(k) \in SUBSET Up(m)
  <2>1. \A y \in Up(k) : y \in Up(m) BY <1>a, <1>1
  <2> HIDE DEF Up
  <2> QED BY <2>1
<1>4. Cardinality(Up(k)) <= Cardinality(Up(m)) /\ IsFiniteSet(Up(k))
  <2> HIDE DEF Up
  <2> QED BY <1>2, <1>3, FS_Subset
<1>5. Cardinality(Up(k)) \in Nat /\ Cardinality(Up(m)) \in Nat
  <2> HIDE DEF Up
  <2> QED BY <1>2, <1>4, FS_CardinalityType
<1>6. Limit \in Nat BY SyncAssumption
<1>7. Cardinality(Up(k)) <= Limit
  <2> HIDE DEF Up
  <2> QED BY <1>1, <1>4, <1>5, <1>6
<1> QED BY <1>7 DEF PageOf

\* The client's steps touch nothing but the client.
LEMMA ClientFrame ==
  ASSUME IInv, reader' \in Reader, matched' \in [always : SUBSET Identity, ever : SUBSET Identity],
         ReaderInv', UNCHANGED <<store, sync, holder, view, syncs>>
  PROVE  IInv'
<1>1. TypeOK' BY DEF IInv, TypeOK, store, view
<1>2. CatalogNotTorn' BY DEF IInv, CatalogNotTorn, store, view
<1>3. \A s \in Syncer : SyncInv(s)' BY DEF IInv, SyncInv, Known, store, view
<1> QED BY <1>1, <1>2, <1>3 DEF IInv

\* inspect pins the newest snapshots; a client that goes on has the same pins.
LEMMA StepPin ==
  ASSUME IInv, InspectPin
  PROVE  IInv'
<1> DEFINE pins == [p \in Part |-> Newest(committed[p])]
<1>a. TypeOK /\ reader \in Reader /\ ReaderInv BY DEF IInv, TypeOK
<1>b. UNCHANGED <<store, sync, holder, view, syncs>> BY DEF InspectPin
<1>1. pins \in [Part -> Nat] /\ Known(pins)
  <2>1. \A p \in Part : Newest(committed[p]) \in committed[p] \cup {0} /\ Newest(committed[p]) \in Nat
    BY <1>a, NewestIs DEF TypeOK
  <2> QED BY <2>1 DEF Known
<1>2. \/ /\ reader.pc = "first"
         /\ \E q \in Query :
              LET now == Matches(q, pins, history, alias) IN
                /\ reader' = [reader EXCEPT !.pc = "read", !.pins = pins, !.query = q]
                /\ matched' = [always |-> now, ever |-> now]
      \/ reader.pc = "next" /\ reader' = [reader EXCEPT !.pc = "read"] /\ UNCHANGED matched
      \/ reader' = [NewReader EXCEPT !.pc = "gone"] /\ UNCHANGED matched
  BY DEF InspectPin
<1> HIDE DEF pins
<1>3. ASSUME reader.pc = "first", NEW q \in Query,
             reader' = [reader EXCEPT !.pc = "read", !.pins = pins, !.query = q],
             matched' = [always |-> Matches(q, pins, history, alias),
                         ever |-> Matches(q, pins, history, alias)]
      PROVE  IInv'
  <2> DEFINE now == Matches(q, pins, history, alias)
  <2>1. /\ reader' \in Reader /\ reader'.pc = "read" /\ reader'.pins = pins
        /\ reader'.got = {} /\ reader'.cursor = 0 /\ reader'.query = q
    BY <1>a, <1>1, <1>3 DEF Reader, ReaderInv
  <2>2. /\ now \subseteq Identity /\ history \in SUBSET Identity
        /\ Pinned(q) => now = Listing(pins) \cap Named(q, alias)
    <3>1. Listing(pins) \subseteq history /\ history \in SUBSET Identity
      BY <1>a, <1>1, ListingType DEF TypeOK
    <3> QED BY <3>1, MatchesAre
  <2>3. Now' = now /\ Exact' = Listing(pins) \cap Named(q, alias)
    BY <1>b, <2>1 DEF Now, Exact, store, Matches, Listing, Named
  <2> HIDE DEF now
  <2>4. matched'.always = now /\ matched'.ever = now
        /\ matched' \in [always : SUBSET Identity, ever : SUBSET Identity]
    BY <1>3, <2>2 DEF now
  <2>5. \A m \in now : ~(m <= 0)
    <3>1. \A m \in Identity : m \in Nat /\ m # 0 BY SyncAssumption
    <3> QED BY <2>2, <3>1
  <2>6. Known(reader.pins)' BY <1>1, <1>b, <2>1 DEF Known, store
  <2>7. ReaderInv'
    BY <2>1, <2>2, <2>3, <2>4, <2>5, <2>6 DEF ReaderInv, Paging
  <2> QED BY <1>b, <2>1, <2>4, <2>7, ClientFrame
<1>4. CASE reader.pc = "next" /\ reader' = [reader EXCEPT !.pc = "read"] /\ UNCHANGED matched
  <2>1. /\ reader' \in Reader /\ reader'.pc = "read" /\ reader'.pins = reader.pins
        /\ reader'.got = reader.got /\ reader'.cursor = reader.cursor
        /\ reader'.query = reader.query
    BY <1>a, <1>1, <1>4 DEF Reader
  <2>2. Now' = Now /\ Exact' = Exact
    BY <1>b, <2>1 DEF Now, Exact, store, Matches, Listing, Named
  <2>3. Known(reader.pins)' = Known(reader.pins) BY <1>b, <2>1 DEF Known, store
  <2>4. ReaderInv'
    BY <1>a, <1>4, <2>1, <2>2, <2>3 DEF ReaderInv, Paging
  <2>5. matched' \in [always : SUBSET Identity, ever : SUBSET Identity] BY <1>a, <1>4 DEF TypeOK
  <2> QED BY <1>b, <2>1, <2>4, <2>5, ClientFrame
<1>5. CASE reader' = [NewReader EXCEPT !.pc = "gone"] /\ UNCHANGED matched
  <2>1. reader' \in Reader /\ reader'.pc = "gone"
    BY <1>5, IdleType DEF NewReader, Reader
  <2>2. ReaderInv' BY <2>1 DEF ReaderInv, Paging
  <2>3. matched' \in [always : SUBSET Identity, ever : SUBSET Identity] BY <1>a, <1>5 DEF TypeOK
  <2> QED BY <1>b, <2>1, <2>2, <2>3, ClientFrame
<1> QED BY <1>2, <1>3, <1>4, <1>5

\* inspect returns a page of what meets the query now and moves the cursor.
LEMMA StepPage ==
  ASSUME IInv, InspectPage
  PROVE  IInv'
<1> DEFINE S == Now
           page == PageOf(S)
           more == \E m \in S : m > reader.cursor /\ m \notin page
           c == IF page = {} THEN reader.cursor ELSE Max(page)
<1>a. TypeOK /\ reader \in Reader /\ ReaderInv BY DEF IInv, TypeOK
<1>b. UNCHANGED <<store, sync, holder, view, syncs, matched>> /\ reader.pc = "read"
  BY DEF InspectPage
<1>c. /\ reader.cursor \in Nat /\ reader.pins \in [Part -> Nat] /\ Known(reader.pins)
      /\ reader.query \in Query /\ reader.got \in SUBSET Nat /\ reader.got \subseteq matched.ever
      /\ matched.always \subseteq S /\ S \subseteq matched.ever
      /\ \A m \in matched.always : m <= reader.cursor => m \in reader.got
  BY <1>a, <1>b DEF Reader, ReaderInv, Paging
<1>1. S \in SUBSET (Nat \ {0}) /\ IsFiniteSet(S)
  <2>1. S \subseteq Identity
    <3>1. Listing(reader.pins) \subseteq history /\ history \in SUBSET Identity
      BY <1>a, <1>c, ListingType DEF TypeOK
    <3> QED BY <1>c, <3>1, MatchesAre DEF Now
  <2> HIDE DEF S
  <2> QED BY <2>1, SyncAssumption, FS_Subset
<1>2. reader' = [reader EXCEPT !.pc = IF more THEN "next" ELSE "end",
                               !.got = @ \cup page, !.cursor = c]
  BY DEF InspectPage, TakePage, Now
<1> HIDE DEF S
<1>3. page \in SUBSET S /\ \A m \in page : m > reader.cursor BY DEF PageOf
<1>4. \A m \in page, k \in S : k > reader.cursor /\ k <= m => k \in page
  BY <1>1, <1>c, PageIsNext
<1> HIDE DEF page
<1>5. /\ c \in Nat /\ c >= reader.cursor /\ \A m \in page : m <= c
      /\ page # {} => c \in page
      /\ page = {} => c = reader.cursor
  <2>1. CASE page = {} BY <1>c, <2>1
  <2>2. CASE page # {}
    <3>1. page \in SUBSET Nat /\ IsFiniteSet(page)
      <4>1. IsFiniteSet(page) BY <1>1, <1>3, FS_Subset
      <4> QED BY <1>1, <1>3, <4>1
    <3>2. Max(page) \in page /\ \A x \in page : x <= Max(page) BY <2>2, <3>1, MaxOfFinite
    <3> QED BY <1>3, <1>c, <2>2, <3>1, <3>2
  <2> QED BY <2>1, <2>2
<1> HIDE DEF c
<1>6. \A m \in S : m \in Nat BY <1>1
<1>7. \A m \in matched.always : m <= c => m \in reader.got \cup page
  BY <1>4, <1>5, <1>6, <1>c
<1>8. ~more => matched.always \subseteq reader.got \cup page
  BY <1>3, <1>6, <1>c
<1> HIDE DEF more
<1>9. /\ reader' \in Reader /\ reader'.pc = (IF more THEN "next" ELSE "end")
      /\ reader'.pins = reader.pins /\ reader'.got = reader.got \cup page /\ reader'.cursor = c
      /\ reader'.query = reader.query
  <2>1. reader.got \cup page \in SUBSET Nat BY <1>3, <1>6, <1>c
  <2> QED BY <1>a, <1>2, <1>5, <2>1 DEF Reader
<1>10. Now' = Now /\ Exact' = Exact /\ matched' = matched
  BY <1>b, <1>9 DEF Now, Exact, store, Matches, Listing, Named
<1>11. Known(reader.pins)' BY <1>b, <1>c, <1>9 DEF Known, store
<1>12. reader.got \cup page \subseteq matched.ever BY <1>3, <1>c
<1>13. Pinned(reader.query) => matched.always = Exact /\ matched.ever = Exact
  BY <1>a, <1>b DEF ReaderInv
<1>14. matched.always \subseteq Now /\ Now \subseteq matched.ever BY <1>c DEF S
<1>15. ReaderInv'
  BY <1>c, <1>7, <1>8, <1>9, <1>10, <1>11, <1>12, <1>13, <1>14 DEF ReaderInv, Paging
<1>16. matched' \in [always : SUBSET Identity, ever : SUBSET Identity] BY <1>a, <1>b DEF TypeOK
<1> QED BY <1>b, <1>9, <1>15, <1>16, ClientFrame

-----------------------------------------------------------------------------
\* The invariant holds when the replica starts.
LEMMA InitIInv == Init => IInv
<1> SUFFICES ASSUME Init PROVE IInv OBVIOUS
<1> USE SyncAssumption, IdleType DEF Init
<1>1. [Idle EXCEPT !.pc = "hydrate"] \in Coroutine /\ [Idle EXCEPT !.pc = "hydrate"].pc = "hydrate"
  BY DEF Idle, Coroutine
<1>2. NewReader \in Reader /\ NewReader.pc = "first" /\ NewReader.cursor = 0 /\ NewReader.got = {}
  BY DEF NewReader, Reader
<1>3. TypeOK BY <1>1, <1>2 DEF TypeOK
<1>7. NewReader.pc = "first" /\ ~Paging BY <1>2 DEF Paging
<1>4. CatalogNotTorn BY DEF CatalogNotTorn, Nothing, OffersOf
<1>5. ReaderInv BY <1>2, <1>7 DEF ReaderInv
<1>6. \A s \in Syncer : SyncInv(s)
  <2> SUFFICES ASSUME NEW s \in Syncer PROVE SyncInv(s) OBVIOUS
  <2>1. sync[s].pc \in {"idle", "hydrate"} BY <1>1
  <2> QED BY <2>1 DEF SyncInv, None
<1> QED BY <1>3, <1>4, <1>5, <1>6 DEF IInv

\* Every step keeps the invariant.
LEMMA NextIInv == IInv /\ [Next]_vars => IInv'
<1> SUFFICES ASSUME IInv, [Next]_vars PROVE IInv' OBVIOUS
<1>1. CASE UNCHANGED vars
  <2>1. TypeOK' /\ ReaderInv' /\ CatalogNotTorn'
    BY <1>1, ReaderFrame
       DEF vars, store, client, IInv, TypeOK, CatalogNotTorn
  <2>2. \A s \in Syncer : SyncInv(s)' BY <1>1 DEF vars, IInv, SyncInv, Known
  <2> QED BY <2>1, <2>2 DEF IInv
<1> QED
  BY <1>1, StepStore, StepLock, StepHydratePublish, StepEnter, StepRead, StepFetch,
     StepPublish, StepRaises, StepPin, StepPage
     DEF Next, SyncStep

\* The invariant holds throughout.
LEMMA Invariance == Spec => []IInv
BY InitIInv, NextIInv, PTL DEF Spec

\* _sync_candidate_partitions and _hydrate_candidates: whatever is committed
\* between the SELECTs, the published catalog has for every partition the
\* offers of the one committed snapshot its revision names.
THEOREM CatalogNeverTorn == Spec => []CatalogNotTorn
<1>1. IInv => CatalogNotTorn BY DEF IInv
<1> QED BY <1>1, Invariance, PTL

\* inspect: pages that carry one revision hold all that met the query throughout
\* and nothing that never did, and exactly the revision's listing for the queries
\* it answers, for every query and page size and whatever is committed meanwhile.
THEOREM PagesAlwaysAddUp == Spec => []PagesAddUp
<1>1. IInv => PagesAddUp
  <2> SUFFICES ASSUME IInv, reader.pc = "end" PROVE PagesAddUp BY DEF PagesAddUp
  <2> QED BY DEF IInv, ReaderInv, PagesAddUp, Exact
<1> QED BY <1>1, Invariance, PTL

\* Publishing never takes a partition back to an older snapshot.
LEMMA PublishForward ==
  ASSUME IInv, [Next]_vars, NEW p \in Part, revisions'[p] # 0
  PROVE  revisions'[p] >= revisions[p]
<1>a. /\ TypeOK /\ revisions[p] \in committed[p] \cup {0} /\ revisions[p] \in Nat
      /\ committed[p] \in SUBSET Nat
  BY SyncAssumption DEF IInv, TypeOK, CatalogNotTorn
<1>1. CASE revisions'[p] = Latest(p)
  BY <1>a, <1>1, LatestIs
<1>2. CASE revisions'[p] = revisions[p] BY <1>2, <1>a
<1>3. ASSUME NEW s \in Syncer, HydratePublish(s)
      PROVE  revisions'[p] = Latest(p) \/ revisions'[p] = revisions[p]
  BY <1>3 DEF HydratePublish, view
<1>4. ASSUME NEW s \in Syncer, Publish(s)
      PROVE  revisions'[p] = Latest(p) \/ revisions'[p] = revisions[p]
  <2>1. revisions' = revisions \/ (Confirmed(s) /\ revisions' = sync[s].revs)
    BY <1>4 DEF Publish, view
  <2> QED BY <2>1 DEF Confirmed, Revisions
<1>5. \/ revisions' = revisions
      \/ \E s \in Syncer : HydratePublish(s) \/ Publish(s)
  BY DEF Next, SyncStep, vars, view, Expire, Commit, Enter, SyncRaises, HydrateLock, Lock, Read,
         Fetch, InspectPin, InspectPage, CommitOther
<1> QED BY <1>1, <1>2, <1>3, <1>4, <1>5

\* A replica's view of a partition goes from a snapshot to a newer one, or to
\* none when the newest has expired, however its coroutines overtake each other.
THEOREM CatalogAlwaysForward == Spec => CatalogMovesForward
<1>1. IInv /\ [Next]_vars => [\A p \in Part : revisions'[p] # 0 => revisions'[p] >= revisions[p]]_vars
  BY PublishForward
<1> QED BY <1>1, Invariance, PTL DEF Spec, CatalogMovesForward
=============================================================================
