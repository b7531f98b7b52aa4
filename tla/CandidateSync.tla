---------------------------- MODULE CandidateSync ----------------------------
(***************************************************************************)
(* How a replica follows the inventory (toto_gateway/benchmarking/         *)
(* platform.py: _hydrate_candidates, _sync_candidate_partitions, inspect;  *)
(* the snapshot readers of platform_store.py; routing/candidates.py).      *)
(* Replicas commit snapshots at any time, snapshots expire, and in one     *)
(* replica several coroutines - the maintenance loop and the operations    *)
(* that just succeeded - bring its CandidateCatalog up to date under       *)
(* _hydration_lock, while a client pages through the answer to a query.    *)
(*                                                                         *)
(* A partition is a provider and credential scope.  A snapshot is its rank *)
(* in the order (completed_at, snapshot_id), which need not be the order   *)
(* of commits; Offers gives its models, which are immutable.  Those are    *)
(* the complete successes, which alone the snapshot readers select; what a *)
(* partial one offers only inspect's query for "all" identities reads.     *)
(* Every SELECT is a step.                                                 *)
(***************************************************************************)
EXTENDS Naturals, FiniteSets, FiniteSetsExt

CONSTANTS
  Part,       \* provider / credential scope partitions
  Rank,       \* snapshot ranks, positive; all expire after the same time
  Identity,   \* model identities, numbered in the order of their ids
  Offers,     \* Offers[p][n]: the models snapshot n of p offers
  Elsewhere,  \* identities partial snapshots and scopes not selected offer
  Bearer,     \* identities a certain source id may come to name
  Query,      \* the queries a client may page through
  Syncer,     \* coroutines that synchronise
  Starter,    \* the syncer that runs start()
  MaxSyncs,   \* bound: synchronisations of finished operations, failed rounds
  Limit       \* page size of inspect

ASSUME SyncAssumption ==
  /\ IsFiniteSet(Part) /\ Rank \subseteq Nat \ {0} /\ IsFiniteSet(Rank)
  /\ Identity \subseteq Nat \ {0} /\ IsFiniteSet(Identity) /\ Elsewhere \subseteq Identity
  /\ Starter \in Syncer /\ "none" \notin Syncer
  /\ Limit \in Nat \ {0} /\ MaxSyncs \in Nat
  /\ \A p \in Part : \A n \in DOMAIN Offers[p] :
       n \in Rank /\ Offers[p][n] \subseteq Identity
  /\ Query \subseteq [avail : {"available", "all"}, by : {"any", "id", "source"},
                      id : Identity]

VARIABLES
  committed,  \* committed[p]: ranks in inventory_snapshots
  expired,    \* expired[p]: ranks up to it are past expires_at
  history,    \* identities with a row in provider_offers, of any snapshot
  alias,      \* alias[p]: the identity that source id names at p's provider, or 0
  sync,       \* sync[s]: the coroutine
  holder,     \* who holds _hydration_lock, or None
  catalog,    \* catalog[p]: models the published catalog has for p
  revisions,  \* _candidate_revisions, 0 for a key that is not there
  syncs,      \* synchronisations of operations, failed rounds
  reader,     \* a client paging through inspect
  matched     \* what has met its query always, and ever, since its first page

store == <<committed, expired, history, alias>>
view == <<catalog, revisions>>
client == <<reader, matched>>
vars == <<committed, expired, history, alias, sync, holder, catalog, revisions,
          syncs, reader, matched>>

None == "none"
Nothing == [p \in Part |-> 0]
Newest(S) == IF S = {} THEN 0 ELSE Max(S)

\* Mutant: ORDER BY completed_at without DESC.
LatestAscending(p) ==
  LET fresh == {n \in committed[p] : n > expired[p]}
  IN  IF fresh = {} THEN 0 ELSE Min(fresh)

\* The latest snapshot of a partition, and none when that one has expired.
Latest(p) ==
  LET n == Newest(committed[p]) IN IF n > expired[p] THEN n ELSE 0

\* latest_routing_candidate_revisions.
Revisions == [p \in Part |-> Latest(p)]

OffersOf(p, n) == IF n = 0 THEN {} ELSE Offers[p][n]

Idle == [pc |-> "idle", stale |-> FALSE, revs |-> Nothing, parts |-> {},
         got |-> [p \in Part |-> {}], attempt |-> 1]
NewReader == [pc |-> "first", cursor |-> 0, pins |-> Nothing, got |-> {},
              query |-> [avail |-> "none", by |-> "none", id |-> 0]]

\* start(): hydrate, then synchronise; the catalog is empty before.
Init ==
  /\ committed = [p \in Part |-> {}]
  /\ expired = Nothing
  /\ history = {}
  /\ alias = Nothing
  /\ sync = [s \in Syncer |-> IF s = Starter THEN [Idle EXCEPT !.pc = "hydrate"]
                                              ELSE Idle]
  /\ holder = None
  /\ catalog = [p \in Part |-> {}]
  /\ revisions = Nothing
  /\ syncs = 0
  /\ reader = NewReader
  /\ matched = [always |-> {}, ever |-> {}]

Set(s, r) == sync' = [sync EXCEPT ![s] = r]

\* Mutant: the generation is read before it is incremented.
BeginBehind(s, r) ==
  sync' = [t \in Syncer |-> IF t = s THEN [r EXCEPT !.stale = TRUE]
                            ELSE [sync[t] EXCEPT !.stale = (sync[t].pc # "idle")]]

\* _hydration_generation += 1: s has the newest generation, every other call
\* that is under way is stale from now on.
Begin(s, r) ==
  sync' = [t \in Syncer |-> IF t = s THEN r
                            ELSE [sync[t] EXCEPT !.stale = (sync[t].pc # "idle")]]

-----------------------------------------------------------------------------
\* The query of inspect.  A query for "available" identities is answered from the
\* pinned snapshots; "all" means every offer of the selected scopes there ever
\* was; a reference, to an identity or by a provider's source id, keeps what the
\* pinned snapshots offer, but reads the aliases as they are.

Listing(pins) == UNION {OffersOf(p, pins[p]) : p \in Part}

Named(q, names) ==
  CASE q.by = "any" -> Identity
    [] q.by = "id" -> {q.id}
    [] q.by = "source" -> {names[p] : p \in Part}

Matches(q, pins, rows, names) ==
  {m \in IF q.avail = "available" \/ q.by # "any" THEN Listing(pins) ELSE rows :
     /\ q.avail = "all" => m \in rows
     /\ m \in Named(q, names)}

Paging == reader.pc \in {"read", "next"}

\* Observes what meets the query of a client that is paging.
Watch ==
  LET now == Matches(reader.query, reader.pins, history', alias')
  IN  matched' = IF Paging THEN [always |-> matched.always \cap now,
                                 ever |-> matched.ever \cup now]
                           ELSE matched

-----------------------------------------------------------------------------
\* The inventory changes: some replica commits a snapshot, or time passes.  A
\* commit reconciles: the source id may name another of its models from then on.

Rename(p, S) == \E m \in (S \cap Bearer) \cup {alias[p]} : alias' = [alias EXCEPT ![p] = m]

Commit(p, n) ==
  /\ n \in DOMAIN Offers[p] /\ n \notin committed[p] /\ n > expired[p]
  /\ committed' = [committed EXCEPT ![p] = @ \cup {n}]
  /\ history' = history \cup Offers[p][n]
  /\ Rename(p, Offers[p][n])
  /\ Watch
  /\ UNCHANGED <<expired, sync, holder, catalog, revisions, syncs, reader>>

\* A partial snapshot of p is committed, or one of the same provider in a scope
\* that is not selected and only moves the alias.
CommitOther(p, m) ==
  /\ history' \in {history, history \cup {m}}
  /\ Rename(p, {m})
  /\ Watch
  /\ UNCHANGED <<committed, expired, sync, holder, catalog, revisions, syncs, reader>>

Expire(p) ==
  /\ expired[p] < Newest(committed[p])
  /\ expired' = [expired EXCEPT ![p] = Newest(committed[p])]
  /\ UNCHANGED <<committed, history, alias, sync, holder, catalog, revisions, syncs,
                 reader, matched>>

-----------------------------------------------------------------------------
\* _hydrate_candidates.

HydrateLock(s) ==
  /\ sync[s].pc = "hydrate" /\ holder = None
  /\ holder' = s
  /\ Set(s, [sync[s] EXCEPT !.pc = "load"])
  /\ UNCHANGED <<store, view, syncs, client>>

\* all_routing_candidates: one statement.
AllCandidates == [p \in Part |-> OffersOf(p, Latest(p))]

\* Its rows carry the snapshot they come from: a partition without offers leaves
\* no revision.
HydratePublish(s) ==
  /\ sync[s].pc = "load"
  /\ IF ~sync[s].stale
     THEN /\ catalog' = AllCandidates
          /\ revisions' = [p \in Part |-> IF AllCandidates[p] = {} THEN 0 ELSE Latest(p)]
     ELSE UNCHANGED view
  /\ holder' = None
  /\ Begin(s, [Idle EXCEPT !.pc = "wait"])
  /\ UNCHANGED <<store, syncs, client>>

-----------------------------------------------------------------------------
\* _sync_candidate_partitions.  The generation is taken before the lock: a
\* call that was overtaken gives up, the overtaking one does its work.

Enter(s) ==
  /\ sync[s].pc = "idle"
  /\ s # Starter => syncs < MaxSyncs
  /\ syncs' = IF s = Starter THEN syncs ELSE syncs + 1
  /\ Begin(s, [Idle EXCEPT !.pc = "wait"])
  /\ UNCHANGED <<store, holder, view, client>>

Lock(s) ==
  /\ sync[s].pc = "wait" /\ holder = None
  /\ holder' = s
  /\ Set(s, [sync[s] EXCEPT !.pc = "read"])
  /\ UNCHANGED <<store, view, syncs, client>>

Return(s) == Set(s, Idle) /\ holder' = None

\* changed or removed.
Changed(p, revs) == revs[p] # revisions[p]

Read(s) ==
  /\ sync[s].pc = "read"
  /\ LET parts == {p \in Part : Changed(p, Revisions)} IN
       IF sync[s].stale \/ parts = {}
       THEN Return(s)
       ELSE /\ Set(s, [sync[s] EXCEPT !.pc = "fetch", !.revs = Revisions, !.parts = parts])
            /\ UNCHANGED holder
  /\ UNCHANGED <<store, view, syncs, client>>

\* routing_candidates_for_scopes of the changed partitions: it selects the
\* latest snapshots itself, perhaps newer ones, as of the earlier clock.
Fetch(s) ==
  /\ sync[s].pc = "fetch"
  /\ LET revs == sync[s].revs
         asOf(p) == IF revs[p] = Newest(committed[p]) THEN revs[p] ELSE Latest(p)
     IN  Set(s, [sync[s] EXCEPT !.pc = "confirm",
                   !.got = [p \in Part |-> IF p \in sync[s].parts /\ revs[p] # 0
                                           THEN OffersOf(p, asOf(p)) ELSE {}]])
  /\ UNCHANGED <<store, holder, view, syncs, client>>

\* Mutant: the revisions are not read again after the offers.
SameStill(s) == TRUE

\* confirmed == revisions.
Confirmed(s) == Revisions = sync[s].revs

\* Confirm and publish, try once more, or give up until the next round.
Publish(s) ==
  /\ sync[s].pc = "confirm"
  /\ LET r == sync[s] IN
       CASE ~Confirmed(s) /\ r.attempt = 1 ->
              /\ Set(s, [r EXCEPT !.pc = "read", !.attempt = 2])
              /\ UNCHANGED <<holder, view>>
         [] Confirmed(s) /\ ~r.stale ->
              /\ catalog' = [p \in Part |-> IF p \in r.parts THEN r.got[p] ELSE catalog[p]]
              /\ revisions' = r.revs
              /\ Return(s)
         [] OTHER -> Return(s) /\ UNCHANGED view
  /\ UNCHANGED <<store, syncs, client>>

\* A SELECT raises: the lock is released, the caller carries on; the maintenance
\* loop tries again in its next round.
SyncRaises(s) ==
  /\ sync[s].pc \in {"read", "fetch", "confirm"}
  /\ s = Starter => syncs < MaxSyncs
  /\ syncs' = IF s = Starter THEN syncs + 1 ELSE syncs
  /\ Return(s)
  /\ UNCHANGED <<store, view, client>>

-----------------------------------------------------------------------------
\* inspect: the snapshots are pinned by one statement, the page is read by
\* another; the cursor is the last identity of the page.

\* The client keeps to one revision: it gives up when a page has another.
InspectPin ==
  /\ LET pins == [p \in Part |-> Newest(committed[p])] IN
       \/ /\ reader.pc = "first"
          /\ \E q \in Query :
               LET now == Matches(q, pins, history, alias) IN
                 /\ reader' = [reader EXCEPT !.pc = "read", !.pins = pins, !.query = q]
                 /\ matched' = [always |-> now, ever |-> now]
       \/ /\ reader.pc = "next"
          /\ reader' = IF pins = reader.pins THEN [reader EXCEPT !.pc = "read"]
                                             ELSE [NewReader EXCEPT !.pc = "gone"]
          /\ UNCHANGED matched
  /\ UNCHANGED <<store, sync, holder, view, syncs>>

PageOf(S) == {m \in S : m > reader.cursor /\
                        Cardinality({k \in S : k > reader.cursor /\ k <= m}) <= Limit}

TakePage(S) ==
  LET page == PageOf(S)
      more == \E m \in S : m > reader.cursor /\ m \notin page
  IN  reader' = [reader EXCEPT !.pc = IF more THEN "next" ELSE "end",
                   !.got = @ \cup page,
                   !.cursor = IF page = {} THEN @ ELSE Max(page)]

\* Mutant: the page is read from the snapshots that are the latest by then.
InspectPageUnpinned ==
  /\ reader.pc = "read"
  /\ TakePage(Matches(reader.query, [p \in Part |-> Newest(committed[p])], history, alias))
  /\ UNCHANGED <<store, sync, holder, view, syncs, matched>>

InspectPage ==
  /\ reader.pc = "read"
  /\ TakePage(Matches(reader.query, reader.pins, history, alias))
  /\ UNCHANGED <<store, sync, holder, view, syncs, matched>>

SyncStep(s) ==
  \/ HydrateLock(s) \/ HydratePublish(s)
  \/ Lock(s) \/ Read(s) \/ Fetch(s) \/ Publish(s)

Next ==
  \/ \E p \in Part : Expire(p) \/ \E n \in Rank : Commit(p, n)
  \/ \E p \in Part, m \in Elsewhere : CommitOther(p, m)
  \/ \E s \in Syncer : Enter(s) \/ SyncStep(s) \/ SyncRaises(s)
  \/ InspectPin \/ InspectPage

Spec == Init /\ [][Next]_vars

\* SELECTs return, the lock is fair, and the maintenance loop starts a round
\* every ten seconds for as long as the replica runs.
Fairness ==
  /\ WF_vars(Enter(Starter))
  /\ \A s \in Syncer : SF_vars(SyncStep(s))

FairSpec == Spec /\ Fairness

-----------------------------------------------------------------------------
\* _sync_candidate_partitions: the published catalog is never torn.  What it
\* has for a partition are the offers of one committed snapshot, the one its
\* revision names, however commits fall between the SELECTs.
CatalogNotTorn ==
  \A p \in Part :
    /\ catalog[p] = OffersOf(p, revisions[p])
    /\ revisions[p] \in committed[p] \cup {0}

\* A replica never goes back to an older inventory of a partition: from a
\* snapshot it moves to a newer one, or to none when the newest has expired.
CatalogMovesForward ==
  [][\A p \in Part : revisions'[p] # 0 => revisions'[p] >= revisions[p]]_vars

\* Once commits and expiries stop, the catalog becomes and stays the latest
\* unexpired inventory.
CatalogConverges ==
  <>[](\A p \in Part : catalog[p] = OffersOf(p, Latest(p)))

\* Queries whose answer the revision of a page fixes.
Pinned(q) == q.by = "id" \/ (q.by = "any" /\ q.avail = "available")

\* inspect: pages that all carry the same revision together miss nothing that met
\* the query throughout and hold nothing that never did, although other commits
\* change what "all" and a source id mean between the pages.  A query for the
\* available identities, or for one identity, is answered by exactly what the
\* revision lists.
PagesAddUp ==
  reader.pc = "end" =>
    /\ matched.always \subseteq reader.got /\ reader.got \subseteq matched.ever
    /\ Pinned(reader.query) =>
         reader.got = Listing(reader.pins) \cap Named(reader.query, alias)

\* Claimed by inventory_identity_page ("from only the selected latest snapshots",
\* platform_store.py:994) and inventory_inspection ("one chosen snapshot view",
\* platform_store.py:927), and violated for "all": what pages of one revision hold
\* was there when that revision was first read.
RevisionFixesPages ==
  reader.pc = "end" => reader.got \subseteq matched.always
=============================================================================
