-------------------------- MODULE CatalogAdoption ---------------------------
(***************************************************************************)
(* Adopted models and catalog freshness (routes/admin_catalog_adoptions.py, *)
(* freshness.py, auth/policies.py).  Admins add models of a provider's     *)
(* library to their scope's catalog, accept price changes and remove       *)
(* models; freshness passes, the daily one of each replica and "check      *)
(* now", snapshot the library and adopt what is new.  Nothing locks: every *)
(* handler reads, awaits and writes, and the write is an upsert.           *)
(*                                                                         *)
(* One scope and one provider.  A listing is the price of a model, NoPrice *)
(* (a library without prices) or Gone.  An id is a <<name, n>>: n = 1 is   *)
(* the suggestion for the name, higher n its numeric suffix.  An admin     *)
(* request is its job, its place in the handler and what it has read so    *)
(* far; a pass also its `now`, the time run_freshness stamps rows with.    *)
(* published, alone and clean are history: what the provider ever listed,  *)
(* the pass that runs and no other overlapped so far, and the library that *)
(* such a pass fetched, from its end to the start of the next pass.        *)
(***************************************************************************)
EXTENDS Naturals, FiniteSets

CONSTANTS
  Slug,          \* models of the provider's library
  LocalModel,    \* names of models on local servers
  NameOf,        \* last segment of a slug or local name
  Price,         \* per-1k prices; an odd one of OpenRouter reads as 0
  FirstLibrary,  \* the libraries a history may start with
  BadName,       \* names the tier-word, retired-id and prefix guards refuse
  Base,          \* ids of the shipped catalog
  MaxSuffix,     \* bound on the numeric suffixes
  Req,           \* admin requests
  JobsOf,        \* what each may ask for
  Pass,          \* freshness passes
  Change,        \* changes <<slug, listing>> the provider may make
  MaxChanges,    \* bound on them and on changes of the toggle
  Gone, NoPrice, NoId, NoRow

Id == {<<NameOf[m], n>> : m \in Slug \cup LocalModel, n \in 1..MaxSuffix}
        \cup {<<b, 1>> : b \in BadName}
Listing == Price \cup {Gone, NoPrice}

ASSUME AdoptionAssumption ==
  /\ {Gone, NoPrice} \cap Price = {} /\ Gone # NoPrice
  /\ Slug \cap LocalModel = {}
  /\ FirstLibrary \subseteq [Slug -> Listing]
  /\ Change \subseteq Slug \X Listing
  /\ NoRow \notin [price : Listing, seen : Nat]
  /\ \A r \in Req : \A j \in JobsOf[r] :
       DOMAIN j = {"kind", "on", "id"} /\ (j.kind = "local" => j.on \in LocalModel)

VARIABLES upstream,   \* the provider's library
          changes,    \* how often it or the toggle changed
          published,
          snap,       \* table catalog_snapshots
          auto,       \* table catalog_provider_prefs
          rows,       \* table catalog_adoptions
          req, pass,
          clock,      \* passes begun
          alone, clean

vars == <<upstream, changes, published, snap, auto, rows, req, pass, clock, alone, clean>>

Asked(j) == [pc |-> "start", job |-> j, price |-> 0, id |-> NoId]
Nothing == [s \in Slug |-> Gone]
Idle == [pc |-> "idle", now |-> 0, got |-> Nothing, todo |-> {}, taken |-> {}]

Init ==
  /\ upstream \in FirstLibrary /\ changes = 0
  /\ published = {<<s, upstream[s]>> : s \in Slug}
  /\ snap = [s \in Slug |-> NoRow]
  /\ auto \in BOOLEAN
  /\ rows = [i \in Id |-> NoRow]
  /\ req \in {[r \in Req |-> Asked(f[r])] : f \in
                {g \in [Req -> UNION {JobsOf[r] : r \in Req}] :
                   \A r \in Req : g[r] \in JobsOf[r]}}
  /\ pass = [p \in Pass |-> Idle]
  /\ clock = 0 /\ alone = {} /\ clean = Nothing

-----------------------------------------------------------------------------
\* The provider adds, reprices or withdraws a model.
ProviderChanges ==
  /\ changes < MaxChanges /\ changes' = changes + 1
  /\ \E c \in Change :
       /\ upstream' = [upstream EXCEPT ![c[1]] = c[2]]
       /\ published' = published \cup {c}
  /\ UNCHANGED <<snap, auto, rows, req, pass, clock, alone, clean>>

\* A fetch of the library: the listed models.
Library == {s \in Slug : upstream[s] # Gone}

Exists(i) == rows[i] # NoRow
Adopted == {i \in Id : Exists(i)}

\* _materialize: a missing price becomes 0.
Row(m, l) == [of |-> m, price |-> IF l \in Price THEN l ELSE 0]

\* add_adoption: one upsert of the whole row.
AddAdoption(i, row) == rows' = [rows EXCEPT ![i] = row]

\* _suggested_id: the name, or the first numeric suffix that is free.
Suggested(name, taken) ==
  <<name, CHOOSE n \in 1..MaxSuffix :
            /\ <<name, n>> \notin taken
            /\ \A k \in 1..(n - 1) : <<name, k>> \in taken>>

Named(i) == i[1] \notin BadName

-----------------------------------------------------------------------------
\* Admin requests.
At(r, kind, pc) == req[r].job.kind = kind /\ req[r].pc = pc
Answer(r) == req' = [req EXCEPT ![r] = [Asked(req[r].job) EXCEPT !.pc = "answered"]]

\* adopt -> _discovery_row: the facts come from the provider's library now; an
\* unreachable provider or an unknown slug is refused.
DiscoveryRow(r) ==
  /\ At(r, "adopt", "start")
  /\ \/ /\ req[r].job.on \in Library
        /\ req' = [req EXCEPT ![r].pc = "read",
                              ![r].price = upstream[req[r].job.on]]
     \/ Answer(r)
  /\ UNCHANGED <<upstream, changes, published, snap, auto, rows, pass, clock, alone, clean>>

SameSlug(m) == {i \in Adopted : rows[i].of = m}

\* The rest of adopt up to the write, on one read of the scope's rows: the same
\* model again is a no-op; an id of the shipped catalog, of another adopted
\* model or against the naming rules is refused.
AdoptDecides(r) ==
  /\ At(r, "adopt", "read")
  /\ LET j == req[r].job
         id == IF j.id # NoId THEN j.id
               ELSE Suggested(NameOf[j.on], Base \cup Adopted)
         same == SameSlug(j.on)
     IN  \/ /\ same # {} /\ (j.id = NoId \/ j.id \in same)
            /\ Answer(r)
         \/ /\ same = {} \/ (j.id # NoId /\ j.id \notin same)
            /\ IF id \in Base \cup Adopted \/ ~Named(id)
               THEN Answer(r)
               ELSE req' = [req EXCEPT ![r].pc = "write", ![r].id = id]
  /\ UNCHANGED <<upstream, changes, published, snap, auto, rows, pass, clock, alone, clean>>

AdoptWrites(r) ==
  /\ At(r, "adopt", "write")
  /\ AddAdoption(req[r].id, Row(req[r].job.on, req[r].price))
  /\ Answer(r)
  /\ UNCHANGED <<upstream, changes, published, snap, auto, pass, clock, alone, clean>>

\* add_local_model: the caller's own server, free of charge.
LocalDecides(r) ==
  /\ At(r, "local", "start")
  /\ LET id == Suggested(NameOf[req[r].job.on], Base \cup Adopted)
     IN  IF Named(id) THEN req' = [req EXCEPT ![r].pc = "write", ![r].id = id]
                      ELSE Answer(r)
  /\ UNCHANGED <<upstream, changes, published, snap, auto, rows, pass, clock, alone, clean>>

LocalWrites(r) ==
  /\ At(r, "local", "write")
  /\ AddAdoption(req[r].id, Row(req[r].job.on, NoPrice))
  /\ Answer(r)
  /\ UNCHANGED <<upstream, changes, published, snap, auto, pass, clock, alone, clean>>

\* accept_price reads the adoption, ...
AcceptReads(r) ==
  /\ At(r, "accept", "start")
  /\ LET i == req[r].job.id
     IN  IF Exists(i)
         THEN req' = [req EXCEPT ![r].pc = "price", ![r].id = i,
                                 ![r].job.on = rows[i].of]
         ELSE Answer(r)
  /\ UNCHANGED <<upstream, changes, published, snap, auto, rows, pass, clock, alone, clean>>

\* ... the snapshot of the model it stands for, ...
AcceptLooksUp(r) ==
  /\ At(r, "accept", "price")
  /\ LET m == req[r].job.on
     IN  IF m \in Slug /\ snap[m] # NoRow /\ snap[m].price \in Price
         THEN req' = [req EXCEPT ![r].pc = "write", ![r].price = snap[m].price]
         ELSE Answer(r)
  /\ UNCHANGED <<upstream, changes, published, snap, auto, rows, pass, clock, alone, clean>>

\* Mutant: only the price of the stored row is rewritten.
AcceptWritesPrice(r) ==
  /\ At(r, "accept", "write")
  /\ LET i == req[r].id
     IN  rows' = IF Exists(i) THEN [rows EXCEPT ![i].price = req[r].price] ELSE rows
  /\ Answer(r)
  /\ UNCHANGED <<upstream, changes, published, snap, auto, pass, clock, alone, clean>>

\* ... and writes back the row it read with that price.
AcceptWrites(r) ==
  /\ At(r, "accept", "write")
  /\ AddAdoption(req[r].id, Row(req[r].job.on, req[r].price))
  /\ Answer(r)
  /\ UNCHANGED <<upstream, changes, published, snap, auto, pass, clock, alone, clean>>

\* unadopt -> remove_adoption: a SELECT, then the DELETE.
UnadoptReads(r) ==
  /\ At(r, "unadopt", "start")
  /\ IF Exists(req[r].job.id) THEN req' = [req EXCEPT ![r].pc = "write"]
                              ELSE Answer(r)
  /\ UNCHANGED <<upstream, changes, published, snap, auto, rows, pass, clock, alone, clean>>

UnadoptDeletes(r) ==
  /\ At(r, "unadopt", "write")
  /\ rows' = [rows EXCEPT ![req[r].job.id] = NoRow]
  /\ Answer(r)
  /\ UNCHANGED <<upstream, changes, published, snap, auto, pass, clock, alone, clean>>

SetAutoAdopt ==
  /\ changes < MaxChanges /\ changes' = changes + 1
  /\ auto' = ~auto
  /\ UNCHANGED <<upstream, published, snap, rows, req, pass, clock, alone, clean>>

-----------------------------------------------------------------------------
\* Freshness passes.
Active(p) == pass[p].pc \notin {"idle", "ended"}
Over == [Idle EXCEPT !.pc = "ended"]

PassGoes(p, next) ==
  /\ pass' = [pass EXCEPT ![p] = next]
  /\ clean' = IF next = Over /\ p \in alone THEN pass[p].got ELSE clean
  /\ alone' = IF next = Over THEN alone \ {p} ELSE alone

\* run_freshness takes its time before it fetches.  The clocks of the replicas
\* agree: who begins later has the later time.
PassBegins(p) ==
  /\ pass[p].pc = "idle"
  /\ clock' = clock + 1
  /\ pass' = [pass EXCEPT ![p].pc = "fetch", ![p].now = clock + 1]
  /\ alone' = IF \E q \in Pass : Active(q) THEN {} ELSE {p}
  /\ clean' = Nothing
  /\ UNCHANGED <<upstream, changes, published, snap, auto, rows, req>>

\* _fetch_provider: nothing listed (or no key) leaves the snapshot as it is.
PassFetches(p) ==
  /\ pass[p].pc = "fetch"
  /\ PassGoes(p, IF Library = {} THEN Over
                 ELSE [pass[p] EXCEPT !.pc = "diff", !.got = upstream])
  /\ UNCHANGED <<upstream, changes, published, snap, auto, rows, req, clock>>

Seen(p) == {s \in Slug : pass[p].got[s] # Gone}

\* snapshot_diff: taken keeps the added slugs until the upserts are done.
PassDiffs(p) ==
  /\ pass[p].pc = "diff"
  /\ PassGoes(p, [pass[p] EXCEPT !.pc = "upsert", !.todo = Seen(p),
                                 !.taken = {s \in Seen(p) : snap[s] = NoRow}])
  /\ UNCHANGED <<upstream, changes, published, snap, auto, rows, req, clock>>

\* Mutant: last_seen, like first_seen, stays on conflict.
SnapshotRowFirst(s, l, now) ==
  [price |-> l, seen |-> IF snap[s] = NoRow THEN now ELSE snap[s].seen]

\* upsert_snapshot: price and last_seen move to the pass's.
SnapshotRow(s, l, now) == [price |-> l, seen |-> now]

PassUpserts(p) ==
  /\ pass[p].pc = "upsert"
  /\ \E s \in pass[p].todo :
       /\ snap' = [snap EXCEPT ![s] = SnapshotRow(s, pass[p].got[s], pass[p].now)]
       /\ PassGoes(p,
            IF pass[p].todo # {s} THEN [pass[p] EXCEPT !.todo = @ \ {s}]
            ELSE IF pass[p].taken # {} THEN [pass[p] EXCEPT !.todo = {}, !.pc = "toggle"]
            ELSE Over)
  /\ UNCHANGED <<upstream, changes, published, auto, rows, req, clock>>

\* get_auto_adopt, read once the snapshot is stored.
PassReadsToggle(p) ==
  /\ pass[p].pc = "toggle"
  /\ PassGoes(p, IF auto THEN [pass[p] EXCEPT !.pc = "list"] ELSE Over)
  /\ UNCHANGED <<upstream, changes, published, snap, auto, rows, req, clock>>

\* _auto_adopt reads the scope's rows once: the new slugs it has not, and the
\* ids that are taken, which the loop extends on its own.
AutoAdoptReads(p) ==
  /\ pass[p].pc = "list"
  /\ LET todo == {s \in pass[p].taken : SameSlug(s) = {}}
     IN  PassGoes(p, IF todo = {} THEN Over
                     ELSE [pass[p] EXCEPT !.pc = "adopt", !.todo = todo,
                                          !.taken = Base \cup Adopted])
  /\ UNCHANGED <<upstream, changes, published, snap, auto, rows, req, clock>>

AutoAdopts(p) ==
  /\ pass[p].pc = "adopt"
  /\ \E s \in pass[p].todo :
       LET id == Suggested(NameOf[s], pass[p].taken)
       IN  /\ IF Named(id) THEN AddAdoption(id, Row(s, pass[p].got[s]))
                           ELSE UNCHANGED rows
           /\ PassGoes(p, IF pass[p].todo = {s} THEN Over
                          ELSE [pass[p] EXCEPT !.todo = @ \ {s},
                                  !.taken = IF Named(id) THEN @ \cup {id} ELSE @])
  /\ UNCHANGED <<upstream, changes, published, snap, auto, req, clock>>

\* A failed fetch or statement, or the end of the process, ends the pass where
\* it is; what it wrote stays.
PassFails(p) ==
  /\ Active(p)
  /\ pass' = [pass EXCEPT ![p] = Over]
  /\ alone' = alone \ {p}
  /\ UNCHANGED <<upstream, changes, published, snap, auto, rows, req, clock, clean>>

ReqStep(r) ==
  \/ DiscoveryRow(r) \/ AdoptDecides(r) \/ AdoptWrites(r)
  \/ LocalDecides(r) \/ LocalWrites(r)
  \/ AcceptReads(r) \/ AcceptLooksUp(r) \/ AcceptWrites(r)
  \/ UnadoptReads(r) \/ UnadoptDeletes(r)

PassStep(p) ==
  \/ PassBegins(p) \/ PassFetches(p) \/ PassDiffs(p) \/ PassUpserts(p)
  \/ PassReadsToggle(p) \/ AutoAdoptReads(p) \/ AutoAdopts(p) \/ PassFails(p)

Next ==
  \/ ProviderChanges \/ SetAutoAdopt
  \/ \E r \in Req : ReqStep(r)
  \/ \E p \in Pass : PassStep(p)

Spec == Init /\ [][Next]_vars

-----------------------------------------------------------------------------
\* effective_catalog: adopted entries beside the shipped ones, which win.
Effective == Adopted \ Base

\* provider_checked_at and adopted_flags: what the console shows for a row.
CheckedAt(s) == \A t \in Slug : snap[t] # NoRow => snap[t].seen <= snap[s].seen
UpstreamRemoved(i) ==
  rows[i].of \in Slug /\ snap[rows[i].of] # NoRow /\ ~CheckedAt(rows[i].of)
PriceDrift(i) ==
  /\ rows[i].of \in Slug /\ snap[rows[i].of] # NoRow /\ ~UpstreamRemoved(i)
  /\ snap[rows[i].of].price \in Price
  /\ snap[rows[i].of].price # rows[i].price

\* Every adopted model that can be routed to has a clean id and a price its own
\* provider published for the very model it dispatches to, whatever adoptions,
\* removals, accepted prices and freshness passes interleave with.
AdoptionHonest ==
  \A i \in Effective :
    /\ Named(i)
    /\ IF rows[i].of \in Slug
       THEN \E l \in Listing \ {Gone} : /\ <<rows[i].of, l>> \in published
                                        /\ rows[i] = Row(rows[i].of, l)
       ELSE rows[i].price = 0

\* A pass that no other overlapped leaves the flags right about what it fetched,
\* however torn the snapshot was before: a model is shown as removed exactly if
\* it was known and is not listed, and its price as changed exactly if the
\* listed price is not the adopted one.
PassSettlesFlags ==
  clean # Nothing =>
    \A i \in Adopted : rows[i].of \in Slug =>
      LET l == clean[rows[i].of]
      IN  /\ UpstreamRemoved(i) <=> l = Gone /\ snap[rows[i].of] # NoRow
          /\ PriceDrift(i) <=> l \in Price /\ l # rows[i].price

\* adopt: an id "already adopted to a different model" is refused because it
\* "would silently repoint".
IdNeverRepoints ==
  [][\A i \in Id : Exists(i) /\ rows'[i] # NoRow => rows'[i].of = rows[i].of]_vars

\* adopted_flags: upstream_removed says that the slug is "no longer returned
\* upstream": not so of a model that the provider has listed all along.
RemovedMeansUnlisted ==
  (\A p \in Pass : ~Active(p)) =>
    \A i \in Adopted : UpstreamRemoved(i) => <<rows[i].of, Gone>> \in published
=============================================================================
