---------------------------- MODULE CatalogProofs ----------------------------
(***************************************************************************)
(* Adopted models and freshness, for any library, any number of requests   *)
(* and passes, any jobs and any changes of the provider.                   *)
(***************************************************************************)
EXTENDS CatalogAdoption, TLAPS

\* The provider once listed model s as l.
Listed(s, l) == <<s, l>> \in published /\ l \in Listing \ {Gone}

\* A row under id i is one that AdoptionHonest lets be there.
HonestAt(i, row) ==
  /\ Named(i)
  /\ IF row.of \in Slug
     THEN \E l \in Listing \ {Gone} : /\ <<row.of, l>> \in published
                                      /\ row = Row(row.of, l)
     ELSE row.price = 0

\* What a request holds between two awaits: a listed model and price, and an
\* id that passed the naming rules - itself, or the row it was read from.
ReqOk(q) ==
  /\ DOMAIN q = {"pc", "job", "price", "id"} /\ DOMAIN q.job = {"kind", "on", "id"}
  /\ q.job.kind = "local" => q.job.on \in LocalModel
  /\ q.job.kind = "adopt" /\ q.pc \in {"read", "write"} =>
       q.job.on \in Slug /\ Listed(q.job.on, q.price)
  /\ q.job.kind \in {"adopt", "local"} /\ q.pc = "write" => Named(q.id)
  /\ q.job.kind = "accept" /\ q.pc \in {"price", "write"} /\ q.id \in Id =>
       Named(q.id) \/ q.id \in Base
  /\ q.job.kind = "accept" /\ q.pc = "write" =>
       q.job.on \in Slug /\ Listed(q.job.on, q.price)

\* A snapshot row is a listing some pass fetched.
SnapOk(s) ==
  snap[s] # NoRow => /\ Listed(s, snap[s].price)
                     /\ snap[s].seen \in Nat /\ snap[s].seen <= clock

Working == {"fetch", "diff", "upsert", "toggle", "list", "adopt"}

\* What a pass holds is what it fetched.
PassOk(q) ==
  /\ DOMAIN q = {"pc", "now", "got", "todo", "taken"}
  /\ q.pc \in Working \cup {"idle", "ended"}
  /\ q.got \in [Slug -> Listing] /\ \A s \in Slug : q.got[s] # Gone => Listed(s, q.got[s])
  /\ q.pc \in {"idle", "fetch", "ended"} => q.got = Nothing
  /\ q.pc \in Working => q.now \in Nat /\ q.now <= clock
  /\ q.pc \in {"upsert", "adopt"} => q.todo \subseteq {s \in Slug : q.got[s] # Gone}
  /\ q.pc \in {"upsert", "toggle", "list"} => q.taken \subseteq {s \in Slug : q.got[s] # Gone}

\* Model s was stored by the newest pass as l, or not by it.
Stored(s, l) == snap[s] = [price |-> l, seen |-> clock]
Older(s) == snap[s] = NoRow \/ snap[s].seen < clock

\* Where a pass that runs alone is in the snapshot.
Stands(q) ==
  /\ q.now = clock
  /\ q.pc \in {"fetch", "diff"} => \A s \in Slug : Older(s)
  /\ q.pc = "upsert" => \A s \in Slug :
       IF q.got[s] # Gone /\ s \notin q.todo THEN Stored(s, q.got[s]) ELSE Older(s)
  /\ q.pc \in {"toggle", "list", "adopt"} => \A s \in Slug :
       IF q.got[s] # Gone THEN Stored(s, q.got[s]) ELSE Older(s)

LoneOk ==
  \A p \in alone : /\ p \in Pass /\ Active(p) /\ Stands(pass[p])
                   /\ \A q \in Pass : Active(q) => q = p

CleanOk ==
  clean # Nothing =>
    /\ clean \in [Slug -> Listing] /\ \A p \in Pass : ~Active(p)
    /\ \A s \in Slug : IF clean[s] # Gone THEN Stored(s, clean[s]) ELSE Older(s)

Tables ==
  /\ upstream \in [Slug -> Listing] /\ \A s \in Slug : <<s, upstream[s]>> \in published
  /\ DOMAIN snap = Slug /\ DOMAIN rows = Id /\ DOMAIN req = Req /\ DOMAIN pass = Pass
  /\ clock \in Nat

IInv ==
  /\ Tables /\ AdoptionHonest /\ LoneOk /\ CleanOk
  /\ \A r \in Req : ReqOk(req[r])
  /\ \A s \in Slug : SnapOk(s)
  /\ \A p \in Pass : PassOk(pass[p])

-----------------------------------------------------------------------------
\* Rows.

LEMMA HonestIs ==
  AdoptionHonest <=> \A i \in Id : rows[i] # NoRow /\ i \notin Base => HonestAt(i, rows[i])
BY DEF AdoptionHonest, Effective, Adopted, Exists, HonestAt

\* _materialize: the row of a listed model under a clean id.
LEMMA RowHonest ==
  ASSUME NEW i, Named(i), NEW m \in Slug, NEW l, Listed(m, l)
  PROVE  HonestAt(i, Row(m, l))
<1>1. Row(m, l).of = m BY DEF Row
<1> QED BY <1>1 DEF HonestAt, Listed

\* add_local_model: a local model is free.
LEMMA LocalHonest ==
  ASSUME NEW i, Named(i), NEW m \in LocalModel
  PROVE  HonestAt(i, Row(m, NoPrice))
<1>1. Row(m, NoPrice).of = m /\ Row(m, NoPrice).price = 0 BY AdoptionAssumption DEF Row
<1>2. m \notin Slug BY AdoptionAssumption
<1> QED BY <1>1, <1>2 DEF HonestAt

\* add_adoption of an honest row.
LEMMA WritesHonest ==
  ASSUME IInv, published' = published, NEW i, NEW row, rows' = [rows EXCEPT ![i] = row],
         row # NoRow /\ i \in Id /\ i \notin Base => HonestAt(i, row)
  PROVE  AdoptionHonest' /\ DOMAIN rows' = Id
<1>1. DOMAIN rows = Id BY DEF IInv, Tables
<1>2. DOMAIN rows' = Id /\ \A k \in Id : rows'[k] = IF k = i THEN row ELSE rows[k] BY <1>1
<1>3. ASSUME NEW k \in Id, rows'[k] # NoRow, k \notin Base PROVE HonestAt(k, rows[k])'
  <2>1. PICK x : x = rows'[k] OBVIOUS
  <2>2. HonestAt(k, x)
    <3>1. CASE k = i BY <1>2, <1>3, <2>1, <3>1
    <3>2. CASE k # i
      <4>1. \A j \in Id : rows[j] # NoRow /\ j \notin Base => HonestAt(j, rows[j])
        BY HonestIs DEF IInv
      <4> QED BY <1>2, <1>3, <2>1, <3>2, <4>1
    <3> QED BY <3>1, <3>2
  <2>3. HonestAt(k, x)' BY <2>2 DEF HonestAt
  <2> QED BY <2>1, <2>3
<1>4. (\A k \in Id : rows[k] # NoRow /\ k \notin Base => HonestAt(k, rows[k]))' BY <1>3
<1>5. AdoptionHonest' BY <1>4 DEF AdoptionHonest, Effective, Adopted, Exists, HonestAt
<1> QED BY <1>2, <1>5

-----------------------------------------------------------------------------
\* The steps of a request.

\* One request moves; the snapshot and the passes stay.
LEMMA StepReq ==
  ASSUME IInv, NEW r \in Req, NEW n, req' = [req EXCEPT ![r] = n], ReqOk(n),
         AdoptionHonest', DOMAIN rows' = Id,
         UNCHANGED <<upstream, changes, published, snap, auto, pass, clock, alone, clean>>
  PROVE  IInv'
<1>1. DOMAIN req' = Req /\ \A k \in Req : req'[k] = IF k = r THEN n ELSE req[k]
  BY DEF IInv, Tables
<1>2. ASSUME NEW k \in Req PROVE ReqOk(req[k])'
  <2>1. PICK x : x = req'[k] OBVIOUS
  <2>2. ReqOk(x) BY <1>1, <2>1 DEF IInv
  <2>3. ReqOk(x)' BY <2>2 DEF ReqOk, Listed
  <2> QED BY <2>1, <2>3
<1>3. Tables' BY <1>1 DEF IInv, Tables
<1>4. LoneOk' BY DEF IInv, LoneOk, Active, Stands, Older, Stored
<1>5. CleanOk' BY DEF IInv, CleanOk, Active, Older, Stored
<1>6. \A s \in Slug : SnapOk(s)' BY DEF IInv, SnapOk, Listed
<1>7. \A p \in Pass : PassOk(pass[p])' BY DEF IInv, PassOk, Listed
<1> QED BY <1>2, <1>3, <1>4, <1>5, <1>6, <1>7 DEF IInv

\* The same for a step that writes no row.
LEMMA ReqMoves ==
  ASSUME IInv, NEW r \in Req, NEW n, req' = [req EXCEPT ![r] = n], ReqOk(n),
         UNCHANGED <<upstream, changes, published, snap, auto, rows, pass, clock, alone, clean>>
  PROVE  IInv'
<1>1. AdoptionHonest' /\ DOMAIN rows' = Id
  BY DEF IInv, Tables, AdoptionHonest, Effective, Adopted, Exists
<1> QED BY <1>1, StepReq

\* What a request is.
LEMMA ReqIs ==
  ASSUME IInv, NEW r \in Req
  PROVE  /\ ReqOk(req[r]) /\ DOMAIN req[r] = {"pc", "job", "price", "id"}
         /\ DOMAIN req[r].job = {"kind", "on", "id"} /\ DOMAIN req = Req
BY DEF IInv, Tables, ReqOk

\* A request that was answered holds nothing.
LEMMA AnswerIs ==
  ASSUME IInv, NEW r \in Req, Answer(r)
  PROVE  \E n : req' = [req EXCEPT ![r] = n] /\ ReqOk(n)
<1>1. PICK j : j = req[r].job OBVIOUS
<1>2. PICK n : n = [Asked(j) EXCEPT !.pc = "answered"] OBVIOUS
<1>3. /\ DOMAIN n = {"pc", "job", "price", "id"} /\ n.pc = "answered" /\ n.job = j
  BY <1>2 DEF Asked
<1>4. ReqOk(n) BY <1>1, <1>3, ReqIs DEF ReqOk
<1> QED BY <1>1, <1>2, <1>4 DEF Answer

LEMMA AnswerKeeps ==
  ASSUME IInv, NEW r \in Req, Answer(r),
         UNCHANGED <<upstream, changes, published, snap, auto, rows, pass, clock, alone, clean>>
  PROVE  IInv'
BY AnswerIs, ReqMoves

LEMMA AnswerWrites ==
  ASSUME IInv, NEW r \in Req, Answer(r), AdoptionHonest', DOMAIN rows' = Id,
         UNCHANGED <<upstream, changes, published, snap, auto, pass, clock, alone, clean>>
  PROVE  IInv'
BY AnswerIs, StepReq

\* _discovery_row reads a listed price.
LEMMA DiscoveryRowKeeps ==
  ASSUME IInv, NEW r \in Req, DiscoveryRow(r)
  PROVE  IInv'
<1>1. UNCHANGED <<upstream, changes, published, snap, auto, rows, pass, clock, alone, clean>>
      /\ req[r].job.kind = "adopt"
  BY DEF DiscoveryRow, At
<1>2. CASE /\ req[r].job.on \in Library
           /\ req' = [req EXCEPT ![r].pc = "read", ![r].price = upstream[req[r].job.on]]
  <2>1. PICK m : m = req[r].job.on OBVIOUS
  <2>2. PICK n : n = [req[r] EXCEPT !.pc = "read", !.price = upstream[m]] OBVIOUS
  <2>3. m \in Slug /\ Listed(m, upstream[m])
    BY <1>2, <2>1 DEF Library, Listed, IInv, Tables
  <2>4. /\ DOMAIN n = {"pc", "job", "price", "id"} /\ n.pc = "read" /\ n.job = req[r].job
        /\ n.price = upstream[m]
    BY <2>2, ReqIs
  <2>5. ReqOk(n) BY <1>1, <2>1, <2>3, <2>4, ReqIs DEF ReqOk
  <2>6. req' = [req EXCEPT ![r] = n] BY <1>2, <2>1, <2>2
  <2> QED BY <1>1, <2>5, <2>6, ReqMoves
<1>3. CASE Answer(r) BY <1>1, <1>3, AnswerKeeps
<1> QED BY <1>2, <1>3 DEF DiscoveryRow

\* adopt refuses a name against the rules before it writes.
LEMMA AdoptDecidesKeeps ==
  ASSUME IInv, NEW r \in Req, AdoptDecides(r)
  PROVE  IInv'
<1>1. /\ UNCHANGED <<upstream, changes, published, snap, auto, rows, pass, clock, alone, clean>>
      /\ req[r].job.kind = "adopt" /\ req[r].pc = "read"
  BY DEF AdoptDecides, At
<1>2. Answer(r) \/ \E id : Named(id) /\ req' = [req EXCEPT ![r].pc = "write", ![r].id = id]
  BY DEF AdoptDecides
<1>3. CASE Answer(r) BY <1>1, <1>3, AnswerKeeps
<1>4. ASSUME NEW id, Named(id), req' = [req EXCEPT ![r].pc = "write", ![r].id = id]
      PROVE  IInv'
  <2>1. PICK n : n = [req[r] EXCEPT !.pc = "write", !.id = id] OBVIOUS
  <2>2. /\ DOMAIN n = {"pc", "job", "price", "id"} /\ n.pc = "write" /\ n.job = req[r].job
        /\ n.price = req[r].price /\ n.id = id
    BY <2>1, ReqIs
  <2>3. ReqOk(n) BY <1>1, <1>4, <2>2, ReqIs DEF ReqOk
  <2>4. req' = [req EXCEPT ![r] = n] BY <1>4, <2>1
  <2> QED BY <1>1, <2>3, <2>4, ReqMoves
<1> QED BY <1>2, <1>3, <1>4

LEMMA AdoptWritesKeeps ==
  ASSUME IInv, NEW r \in Req, AdoptWrites(r)
  PROVE  IInv'
<1>1. /\ UNCHANGED <<upstream, changes, published, snap, auto, pass, clock, alone, clean>>
      /\ req[r].job.kind = "adopt" /\ req[r].pc = "write" /\ Answer(r)
      /\ rows' = [rows EXCEPT ![req[r].id] = Row(req[r].job.on, req[r].price)]
  BY DEF AdoptWrites, At, AddAdoption
<1>2. PICK i, m, l : i = req[r].id /\ m = req[r].job.on /\ l = req[r].price OBVIOUS
<1>3. Named(i) /\ m \in Slug /\ Listed(m, l) BY <1>1, <1>2, ReqIs DEF ReqOk
<1>4. PICK row : row = Row(m, l) OBVIOUS
<1>5. HonestAt(i, row) BY <1>3, <1>4, RowHonest
<1>6. AdoptionHonest' /\ DOMAIN rows' = Id BY <1>1, <1>2, <1>4, <1>5, WritesHonest
<1> QED BY <1>1, <1>6, AnswerWrites

LEMMA LocalDecidesKeeps ==
  ASSUME IInv, NEW r \in Req, LocalDecides(r)
  PROVE  IInv'
<1>1. /\ UNCHANGED <<upstream, changes, published, snap, auto, rows, pass, clock, alone, clean>>
      /\ req[r].job.kind = "local"
  BY DEF LocalDecides, At
<1>2. Answer(r) \/ \E id : Named(id) /\ req' = [req EXCEPT ![r].pc = "write", ![r].id = id]
  BY DEF LocalDecides
<1>3. CASE Answer(r) BY <1>1, <1>3, AnswerKeeps
<1>4. ASSUME NEW id, Named(id), req' = [req EXCEPT ![r].pc = "write", ![r].id = id]
      PROVE  IInv'
  <2>1. PICK n : n = [req[r] EXCEPT !.pc = "write", !.id = id] OBVIOUS
  <2>2. /\ DOMAIN n = {"pc", "job", "price", "id"} /\ n.pc = "write" /\ n.job = req[r].job
        /\ n.id = id
    BY <2>1, ReqIs
  <2>3. ReqOk(n) BY <1>1, <1>4, <2>2, ReqIs DEF ReqOk
  <2>4. req' = [req EXCEPT ![r] = n] BY <1>4, <2>1
  <2> QED BY <1>1, <2>3, <2>4, ReqMoves
<1> QED BY <1>2, <1>3, <1>4

LEMMA LocalWritesKeeps ==
  ASSUME IInv, NEW r \in Req, LocalWrites(r)
  PROVE  IInv'
<1>1. /\ UNCHANGED <<upstream, changes, published, snap, auto, pass, clock, alone, clean>>
      /\ req[r].job.kind = "local" /\ req[r].pc = "write" /\ Answer(r)
      /\ rows' = [rows EXCEPT ![req[r].id] = Row(req[r].job.on, NoPrice)]
  BY DEF LocalWrites, At, AddAdoption
<1>2. PICK i, m : i = req[r].id /\ m = req[r].job.on OBVIOUS
<1>3. Named(i) /\ m \in LocalModel BY <1>1, <1>2, ReqIs DEF ReqOk
<1>4. PICK row : row = Row(m, NoPrice) OBVIOUS
<1>5. HonestAt(i, row) BY <1>3, <1>4, LocalHonest
<1>6. AdoptionHonest' /\ DOMAIN rows' = Id BY <1>1, <1>2, <1>4, <1>5, WritesHonest
<1> QED BY <1>1, <1>6, AnswerWrites

\* accept_price works on a row that was honest when it was read.
LEMMA AcceptReadsKeeps ==
  ASSUME IInv, NEW r \in Req, AcceptReads(r)
  PROVE  IInv'
<1>1. /\ UNCHANGED <<upstream, changes, published, snap, auto, rows, pass, clock, alone, clean>>
      /\ req[r].job.kind = "accept"
  BY DEF AcceptReads, At
<1>2. PICK i : i = req[r].job.id OBVIOUS
<1>3. CASE Answer(r) BY <1>1, <1>3, AnswerKeeps
<1>4. CASE /\ Exists(i)
           /\ req' = [req EXCEPT ![r].pc = "price", ![r].id = i, ![r].job.on = rows[i].of]
  <2>1. PICK j : j = [req[r].job EXCEPT !.on = rows[i].of] OBVIOUS
  <2>2. DOMAIN j = {"kind", "on", "id"} /\ j.kind = "accept" BY <1>1, <2>1, ReqIs
  <2>3. PICK n : n = [req[r] EXCEPT !.pc = "price", !.id = i, !.job = j] OBVIOUS
  <2>4. /\ DOMAIN n = {"pc", "job", "price", "id"} /\ n.pc = "price" /\ n.job = j
        /\ n.id = i
    BY <2>3, ReqIs
  <2>5. i \in Id => Named(i) \/ i \in Base
    <3>1. \A k \in Id : rows[k] # NoRow /\ k \notin Base => HonestAt(k, rows[k])
      BY HonestIs DEF IInv
    <3> QED BY <1>4, <3>1 DEF Exists, HonestAt
  <2>6. ReqOk(n) BY <2>2, <2>4, <2>5 DEF ReqOk
  <2>7. req' = [req EXCEPT ![r] = n]
    <3>1. req' = [req EXCEPT ![r] = [req[r] EXCEPT !.pc = "price", !.id = i,
                                       !.job = [req[r].job EXCEPT !.on = rows[i].of]]]
      BY <1>4, ReqIs
    <3> QED BY <2>1, <2>3, <3>1
  <2> QED BY <1>1, <2>6, <2>7, ReqMoves
<1> QED BY <1>2, <1>3, <1>4 DEF AcceptReads

LEMMA AcceptLooksUpKeeps ==
  ASSUME IInv, NEW r \in Req, AcceptLooksUp(r)
  PROVE  IInv'
<1>1. /\ UNCHANGED <<upstream, changes, published, snap, auto, rows, pass, clock, alone, clean>>
      /\ req[r].job.kind = "accept" /\ req[r].pc = "price"
  BY DEF AcceptLooksUp, At
<1>2. PICK m : m = req[r].job.on OBVIOUS
<1>3. CASE Answer(r) BY <1>1, <1>3, AnswerKeeps
<1>4. CASE /\ m \in Slug /\ snap[m] # NoRow
           /\ req' = [req EXCEPT ![r].pc = "write", ![r].price = snap[m].price]
  <2>1. PICK n : n = [req[r] EXCEPT !.pc = "write", !.price = snap[m].price] OBVIOUS
  <2>2. /\ DOMAIN n = {"pc", "job", "price", "id"} /\ n.pc = "write" /\ n.job = req[r].job
        /\ n.price = snap[m].price /\ n.id = req[r].id
    BY <2>1, ReqIs
  <2>3. Listed(m, snap[m].price) BY <1>4 DEF IInv, SnapOk
  <2>4. ReqOk(n) BY <1>1, <1>2, <1>4, <2>2, <2>3, ReqIs DEF ReqOk
  <2>5. req' = [req EXCEPT ![r] = n] BY <1>4, <2>1
  <2> QED BY <1>1, <2>4, <2>5, ReqMoves
<1> QED BY <1>2, <1>3, <1>4 DEF AcceptLooksUp

LEMMA AcceptWritesKeeps ==
  ASSUME IInv, NEW r \in Req, AcceptWrites(r)
  PROVE  IInv'
<1>1. /\ UNCHANGED <<upstream, changes, published, snap, auto, pass, clock, alone, clean>>
      /\ req[r].job.kind = "accept" /\ req[r].pc = "write" /\ Answer(r)
      /\ rows' = [rows EXCEPT ![req[r].id] = Row(req[r].job.on, req[r].price)]
  BY DEF AcceptWrites, At, AddAdoption
<1>2. PICK i, m, l : i = req[r].id /\ m = req[r].job.on /\ l = req[r].price OBVIOUS
<1>3. (i \in Id => Named(i) \/ i \in Base) /\ m \in Slug /\ Listed(m, l)
  BY <1>1, <1>2, ReqIs DEF ReqOk
<1>4. PICK row : row = Row(m, l) OBVIOUS
<1>5. i \in Id /\ i \notin Base => HonestAt(i, row) BY <1>3, <1>4, RowHonest
<1>6. AdoptionHonest' /\ DOMAIN rows' = Id BY <1>1, <1>2, <1>4, <1>5, WritesHonest
<1> QED BY <1>1, <1>6, AnswerWrites

LEMMA UnadoptKeeps ==
  ASSUME IInv, NEW r \in Req, UnadoptReads(r) \/ UnadoptDeletes(r)
  PROVE  IInv'
<1>1. CASE UnadoptReads(r)
  <2>1. /\ UNCHANGED <<upstream, changes, published, snap, auto, rows, pass, clock, alone, clean>>
        /\ req[r].job.kind = "unadopt"
        /\ Answer(r) \/ req' = [req EXCEPT ![r].pc = "write"]
    BY <1>1 DEF UnadoptReads, At
  <2>2. CASE Answer(r) BY <2>1, <2>2, AnswerKeeps
  <2>3. CASE req' = [req EXCEPT ![r].pc = "write"]
    <3>1. PICK n : n = [req[r] EXCEPT !.pc = "write"] OBVIOUS
    <3>2. DOMAIN n = {"pc", "job", "price", "id"} /\ n.pc = "write" /\ n.job = req[r].job
      BY <3>1, ReqIs
    <3>3. ReqOk(n) BY <2>1, <3>2, ReqIs DEF ReqOk
    <3>4. req' = [req EXCEPT ![r] = n] BY <2>3, <3>1
    <3> QED BY <2>1, <3>3, <3>4, ReqMoves
  <2> QED BY <2>1, <2>2, <2>3
<1>2. CASE UnadoptDeletes(r)
  <2>1. /\ UNCHANGED <<upstream, changes, published, snap, auto, pass, clock, alone, clean>>
        /\ Answer(r) /\ rows' = [rows EXCEPT ![req[r].job.id] = NoRow]
    BY <1>2 DEF UnadoptDeletes
  <2>2. PICK i, row : i = req[r].job.id /\ row = NoRow OBVIOUS
  <2>3. AdoptionHonest' /\ DOMAIN rows' = Id BY <2>1, <2>2, WritesHonest
  <2> QED BY <2>1, <2>3, AnswerWrites
<1> QED BY <1>1, <1>2

LEMMA ReqStepKeeps ==
  ASSUME IInv, NEW r \in Req, ReqStep(r)
  PROVE  IInv'
BY DiscoveryRowKeeps, AdoptDecidesKeeps, AdoptWritesKeeps, LocalDecidesKeeps, LocalWritesKeeps,
   AcceptReadsKeeps, AcceptLooksUpKeeps, AcceptWritesKeeps, UnadoptKeeps DEF ReqStep

-----------------------------------------------------------------------------
\* The steps of a pass.

\* What a pass is.
LEMMA PassIs ==
  ASSUME IInv, NEW p \in Pass
  PROVE  /\ PassOk(pass[p]) /\ DOMAIN pass = Pass
         /\ DOMAIN pass[p] = {"pc", "now", "got", "todo", "taken"}
         /\ Active(p) <=> pass[p].pc \in Working
BY DEF IInv, Tables, PassOk, Active, Working

\* A pass that is over holds nothing.
LEMMA OverIs ==
  /\ DOMAIN Over = {"pc", "now", "got", "todo", "taken"} /\ Over.pc = "ended"
  /\ Over.got = Nothing /\ Nothing \in [Slug -> Listing]
BY DEF Over, Idle, Nothing, Listing

LEMMA OverOk == PassOk(Over)
BY OverIs DEF PassOk, Working, Nothing

\* What one pass holds says nothing of the others.
LEMMA PassesOk ==
  ASSUME IInv, NEW p \in Pass, NEW n, pass' = [pass EXCEPT ![p] = n], PassOk(n),
         UNCHANGED <<published, clock>>
  PROVE  /\ \A q \in Pass : PassOk(pass[q])'
         /\ DOMAIN pass' = Pass /\ \A q \in Pass : pass'[q] = IF q = p THEN n ELSE pass[q]
<1>1. DOMAIN pass' = Pass /\ \A q \in Pass : pass'[q] = IF q = p THEN n ELSE pass[q]
  BY PassIs
<1>2. ASSUME NEW q \in Pass PROVE PassOk(pass[q])'
  <2>1. PICK x : x = pass'[q] OBVIOUS
  <2>2. PassOk(x) BY <1>1, <2>1, PassIs
  <2>3. PassOk(x)' BY <2>2 DEF PassOk, Listed
  <2> QED BY <2>1, <2>3
<1> QED BY <1>1, <1>2

\* While a pass runs, no other is alone and no result is clean.
LEMMA Runs ==
  ASSUME IInv, NEW p \in Pass, Active(p)
  PROVE  alone \subseteq {p} /\ clean = Nothing
BY DEF IInv, LoneOk, CleanOk

\* A pass goes on: it may have written snapshot or adoption rows.
LEMMA PassGoesOn ==
  ASSUME IInv, NEW p \in Pass, Active(p), NEW n, pass' = [pass EXCEPT ![p] = n],
         PassOk(n), n.pc \in Working, p \in alone => Stands(n)',
         \A s \in Slug : SnapOk(s)', DOMAIN snap' = Slug, AdoptionHonest', DOMAIN rows' = Id,
         UNCHANGED <<upstream, published, req, clock, alone, clean>>
  PROVE  IInv'
<1>1. /\ \A q \in Pass : PassOk(pass[q])'
      /\ DOMAIN pass' = Pass /\ \A q \in Pass : pass'[q] = IF q = p THEN n ELSE pass[q]
  BY PassesOk
<1>2. alone \subseteq {p} /\ clean = Nothing BY Runs
<1>3. \A q \in Pass : Active(q)' => Active(q) BY <1>1 DEF Active
<1>4. Active(p)' BY <1>1 DEF Active, Working
<1>5. LoneOk'
  <2>1. SUFFICES ASSUME p \in alone
                 PROVE  Active(p)' /\ Stands(pass[p])' /\ \A q \in Pass : Active(q)' => q = p
    BY <1>2 DEF LoneOk
  <2>2. Stands(pass[p])'
    <3>1. n = pass'[p] BY <1>1
    <3>2. Stands(n)' BY <2>1
    <3> QED BY <3>1, <3>2
  <2>3. \A q \in Pass : Active(q) => q = p BY <2>1 DEF IInv, LoneOk
  <2> QED BY <1>3, <1>4, <2>2, <2>3
<1>6. CleanOk' BY <1>2 DEF CleanOk, Nothing
<1>7. Tables' BY <1>1 DEF IInv, Tables
<1>8. \A r \in Req : ReqOk(req[r])' BY DEF IInv, ReqOk, Listed
<1> QED BY <1>1, <1>5, <1>6, <1>7, <1>8 DEF IInv

\* A pass ends: by failing, or with what it fetched stored.
LEMMA PassEnds ==
  ASSUME IInv, NEW p \in Pass, Active(p), pass' = [pass EXCEPT ![p] = Over],
         alone' = alone \ {p},
         \/ clean' = clean
         \/ /\ p \in alone /\ clean' = pass[p].got
            /\ clean' # Nothing => \A s \in Slug :
                 IF clean'[s] # Gone THEN Stored(s, clean[s])' ELSE Older(s)',
         \A s \in Slug : SnapOk(s)', DOMAIN snap' = Slug, AdoptionHonest', DOMAIN rows' = Id,
         UNCHANGED <<upstream, published, req, clock>>
  PROVE  IInv'
<1>1. PICK n : n = Over OBVIOUS
<1>2. /\ \A q \in Pass : PassOk(pass[q])'
      /\ DOMAIN pass' = Pass /\ \A q \in Pass : pass'[q] = IF q = p THEN n ELSE pass[q]
  <2>1. PassOk(n) BY <1>1, OverOk
  <2> QED BY <1>1, <2>1, PassesOk
<1>3. alone \subseteq {p} /\ clean = Nothing BY Runs
<1>4. LoneOk' BY <1>3 DEF LoneOk
<1>5. CleanOk'
  <2>1. CASE clean' = clean BY <1>3, <2>1 DEF CleanOk, Nothing
  <2>2. CASE /\ p \in alone /\ clean' = pass[p].got
             /\ clean' # Nothing => \A s \in Slug :
                  IF clean'[s] # Gone THEN Stored(s, clean[s])' ELSE Older(s)'
    <3>1. \A q \in Pass : ~Active(q)'
      <4>1. \A q \in Pass : Active(q) => q = p BY <2>2 DEF IInv, LoneOk
      <4>2. \A q \in Pass : q # p => (Active(q)' <=> Active(q)) BY <1>2 DEF Active
      <4>3. ~Active(p)' BY <1>1, <1>2, OverIs DEF Active
      <4> QED BY <4>1, <4>2, <4>3
    <3>2. clean' \in [Slug -> Listing] BY <2>2, PassIs DEF PassOk
    <3> QED BY <2>2, <3>1, <3>2 DEF CleanOk, Nothing
  <2> QED BY <2>1, <2>2
<1>6. Tables' BY <1>2 DEF IInv, Tables
<1>7. \A r \in Req : ReqOk(req[r])' BY DEF IInv, ReqOk, Listed
<1> QED BY <1>2, <1>4, <1>5, <1>6, <1>7 DEF IInv

\* The tables a step leaves as they are.
LEMMA SameSnap ==
  ASSUME IInv, UNCHANGED <<published, snap, clock>>
  PROVE  (\A s \in Slug : SnapOk(s)') /\ DOMAIN snap' = Slug
BY DEF IInv, Tables, SnapOk, Listed

LEMMA SameRows ==
  ASSUME IInv, UNCHANGED <<published, rows>>
  PROVE  AdoptionHonest' /\ DOMAIN rows' = Id
BY DEF IInv, Tables, AdoptionHonest, Effective, Adopted, Exists

\* What PassGoes says of the two ways on.
LEMMA GoesIs ==
  ASSUME NEW p, NEW n, PassGoes(p, n)
  PROVE  /\ pass' = [pass EXCEPT ![p] = n]
         /\ n.pc \in Working => UNCHANGED <<alone, clean>>
         /\ n = Over => /\ alone' = alone \ {p}
                        /\ clean' = clean \/ (p \in alone /\ clean' = pass[p].got)
BY OverIs DEF PassGoes, Working

\* run_freshness takes a time no row has yet.
LEMMA PassBeginsKeeps ==
  ASSUME IInv, NEW p \in Pass, PassBegins(p)
  PROVE  IInv'
<1>1. /\ pass[p].pc = "idle" /\ clock' = clock + 1 /\ clean' = Nothing
      /\ alone' = IF \E q \in Pass : Active(q) THEN {} ELSE {p}
      /\ UNCHANGED <<upstream, changes, published, snap, auto, rows, req>>
  BY DEF PassBegins
<1>2. clock \in Nat BY DEF IInv, Tables
<1>3. PICK n : n = [pass[p] EXCEPT !.pc = "fetch", !.now = clock + 1] OBVIOUS
<1>4. /\ DOMAIN n = {"pc", "now", "got", "todo", "taken"} /\ n.pc = "fetch"
      /\ n.now = clock + 1 /\ n.got = pass[p].got
  BY <1>3, PassIs
<1>5. pass' = [pass EXCEPT ![p] = n] BY <1>3 DEF PassBegins
<1>6. DOMAIN pass' = Pass /\ \A q \in Pass : pass'[q] = IF q = p THEN n ELSE pass[q]
  BY <1>5, PassIs
<1>7. ASSUME NEW q \in Pass PROVE PassOk(pass[q])'
  <2>1. CASE q # p
    <3>1. PICK x : x = pass[q] OBVIOUS
    <3>2. PassOk(x) BY <3>1, PassIs
    <3>3. x.pc \in Working => x.now \in Nat /\ x.now <= clock + 1 BY <1>2, <3>2 DEF PassOk
    <3>4. PassOk(x)' BY <1>1, <3>2, <3>3 DEF PassOk, Listed
    <3>5. x = pass'[q] BY <1>6, <2>1, <3>1
    <3> QED BY <3>4, <3>5
  <2>2. CASE q = p
    <3>1. n.got = Nothing BY <1>1, <1>4, PassIs DEF PassOk
    <3>2. n.now \in Nat /\ n.now <= clock' BY <1>1, <1>2, <1>4
    <3>3. PassOk(n)' BY <1>4, <3>1, <3>2, OverIs DEF PassOk, Working, Nothing
    <3>4. n = pass'[q] BY <1>6, <2>2
    <3> QED BY <3>3, <3>4
  <2> QED BY <2>1, <2>2
<1>8. ASSUME NEW s \in Slug PROVE SnapOk(s)' /\ Older(s)'
  <2>1. SnapOk(s) BY DEF IInv
  <2> QED BY <1>1, <1>2, <2>1 DEF SnapOk, Older, Listed
<1>9. LoneOk'
  <2>1. CASE \E q \in Pass : Active(q) BY <1>1, <2>1 DEF LoneOk
  <2>2. CASE ~ \E q \in Pass : Active(q)
    <3>1. alone' = {p} BY <1>1, <2>2
    <3>2. Active(p)' BY <1>4, <1>6 DEF Active
    <3>3. \A q \in Pass : Active(q)' => q = p BY <1>6, <2>2 DEF Active
    <3>4. Stands(n)' BY <1>1, <1>4, <1>8 DEF Stands
    <3>5. n = pass'[p] BY <1>6
    <3>6. Stands(pass[p])' BY <3>4, <3>5
    <3> QED BY <3>1, <3>2, <3>3, <3>6 DEF LoneOk
  <2> QED BY <2>1, <2>2
<1>10. CleanOk' BY <1>1 DEF CleanOk, Nothing
<1>11. Tables' BY <1>1, <1>2, <1>6 DEF IInv, Tables
<1>12. AdoptionHonest' BY <1>1, SameRows
<1>13. \A r \in Req : ReqOk(req[r])' BY <1>1 DEF IInv, ReqOk, Listed
<1> QED BY <1>7, <1>8, <1>9, <1>10, <1>11, <1>12, <1>13 DEF IInv

\* _fetch_provider: what is fetched is what the provider lists.
LEMMA PassFetchesKeeps ==
  ASSUME IInv, NEW p \in Pass, PassFetches(p)
  PROVE  IInv'
<1>1. /\ pass[p].pc = "fetch"
      /\ UNCHANGED <<upstream, changes, published, snap, auto, rows, req, clock>>
  BY DEF PassFetches
<1>2. Active(p) BY <1>1 DEF Active
<1>3. /\ \A s \in Slug : SnapOk(s)'
      /\ DOMAIN snap' = Slug /\ AdoptionHonest' /\ DOMAIN rows' = Id
  BY <1>1, SameSnap, SameRows
<1>4. CASE Library = {}
  <2>1. PassGoes(p, Over) BY <1>4 DEF PassFetches
  <2>2. pass[p].got = Nothing BY <1>1, PassIs DEF PassOk
  <2>3. clean' = clean BY <1>2, <2>1, <2>2, Runs, GoesIs
  <2> QED BY <1>1, <1>2, <1>3, <2>1, <2>3, GoesIs, PassEnds
<1>5. CASE Library # {}
  <2>1. PICK n : n = [pass[p] EXCEPT !.pc = "diff", !.got = upstream] OBVIOUS
  <2>2. PassGoes(p, n) BY <1>5, <2>1 DEF PassFetches
  <2>3. /\ DOMAIN n = {"pc", "now", "got", "todo", "taken"} /\ n.pc = "diff"
        /\ n.now = pass[p].now /\ n.got = upstream
    BY <2>1, PassIs
  <2>4. n.pc \in Working BY <2>3 DEF Working
  <2>5. PassOk(n)
    <3>1. upstream \in [Slug -> Listing] /\ \A s \in Slug : <<s, upstream[s]>> \in published
      BY DEF IInv, Tables
    <3>2. pass[p].now \in Nat /\ pass[p].now <= clock BY <1>1, PassIs DEF PassOk, Working
    <3> QED BY <2>3, <3>1, <3>2 DEF PassOk, Working, Listed
  <2>6. p \in alone => Stands(n)'
    <3>1. p \in alone => Stands(pass[p]) BY DEF IInv, LoneOk
    <3> QED BY <1>1, <2>3, <3>1 DEF Stands, Older
  <2>7. UNCHANGED <<alone, clean>> /\ pass' = [pass EXCEPT ![p] = n]
    BY <2>2, <2>4, GoesIs
  <2> QED BY <1>1, <1>2, <1>3, <2>4, <2>5, <2>6, <2>7, PassGoesOn
<1> QED BY <1>4, <1>5

\* snapshot_diff only reads.
LEMMA PassDiffsKeeps ==
  ASSUME IInv, NEW p \in Pass, PassDiffs(p)
  PROVE  IInv'
<1>1. /\ pass[p].pc = "diff"
      /\ UNCHANGED <<upstream, changes, published, snap, auto, rows, req, clock>>
  BY DEF PassDiffs
<1>2. Active(p) BY <1>1 DEF Active
<1>3. /\ \A s \in Slug : SnapOk(s)'
      /\ DOMAIN snap' = Slug /\ AdoptionHonest' /\ DOMAIN rows' = Id
  BY <1>1, SameSnap, SameRows
<1>4. PICK seen : seen = Seen(p) OBVIOUS
<1>5. PICK new : new = {s \in seen : snap[s] = NoRow} OBVIOUS
<1>6. PICK n : n = [pass[p] EXCEPT !.pc = "upsert", !.todo = seen, !.taken = new] OBVIOUS
<1>7. PassGoes(p, n) BY <1>4, <1>5, <1>6 DEF PassDiffs
<1>8. /\ DOMAIN n = {"pc", "now", "got", "todo", "taken"} /\ n.pc = "upsert"
      /\ n.now = pass[p].now /\ n.got = pass[p].got /\ n.todo = seen /\ n.taken = new
  BY <1>6, PassIs
<1>9. n.pc \in Working BY <1>8 DEF Working
<1>10. seen = {s \in Slug : n.got[s] # Gone} /\ new \subseteq seen
  BY <1>4, <1>5, <1>8 DEF Seen
<1>11. PassOk(n) BY <1>1, <1>8, <1>10, PassIs DEF PassOk, Working
<1>12. p \in alone => Stands(n)'
  <2>1. p \in alone => Stands(pass[p]) BY DEF IInv, LoneOk
  <2> QED BY <1>1, <1>8, <1>10, <2>1 DEF Stands, Older
<1>13. UNCHANGED <<alone, clean>> /\ pass' = [pass EXCEPT ![p] = n]
  BY <1>7, <1>9, GoesIs
<1> QED BY <1>1, <1>2, <1>3, <1>9, <1>11, <1>12, <1>13, PassGoesOn

\* upsert_snapshot stores one listed model at the pass's time.
LEMMA PassUpsertsKeeps ==
  ASSUME IInv, NEW p \in Pass, PassUpserts(p)
  PROVE  IInv'
<1>1. /\ pass[p].pc = "upsert"
      /\ UNCHANGED <<upstream, changes, published, auto, rows, req, clock>>
  BY DEF PassUpserts
<1>2. Active(p) BY <1>1 DEF Active
<1>3. PICK got, todo : got = pass[p].got /\ todo = pass[p].todo OBVIOUS
<1>4. PICK s \in todo :
        /\ snap' = [snap EXCEPT ![s] = SnapshotRow(s, pass[p].got[s], pass[p].now)]
        /\ PassGoes(p,
             IF todo # {s} THEN [pass[p] EXCEPT !.todo = @ \ {s}]
             ELSE IF pass[p].taken # {} THEN [pass[p] EXCEPT !.todo = {}, !.pc = "toggle"]
             ELSE Over)
  BY <1>3 DEF PassUpserts
<1>5. /\ \A t \in Slug : SnapOk(t)'
      /\ DOMAIN snap' = Slug
      /\ p \in alone => \A t \in Slug : IF got[t] # Gone /\ t \notin todo \ {s}
                                        THEN Stored(t, got[t])' ELSE Older(t)'
  <2>1. /\ s \in Slug /\ got[s] # Gone /\ Listed(s, got[s])
        /\ pass[p].now \in Nat /\ pass[p].now <= clock
    BY <1>1, <1>3, PassIs DEF PassOk, Working
  <2>2. PICK now : now = pass[p].now OBVIOUS
  <2>3. PICK row : row = [price |-> got[s], seen |-> now] OBVIOUS
  <2>4. row.price = got[s] /\ row.seen = now BY <2>3
  <2>5. DOMAIN snap' = Slug /\ \A t \in Slug : snap'[t] = IF t = s THEN row ELSE snap[t]
    BY <1>3, <1>4, <2>1, <2>2, <2>3 DEF SnapshotRow, IInv, Tables
  <2>6. ASSUME NEW t \in Slug PROVE SnapOk(t)'
    <3>1. CASE t = s BY <2>1, <2>2, <1>1, <2>4, <2>5, <3>1 DEF SnapOk, Listed
    <3>2. CASE t # s
      <4>1. SnapOk(t) BY DEF IInv
      <4> QED BY <1>1, <2>5, <3>2, <4>1 DEF SnapOk, Listed
    <3> QED BY <3>1, <3>2
  <2>7. ASSUME p \in alone, NEW t \in Slug
        PROVE  IF got[t] # Gone /\ t \notin todo \ {s} THEN Stored(t, got[t])' ELSE Older(t)'
    <3>1. /\ now = clock
          /\ IF got[t] # Gone /\ t \notin todo THEN Stored(t, got[t]) ELSE Older(t)
      BY <1>1, <1>3, <2>2, <2>7 DEF IInv, LoneOk, Stands
    <3>2. CASE t = s BY <1>1, <2>1, <2>3, <2>5, <3>1, <3>2 DEF Stored
    <3>3. CASE t # s BY <1>1, <2>5, <3>1, <3>3 DEF Stored, Older
    <3> QED BY <3>2, <3>3
  <2> QED BY <2>5, <2>6, <2>7
<1>6. AdoptionHonest' /\ DOMAIN rows' = Id BY <1>1, SameRows
<1>7. p \in alone => pass[p].now = clock BY DEF IInv, LoneOk, Stands
<1>8. CASE todo # {s}
  <2>1. PICK n : n = [pass[p] EXCEPT !.todo = @ \ {s}] OBVIOUS
  <2>2. /\ DOMAIN n = {"pc", "now", "got", "todo", "taken"} /\ n.pc = "upsert"
        /\ n.now = pass[p].now /\ n.got = got /\ n.todo = todo \ {s} /\ n.taken = pass[p].taken
    BY <1>1, <1>3, <2>1, PassIs
  <2>3. n.pc \in Working BY <2>2 DEF Working
  <2>4. PassGoes(p, n) BY <1>4, <1>8, <2>1
  <2>5. PassOk(n) BY <1>1, <1>3, <2>2, PassIs DEF PassOk, Working
  <2>6. p \in alone => Stands(n)' BY <1>1, <1>5, <1>7, <2>2 DEF Stands
  <2>7. UNCHANGED <<alone, clean>> /\ pass' = [pass EXCEPT ![p] = n] BY <2>3, <2>4, GoesIs
  <2> QED BY <1>1, <1>2, <1>5, <1>6, <2>3, <2>5, <2>6, <2>7, PassGoesOn
<1>9. CASE todo = {s} /\ pass[p].taken # {}
  <2>1. PICK n : n = [pass[p] EXCEPT !.todo = {}, !.pc = "toggle"] OBVIOUS
  <2>2. /\ DOMAIN n = {"pc", "now", "got", "todo", "taken"} /\ n.pc = "toggle"
        /\ n.now = pass[p].now /\ n.got = got /\ n.taken = pass[p].taken
    BY <1>3, <2>1, PassIs
  <2>3. n.pc \in Working BY <2>2 DEF Working
  <2>4. PassGoes(p, n) BY <1>4, <1>9, <2>1
  <2>5. PassOk(n) BY <1>1, <1>3, <2>2, PassIs DEF PassOk, Working
  <2>6. p \in alone => Stands(n)' BY <1>1, <1>5, <1>7, <1>9, <2>2 DEF Stands
  <2>7. UNCHANGED <<alone, clean>> /\ pass' = [pass EXCEPT ![p] = n] BY <2>3, <2>4, GoesIs
  <2> QED BY <1>1, <1>2, <1>5, <1>6, <2>3, <2>5, <2>6, <2>7, PassGoesOn
<1>10. CASE todo = {s} /\ pass[p].taken = {}
  <2>1. PassGoes(p, Over) BY <1>4, <1>10
  <2>2. \/ clean' = clean
        \/ /\ p \in alone /\ clean' = got
           /\ \A t \in Slug : IF got[t] # Gone THEN Stored(t, got[t])' ELSE Older(t)'
    BY <1>3, <1>5, <1>10, <2>1, GoesIs
  <2>3. \/ clean' = clean
        \/ /\ p \in alone /\ clean' = pass[p].got
           /\ \A t \in Slug : IF clean'[t] # Gone THEN Stored(t, clean[t])' ELSE Older(t)'
    BY <1>3, <2>2 DEF Stored
  <2> QED BY <1>1, <1>2, <1>5, <1>6, <2>1, <2>3, GoesIs, PassEnds
<1> QED BY <1>8, <1>9, <1>10

\* What a pass that is done storing may end with.
LEMMA StoredEnds ==
  ASSUME IInv, NEW p \in Pass, pass[p].pc \in {"toggle", "list", "adopt"}, PassGoes(p, Over),
         AdoptionHonest', DOMAIN rows' = Id, UNCHANGED <<upstream, published, snap, req, clock>>
  PROVE  IInv'
<1>1. Active(p) BY DEF Active
<1>2. (\A s \in Slug : SnapOk(s)') /\ DOMAIN snap' = Slug BY SameSnap
<1>3. PICK got : got = pass[p].got OBVIOUS
<1>4. p \in alone =>
        \A s \in Slug : IF got[s] # Gone THEN Stored(s, got[s]) ELSE Older(s)
  BY <1>3 DEF IInv, LoneOk, Stands
<1>5. p \in alone =>
        \A s \in Slug : IF got[s] # Gone THEN Stored(s, got[s])' ELSE Older(s)'
  BY <1>4 DEF Stored, Older
<1>6. \/ clean' = clean
      \/ /\ p \in alone /\ clean' = pass[p].got
         /\ \A s \in Slug : IF clean'[s] # Gone THEN Stored(s, clean[s])' ELSE Older(s)'
  BY <1>3, <1>5, GoesIs DEF Stored
<1> QED BY <1>1, <1>2, <1>6, GoesIs, PassEnds

\* A pass that is done storing goes on among its last places.
LEMMA StoredGoesOn ==
  ASSUME IInv, NEW p \in Pass, pass[p].pc \in {"toggle", "list", "adopt"},
         NEW n, PassGoes(p, n), PassOk(n), n.pc \in {"toggle", "list", "adopt"},
         n.now = pass[p].now, n.got = pass[p].got,
         AdoptionHonest', DOMAIN rows' = Id, UNCHANGED <<upstream, published, snap, req, clock>>
  PROVE  IInv'
<1>1. Active(p) BY DEF Active
<1>2. (\A s \in Slug : SnapOk(s)') /\ DOMAIN snap' = Slug BY SameSnap
<1>3. n.pc \in Working BY DEF Working
<1>4. p \in alone => Stands(pass[p]) BY DEF IInv, LoneOk
<1>5. p \in alone => Stands(n)' BY <1>4 DEF Stands, Stored, Older
<1>6. UNCHANGED <<alone, clean>> /\ pass' = [pass EXCEPT ![p] = n] BY <1>3, GoesIs
<1> QED BY <1>1, <1>2, <1>3, <1>5, <1>6, PassGoesOn

LEMMA PassReadsToggleKeeps ==
  ASSUME IInv, NEW p \in Pass, PassReadsToggle(p)
  PROVE  IInv'
<1>1. /\ pass[p].pc = "toggle"
      /\ UNCHANGED <<upstream, changes, published, snap, auto, rows, req, clock>>
  BY DEF PassReadsToggle
<1>2. AdoptionHonest' /\ DOMAIN rows' = Id BY <1>1, SameRows
<1>3. CASE ~auto
  <2>1. PassGoes(p, Over) BY <1>3 DEF PassReadsToggle
  <2> QED BY <1>1, <1>2, <2>1, StoredEnds
<1>4. CASE auto
  <2>1. PICK n : n = [pass[p] EXCEPT !.pc = "list"] OBVIOUS
  <2>2. PassGoes(p, n) BY <1>4, <2>1 DEF PassReadsToggle
  <2>3. /\ DOMAIN n = {"pc", "now", "got", "todo", "taken"} /\ n.pc = "list"
        /\ n.now = pass[p].now /\ n.got = pass[p].got /\ n.taken = pass[p].taken
    BY <2>1, PassIs
  <2>4. PassOk(n) BY <1>1, <2>3, PassIs DEF PassOk, Working
  <2> QED BY <1>1, <1>2, <2>2, <2>3, <2>4, StoredGoesOn
<1> QED BY <1>3, <1>4

LEMMA AutoAdoptReadsKeeps ==
  ASSUME IInv, NEW p \in Pass, AutoAdoptReads(p)
  PROVE  IInv'
<1>1. /\ pass[p].pc = "list"
      /\ UNCHANGED <<upstream, changes, published, snap, auto, rows, req, clock>>
  BY DEF AutoAdoptReads
<1>2. AdoptionHonest' /\ DOMAIN rows' = Id BY <1>1, SameRows
<1>3. PICK todo : todo = {s \in pass[p].taken : SameSlug(s) = {}} OBVIOUS
<1>4. PICK ids : ids = Base \cup Adopted OBVIOUS
<1>5. PICK n : n = [pass[p] EXCEPT !.pc = "adopt", !.todo = todo, !.taken = ids] OBVIOUS
<1>6. PassGoes(p, IF todo = {} THEN Over ELSE n) BY <1>3, <1>4, <1>5 DEF AutoAdoptReads
<1>7. CASE todo = {}
  <2>1. PassGoes(p, Over) BY <1>6, <1>7
  <2> QED BY <1>1, <1>2, <2>1, StoredEnds
<1>8. CASE todo # {}
  <2>1. PassGoes(p, n) BY <1>6, <1>8
  <2>2. /\ DOMAIN n = {"pc", "now", "got", "todo", "taken"} /\ n.pc = "adopt"
        /\ n.now = pass[p].now /\ n.got = pass[p].got /\ n.todo = todo
    BY <1>5, PassIs
  <2>3. todo \subseteq {s \in Slug : pass[p].got[s] # Gone}
    BY <1>1, <1>3, PassIs DEF PassOk
  <2>4. PassOk(n) BY <1>1, <2>2, <2>3, PassIs DEF PassOk, Working
  <2> QED BY <1>1, <1>2, <2>1, <2>2, <2>4, StoredGoesOn
<1> QED BY <1>7, <1>8

\* _auto_adopt writes the listing the pass fetched, under a clean id.
LEMMA AutoAdoptsKeeps ==
  ASSUME IInv, NEW p \in Pass, AutoAdopts(p)
  PROVE  IInv'
<1>1. /\ pass[p].pc = "adopt"
      /\ UNCHANGED <<upstream, changes, published, snap, auto, req, clock>>
  BY DEF AutoAdopts
<1>2. PICK s, id :
        /\ s \in pass[p].todo
        /\ IF Named(id) THEN AddAdoption(id, Row(s, pass[p].got[s])) ELSE UNCHANGED rows
        /\ PassGoes(p, IF pass[p].todo = {s} THEN Over
                       ELSE [pass[p] EXCEPT !.todo = @ \ {s},
                               !.taken = IF Named(id) THEN @ \cup {id} ELSE @])
  BY DEF AutoAdopts
<1>3. s \in Slug /\ Listed(s, pass[p].got[s]) BY <1>1, <1>2, PassIs DEF PassOk
<1>4. AdoptionHonest' /\ DOMAIN rows' = Id
  <2>1. CASE Named(id)
    <3>1. PICK row : row = Row(s, pass[p].got[s]) OBVIOUS
    <3>2. HonestAt(id, row) BY <1>3, <2>1, <3>1, RowHonest
    <3>3. rows' = [rows EXCEPT ![id] = row] BY <1>2, <2>1, <3>1 DEF AddAdoption
    <3> QED BY <1>1, <3>2, <3>3, WritesHonest
  <2>2. CASE ~Named(id) BY <1>1, <1>2, <2>2, SameRows
  <2> QED BY <2>1, <2>2
<1>5. CASE pass[p].todo = {s}
  <2>1. PassGoes(p, Over) BY <1>2, <1>5
  <2> QED BY <1>1, <1>4, <2>1, StoredEnds
<1>6. CASE pass[p].todo # {s}
  <2>1. PICK ids : ids = IF Named(id) THEN pass[p].taken \cup {id} ELSE pass[p].taken OBVIOUS
  <2>2. PICK n : n = [pass[p] EXCEPT !.todo = @ \ {s}, !.taken = ids] OBVIOUS
  <2>3. PassGoes(p, n)
    <3>1. n = [pass[p] EXCEPT !.todo = @ \ {s},
                 !.taken = IF Named(id) THEN @ \cup {id} ELSE @]
      BY <2>1, <2>2, PassIs
    <3> QED BY <1>2, <1>6, <3>1
  <2>4. /\ DOMAIN n = {"pc", "now", "got", "todo", "taken"} /\ n.pc = "adopt"
        /\ n.now = pass[p].now /\ n.got = pass[p].got /\ n.todo = pass[p].todo \ {s}
    BY <1>1, <2>2, PassIs
  <2>5. PassOk(n) BY <1>1, <2>4, PassIs DEF PassOk, Working
  <2> QED BY <1>1, <1>4, <2>3, <2>4, <2>5, StoredGoesOn
<1> QED BY <1>5, <1>6

LEMMA PassFailsKeeps ==
  ASSUME IInv, NEW p \in Pass, PassFails(p)
  PROVE  IInv'
BY SameSnap, SameRows, PassEnds DEF PassFails

LEMMA PassStepKeeps ==
  ASSUME IInv, NEW p \in Pass, PassStep(p)
  PROVE  IInv'
BY PassBeginsKeeps, PassFetchesKeeps, PassDiffsKeeps, PassUpsertsKeeps, PassReadsToggleKeeps,
   AutoAdoptReadsKeeps, AutoAdoptsKeeps, PassFailsKeeps DEF PassStep

-----------------------------------------------------------------------------
\* The provider and the toggle.

\* What was listed once stays listed once.
LEMMA ProviderKeeps ==
  ASSUME IInv, ProviderChanges
  PROVE  IInv'
<1>1. PICK c \in Change : /\ upstream' = [upstream EXCEPT ![c[1]] = c[2]]
                          /\ published' = published \cup {c}
  BY DEF ProviderChanges
<1>2. UNCHANGED <<snap, auto, rows, req, pass, clock, alone, clean>> BY DEF ProviderChanges
<1>3. PICK m \in Slug, l \in Listing : c = <<m, l>> BY AdoptionAssumption
<1>4. \A s, k : Listed(s, k) => Listed(s, k)' BY <1>1 DEF Listed
<1>5. Tables'
  <2>1. upstream \in [Slug -> Listing] /\ \A s \in Slug : <<s, upstream[s]>> \in published
    BY DEF IInv, Tables
  <2>2. upstream' = [upstream EXCEPT ![m] = l] BY <1>1, <1>3
  <2>3. upstream' \in [Slug -> Listing] BY <2>1, <2>2
  <2>4. \A s \in Slug : <<s, upstream'[s]>> \in published'
    BY <1>1, <1>3, <2>1, <2>2
  <2> QED BY <1>2, <2>3, <2>4 DEF IInv, Tables
<1>6. AdoptionHonest'
  <2>1. ASSUME NEW i \in Id, rows[i] # NoRow, i \notin Base PROVE HonestAt(i, rows[i])'
    <3>1. PICK x : x = rows[i] OBVIOUS
    <3>2. HonestAt(i, x) BY <2>1, <3>1, HonestIs DEF IInv
    <3>3. HonestAt(i, x)' BY <1>1, <3>2 DEF HonestAt
    <3>4. x = rows'[i] BY <1>2, <3>1
    <3> QED BY <3>3, <3>4
  <2> QED BY <1>2, <2>1 DEF AdoptionHonest, Effective, Adopted, Exists, HonestAt
<1>7. ASSUME NEW r \in Req PROVE ReqOk(req[r])'
  <2>1. PICK x : x = req[r] OBVIOUS
  <2>2. ReqOk(x) BY <2>1 DEF IInv
  <2>3. ReqOk(x)' BY <1>4, <2>2 DEF ReqOk
  <2>4. x = req'[r] BY <1>2, <2>1
  <2> QED BY <2>3, <2>4
<1>8. ASSUME NEW p \in Pass PROVE PassOk(pass[p])'
  <2>1. PICK x : x = pass[p] OBVIOUS
  <2>2. PassOk(x) BY <2>1 DEF IInv
  <2>3. PassOk(x)' BY <1>2, <1>4, <2>2 DEF PassOk
  <2>4. x = pass'[p] BY <1>2, <2>1
  <2> QED BY <2>3, <2>4
<1>9. \A s \in Slug : SnapOk(s)' BY <1>2, <1>4 DEF IInv, SnapOk
<1>10. LoneOk' /\ CleanOk'
  BY <1>2 DEF IInv, LoneOk, CleanOk, Active, Stands, Older, Stored
<1> QED BY <1>5, <1>6, <1>7, <1>8, <1>9, <1>10 DEF IInv

LEMMA StutterKeeps ==
  ASSUME IInv, UNCHANGED <<upstream, published, snap, rows, req, pass, clock, alone, clean>>
  PROVE  IInv'
<1>1. Tables' BY DEF IInv, Tables
<1>2. \A r \in Req : ReqOk(req[r])' BY DEF IInv, ReqOk, Listed
<1>3. \A p \in Pass : PassOk(pass[p])' BY DEF IInv, PassOk, Listed
<1>4. LoneOk' /\ CleanOk' BY DEF IInv, LoneOk, CleanOk, Active, Stands, Older, Stored
<1> QED BY <1>1, <1>2, <1>3, <1>4, SameSnap, SameRows DEF IInv

-----------------------------------------------------------------------------
\* The invariant, and what follows from it.

LEMMA InitHolds == Init => IInv
<1> SUFFICES ASSUME Init PROVE IInv OBVIOUS
<1>1. /\ upstream \in FirstLibrary /\ published = {<<s, upstream[s]>> : s \in Slug}
      /\ snap = [s \in Slug |-> NoRow] /\ rows = [i \in Id |-> NoRow]
      /\ pass = [p \in Pass |-> Idle] /\ clock = 0 /\ alone = {} /\ clean = Nothing
  BY DEF Init
<1>2. PICK f : /\ \A r \in Req : f[r] \in JobsOf[r]
               /\ req = [r \in Req |-> Asked(f[r])]
  BY DEF Init
<1>3. Tables
  <2>1. upstream \in [Slug -> Listing] BY <1>1, AdoptionAssumption
  <2>2. DOMAIN req = Req BY <1>2
  <2> QED BY <1>1, <2>1, <2>2 DEF Tables
<1>4. AdoptionHonest BY <1>1 DEF AdoptionHonest, Effective, Adopted, Exists
<1>5. LoneOk /\ CleanOk BY <1>1 DEF LoneOk, CleanOk
<1>6. ASSUME NEW r \in Req PROVE ReqOk(req[r])
  <2>1. PICK j, q : j = f[r] /\ q = req[r] OBVIOUS
  <2>2. DOMAIN q = {"pc", "job", "price", "id"} /\ q.pc = "start" /\ q.job = j
    BY <1>2, <2>1 DEF Asked
  <2>3. DOMAIN j = {"kind", "on", "id"} /\ (j.kind = "local" => j.on \in LocalModel)
    BY <1>2, <2>1, AdoptionAssumption
  <2>4. ReqOk(q) BY <2>2, <2>3 DEF ReqOk
  <2> QED BY <2>1, <2>4
<1>7. \A s \in Slug : SnapOk(s) BY <1>1 DEF SnapOk
<1>8. PassOk(Idle)
  <2>1. /\ DOMAIN Idle = {"pc", "now", "got", "todo", "taken"} /\ Idle.pc = "idle"
        /\ Idle.got = Nothing
    BY DEF Idle
  <2> QED BY <2>1, OverIs DEF PassOk, Working, Nothing
<1>9. \A p \in Pass : PassOk(pass[p]) BY <1>1, <1>8
<1> QED BY <1>3, <1>4, <1>5, <1>6, <1>7, <1>9 DEF IInv

LEMMA NextKeeps == IInv /\ [Next]_vars => IInv'
<1> SUFFICES ASSUME IInv, [Next]_vars PROVE IInv' OBVIOUS
<1>1. CASE ProviderChanges BY <1>1, ProviderKeeps
<1>2. CASE SetAutoAdopt BY <1>2, StutterKeeps DEF SetAutoAdopt
<1>3. CASE \E r \in Req : ReqStep(r) BY <1>3, ReqStepKeeps
<1>4. CASE \E p \in Pass : PassStep(p) BY <1>4, PassStepKeeps
<1>5. CASE UNCHANGED vars BY <1>5, StutterKeeps DEF vars
<1> QED BY <1>1, <1>2, <1>3, <1>4, <1>5 DEF Next

\* A stored row is a row, the newest there is.
LEMMA StoredIs ==
  ASSUME IInv, clean # Nothing, NEW s \in Slug
  PROVE  /\ clean[s] # Gone => /\ snap[s] # NoRow /\ CheckedAt(s)
                               /\ snap[s].price = clean[s]
         /\ clean[s] = Gone /\ snap[s] # NoRow => ~CheckedAt(s)
<1>1. /\ clean \in [Slug -> Listing] /\ clock \in Nat
      /\ \A t \in Slug : IF clean[t] # Gone THEN Stored(t, clean[t]) ELSE Older(t)
  BY DEF IInv, CleanOk, Tables
<1>2. ASSUME NEW t \in Slug, clean[t] # Gone
      PROVE  snap[t] # NoRow /\ snap[t].price = clean[t] /\ snap[t].seen = clock
  <2>1. PICK row : row = [price |-> clean[t], seen |-> clock] OBVIOUS
  <2>2. row \in [price : Listing, seen : Nat] BY <1>1, <2>1
  <2>3. row # NoRow BY <2>2, AdoptionAssumption
  <2> QED BY <1>1, <1>2, <2>1, <2>3 DEF Stored
<1>3. \A t \in Slug : snap[t] # NoRow => snap[t].seen \in Nat /\ snap[t].seen <= clock
  BY DEF IInv, SnapOk
<1>4. clean[s] # Gone => CheckedAt(s) BY <1>2, <1>3 DEF CheckedAt
<1>5. ASSUME clean[s] = Gone, snap[s] # NoRow PROVE ~CheckedAt(s)
  <2>1. PICK t \in Slug : clean[t] # Gone BY <1>1 DEF Nothing
  <2>2. snap[s].seen < clock BY <1>1, <1>5 DEF Older
  <2>3. ~(snap[t].seen <= snap[s].seen) BY <1>1, <1>2, <1>3, <1>5, <2>1, <2>2
  <2> QED BY <1>2, <2>1, <2>3 DEF CheckedAt
<1> QED BY <1>2, <1>4, <1>5

LEMMA FlagsSettle == IInv => PassSettlesFlags
<1> SUFFICES ASSUME IInv, clean # Nothing, NEW i \in Adopted, rows[i].of \in Slug
             PROVE  LET l == clean[rows[i].of]
                    IN  /\ UpstreamRemoved(i) <=> l = Gone /\ snap[rows[i].of] # NoRow
                        /\ PriceDrift(i) <=> l \in Price /\ l # rows[i].price
  BY DEF PassSettlesFlags
<1>1. PICK s : s = rows[i].of OBVIOUS
<1>2. /\ clean[s] # Gone => snap[s] # NoRow /\ CheckedAt(s) /\ snap[s].price = clean[s]
      /\ clean[s] = Gone /\ snap[s] # NoRow => ~CheckedAt(s)
  BY <1>1, StoredIs
<1>3. Gone \notin Price BY AdoptionAssumption
<1>4. UpstreamRemoved(i) <=> clean[s] = Gone /\ snap[s] # NoRow
  BY <1>1, <1>2 DEF UpstreamRemoved
<1>5. PriceDrift(i) <=> clean[s] \in Price /\ clean[s] # rows[i].price
  BY <1>1, <1>2, <1>3, <1>4 DEF PriceDrift
<1> QED BY <1>1, <1>4, <1>5

LEMMA Invariant == Spec => []IInv
BY InitHolds, NextKeeps, PTL DEF Spec

\* Whatever requests and passes interleave, an adopted model that can be routed
\* to has a clean id and a price its provider published for that model:
\* add_adoption never stores a row that mixes two models' facts.
THEOREM AdoptionAlwaysHonest == Spec => []AdoptionHonest
<1>1. IInv => AdoptionHonest BY DEF IInv
<1> QED BY <1>1, Invariant, PTL

\* A pass that ran alone leaves upstream_removed and price_drift right about
\* what it fetched, whatever crashed or overlapping passes left before it.
THEOREM LonePassSettles == Spec => []PassSettlesFlags
BY Invariant, FlagsSettle, PTL
=============================================================================
