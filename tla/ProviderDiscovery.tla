-------------------------- MODULE ProviderDiscovery --------------------------
(***************************************************************************)
(* One provider discovery (toto_gateway/benchmarking/providers/): the      *)
(* paged walks of FireworksInventoryAdapter over the public models and the *)
(* models and deployments of every account the credential sees, with their *)
(* row, page, account and time limits, the normalisation of the rows into  *)
(* offers, and the verdict success / partial / failed on which the         *)
(* inventory is shown at all; and OpenRouterInventoryAdapter, one request  *)
(* without pages.                                                          *)
(*                                                                         *)
(* The provider is a graph of pages chosen once: page[source][token] has   *)
(* rows and the token of the next page, and tokens may form a cycle.  A    *)
(* row has a name, a state, whether it is served serverless, whether every *)
(* text of it passes the safety boundary (printable, well formed, free of  *)
(* the credential) and whether it is a JSON object at all.  Transport and  *)
(* HTTP errors, oversized and malformed bodies all end a walk the same way.*)
(***************************************************************************)
EXTENDS Naturals, Sequences, FiniteSets, SequencesExt

CONSTANTS
  Upstreams,     \* the page graphs the provider may serve
  Configs,       \* DiscoveryConfig: adapter, account, accounts, deployments
  AccountId,     \* ids that match _ACCOUNT_ID_RE, which needs a character
  FirstPage, NoToken,  \* the first page of a source; no further page
  MaxRows, MaxPages, MaxAccounts   \* _MAX_ROWS, _MAX_PAGES, _MAX_ACCOUNTS

ProviderRow == [id : STRING, object : BOOLEAN, state : STRING, serverless : BOOLEAN,
                safe : BOOLEAN]

Public == <<"public">>
Accounts == <<"accounts">>
User == <<"user">>

Given(c) == IF c.account = "" THEN <<>> ELSE <<c.account>>

Enumerates(c) == c.accounts /\ c.account = ""

-----------------------------------------------------------------------------
\* What there is to discover, whatever the limits.

Closed(pages, T) == \A t \in T : pages[t].next \in T \cup {NoToken}

\* The pages of a source that can be reached from its first one.
Reachable(pages) ==
  {t \in DOMAIN pages : \A T \in SUBSET DOMAIN pages :
                          FirstPage \in T /\ Closed(pages, T) => t \in T}

AllRows(pages) == UNION {ToSet(pages[t].rows) : t \in Reachable(pages)}

\* The accounts the credential sees.
SeenAccounts(u) == {r.id : r \in {x \in AllRows(u[Accounts]) : x.object}}

\* Those the adapter asks for: an id it will not put into a path names none.
AllAccounts(u, c) ==
  IF Enumerates(c) THEN SeenAccounts(u) \cap AccountId ELSE ToSet(Given(c))

AllSources(u, c) ==
  IF c.adapter = "openrouter" THEN {User}
  ELSE {Public} \cup {<<"models", a>> : a \in AllAccounts(u, c)}
                \cup (IF c.deployments THEN {<<"deployments", a>> : a \in AllAccounts(u, c)}
                                       ELSE {})

\* The rows of the provider that a customer can be served with.
Served(s, row) ==
  /\ row.object /\ row.safe /\ row.id # ""
  /\ s # User => row.state = "READY" \/ (row.state = "" /\ s[1] # "deployments")
  /\ s = Public \/ s[1] = "models" => row.serverless

Servable(u, c) ==
  UNION {{r.id : r \in {x \in AllRows(u[s]) : Served(s, x)}} : s \in AllSources(u, c)}

\* Every page names the next one or is the last, and the provider has every
\* source that the configuration leads to.
ASSUME DiscoveryAssumption ==
  /\ AccountId \subseteq STRING \ {""}
  /\ MaxRows \in Nat \ {0} /\ MaxPages \in Nat \ {0} /\ MaxAccounts \in Nat \ {0}
  /\ \A u \in Upstreams : \A s \in DOMAIN u :
       /\ FirstPage \in DOMAIN u[s]
       /\ \A t \in DOMAIN u[s] : /\ u[s][t].rows \in Seq(ProviderRow)
                                 /\ u[s][t].next \in DOMAIN u[s] \cup {NoToken}
  /\ \A c \in Configs : c.adapter \in {"fireworks", "openrouter"}
  /\ \A u \in Upstreams, c \in Configs :
       AllSources(u, c) \cup (IF Enumerates(c) THEN {Accounts} ELSE {}) \subseteq DOMAIN u

-----------------------------------------------------------------------------
\* Loops over a list: the elements at the positions I, and the elements of the
\* elements.

Picked(s, I) ==
  LET f[n \in 0..Len(s)] ==
        IF n = 0 THEN <<>>
        ELSE IF n \in I THEN Append(f[n - 1], s[n]) ELSE f[n - 1]
  IN  f[Len(s)]

Joined(ss) ==
  LET f[n \in 0..Len(ss)] == IF n = 0 THEN <<>> ELSE f[n - 1] \o ss[n]
  IN  f[Len(ss)]

Ids(s) == {s[n].id : n \in DOMAIN s}

\* Where an id comes for the first time.
FirstsOf(s) == {n \in DOMAIN s : \A k \in 1..n - 1 : s[k].id # s[n].id}

-----------------------------------------------------------------------------
VARIABLES
  page,     \* the provider's pages
  config,
  pc,       \* walk, normalize or done
  todo,     \* sources still to walk, the current one first
  walk,     \* the current walk: token, seen, rows, pages
  left,     \* remaining_rows
  got,      \* walked sources, in order: source, rows, pages, complete
  cut,      \* accounts_truncated > 0
  late,     \* the overall deadline has passed
  result    \* DiscoveryResult

discoveryVars == <<page, config, pc, todo, walk, left, got, cut, late, result>>

NoWalk == [token |-> FirstPage, seen |-> {}, rows |-> <<>>, pages |-> 0, total |-> 0]
NoResult == [status |-> "none", offers |-> <<>>, quarantined |-> 0]

\* The sources of an account, after the public ones.
AccountSources(c, ids) ==
  Joined([i \in DOMAIN ids |->
    IF c.deployments THEN <<<<"models", ids[i]>>, <<"deployments", ids[i]>>>>
                     ELSE <<<<"models", ids[i]>>>>])

FirstSources(c) ==
  CASE c.adapter = "openrouter" -> <<User>>
    [] c.adapter = "fireworks" /\ Enumerates(c) -> <<Accounts>>
    [] OTHER -> <<Public>> \o AccountSources(c, Given(c))

DiscoveryInit ==
  /\ page \in Upstreams
  /\ config \in Configs
  /\ pc = "walk"
  /\ todo = FirstSources(config)
  /\ walk = NoWalk
  /\ left = MaxRows
  /\ got = <<>>
  /\ cut = FALSE
  /\ late = FALSE
  /\ result = NoResult

-----------------------------------------------------------------------------
\* Account ids in the order of their rows; a row without a proper id is passed
\* over, and no error says so.
AccountIds(rows) ==
  LET named == Picked(rows, {n \in FirstsOf(rows) : rows[n].id \in AccountId})
  IN  [i \in DOMAIN named |-> named[i].id]

\* A walk ends with rows and pages, complete or with an error; the rows it
\* took count against the next ones.  The accounts it found become sources.
EndWalk(rows, pages, total, complete) ==
  LET source == Head(todo)
      ids == AccountIds(rows)
      kept == SubSeq(ids, 1, IF Len(ids) < MaxAccounts THEN Len(ids) ELSE MaxAccounts)
      more == IF source = Accounts THEN <<Public>> \o AccountSources(config, kept)
                                   ELSE Tail(todo)
  IN  /\ got' = Append(got, [source |-> source, rows |-> rows, pages |-> pages,
                             complete |-> complete])
      /\ left' = left - total
      /\ cut' = (cut \/ (source = Accounts /\ Len(ids) > MaxAccounts))
      /\ walk' = NoWalk
      /\ todo' = more
      /\ pc' = IF more = <<>> THEN "normalize" ELSE "walk"

\* The request fails, or the limits forbid it: no rows left, deadline over.
WalkFails ==
  /\ pc = "walk"
  /\ EndWalk(walk.rows, walk.pages, walk.total, FALSE)
  /\ UNCHANGED <<page, config, late, result>>

Budget == IF config.adapter = "openrouter" THEN Len(page[Head(todo)][walk.token].rows)
                                           ELSE left - walk.total

Objects(rows) == IF config.adapter = "openrouter" THEN rows
                 ELSE Picked(rows, {n \in DOMAIN rows : rows[n].object})

\* The page ends the walk with an error although it was read: more rows than
\* may be taken, or a next page that may not be asked for.
OverLimit(rows, next) ==
  \/ Len(rows) > Budget
  \/ /\ next # NoToken
     /\ \/ walk.total + Len(rows) >= left
        \/ walk.pages + 1 >= MaxPages
        \/ next \in walk.seen

\* Mutant: tokens are followed without any limit, those that came before too.
WalkPageForever ==
  /\ pc = "walk" /\ ~late /\ left > 0
  /\ LET here == page[Head(todo)][walk.token] IN
       IF here.next = NoToken
       THEN EndWalk(<<>>, walk.pages + 1, 0, FALSE)
       ELSE /\ walk' = [walk EXCEPT !.token = here.next]
            /\ UNCHANGED <<todo, left, got, cut, pc>>
  /\ UNCHANGED <<page, config, late, result>>

\* A page arrives: take what the limit allows, then stop or go on.
WalkPage ==
  /\ pc = "walk" /\ ~late
  /\ config.adapter = "fireworks" => left > 0
  /\ LET here == page[Head(todo)][walk.token]
         n == IF Len(here.rows) < Budget THEN Len(here.rows) ELSE Budget
         rows == walk.rows \o Objects(SubSeq(here.rows, 1, n))
         total == walk.total + n
     IN  CASE OverLimit(here.rows, here.next) ->
                EndWalk(rows, walk.pages + 1, total, FALSE)
           [] ~OverLimit(here.rows, here.next) /\ here.next = NoToken ->
                EndWalk(rows, walk.pages + 1, total, TRUE)
           [] OTHER ->
                /\ walk' = [token |-> here.next, seen |-> walk.seen \cup {here.next},
                            rows |-> rows, pages |-> walk.pages + 1, total |-> total]
                /\ UNCHANGED <<todo, left, got, cut, pc>>
  /\ UNCHANGED <<page, config, late, result>>

DeadlinePasses ==
  /\ config.adapter = "fireworks"
  /\ pc # "done" /\ ~late
  /\ late' = TRUE
  /\ UNCHANGED <<page, config, pc, todo, walk, left, got, cut, result>>

-----------------------------------------------------------------------------
\* What the adapters make of a row: an offer, a row that is not served, or one
\* the safety boundary quarantines.

Checked(row) == IF row.safe THEN "offer" ELSE "unsafe"

MapModel(row) ==
  IF row.id = "" \/ row.state \notin {"", "READY"} \/ ~row.serverless
  THEN "skip" ELSE Checked(row)

MapDeployment(row) ==
  IF row.id = "" \/ row.state # "READY" THEN "skip" ELSE Checked(row)

MapOffer(row) == IF row.object /\ row.id # "" THEN Checked(row) ELSE "unsafe"

Mapped(source, row) ==
  CASE source = User -> MapOffer(row)
    [] source[1] = "deployments" -> MapDeployment(row)
    [] OTHER -> MapModel(row)

\* Rows in walk order, each mapped; accounts never become offers.
Rows == Joined([i \in DOMAIN got |->
          IF got[i].source = Accounts THEN <<>>
          ELSE [k \in DOMAIN got[i].rows |->
                  [id |-> got[i].rows[k].id, is |-> Mapped(got[i].source, got[i].rows[k]),
                   source |-> got[i].source]]])

With(verdict, rows) == Picked(rows, {n \in DOMAIN rows : rows[n].is = verdict})

\* offers.setdefault: the first row of an id counts.
OffersIn(rows) == LET offers == With("offer", rows) IN Picked(offers, FirstsOf(offers))

Incomplete == \E i \in DOMAIN got : ~got[i].complete

\* Mutant: a discovery that read something is a success.
StatusOnPages(timedOut) ==
  IF \E i \in DOMAIN got : got[i].pages > 0 THEN "success" ELSE "failed"

\* Any error demotes the result; quarantined rows do not.
StatusOf(timedOut) ==
  IF ~Incomplete /\ ~cut /\ ~timedOut THEN "success"
  ELSE IF \E i \in DOMAIN got : got[i].pages > 0 THEN "partial"
  ELSE "failed"

Conclude(rows, timedOut) ==
  LET status == IF config.adapter = "openrouter" /\ Incomplete THEN "failed"
                                                               ELSE StatusOf(timedOut)
  IN  /\ result' = [status |-> status,
                    offers |-> IF status = "failed" THEN <<>>
                               ELSE IF config.adapter = "openrouter"
                               THEN With("offer", rows)
                               ELSE OffersIn(rows),
                    quarantined |-> Len(With("unsafe", rows))]
      /\ pc' = "done"
      /\ UNCHANGED <<page, config, todo, walk, left, got, cut, late>>

Normalize ==
  /\ pc = "normalize" /\ ~late
  /\ Conclude(Rows, FALSE)

\* The deadline passed before or while normalising: what was mapped by then.
NormalizeLate ==
  /\ pc = "normalize" /\ late
  /\ \E rows \in {SubSeq(Rows, 1, n) : n \in 0..Len(Rows)} : Conclude(rows, TRUE)

DiscoveryNext == WalkFails \/ WalkPage \/ DeadlinePasses \/ Normalize \/ NormalizeLate

DiscoverySpec == DiscoveryInit /\ [][DiscoveryNext]_discoveryVars

\* Requests end (the client has a timeout, wait_for the deadline).
FairDiscovery ==
  /\ DiscoverySpec
  /\ WF_discoveryVars(WalkFails \/ WalkPage)
  /\ WF_discoveryVars(Normalize \/ NormalizeLate)

-----------------------------------------------------------------------------
\* A success is the whole truth and nothing but: the read path of the
\* inventory shows only successes, so one that missed a page, an account or a
\* row for a limit would silently drop models that can be served, and one with
\* a row of another kind would route to a model that cannot be called.  No
\* result of any status invents an offer.  The truth ends at the accounts whose
\* id passes _ACCOUNT_ID_RE: see NoAccountPassedOver.
SuccessIsComplete ==
  /\ Ids(result.offers) \subseteq Servable(page, config)
  /\ result.status = "success" => Ids(result.offers) = Servable(page, config)

\* Claimed by discover ("The credential is the authority on which accounts it can
\* reach - enumerate them", fireworks.py:88) and violated: an account whose id
\* does not match _ACCOUNT_ID_RE is passed over and the result is a success.
NoAccountPassedOver ==
  result.status = "success" /\ config.adapter = "fireworks" /\ Enumerates(config) =>
    SeenAccounts(page) \subseteq AccountId \cup {""}

\* Every discovery ends, also against a provider whose page tokens go round
\* and one that stops to answer.
EveryDiscoveryEnds == <>(pc = "done")
=============================================================================
