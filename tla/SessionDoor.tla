---------------------------- MODULE SessionDoor -----------------------------
(***************************************************************************)
(* The door of the run plane: POST /v1/sessions and POST /v1/sessions/id/  *)
(* turns (routes/sessions.py create_session, create_turn) with the drain   *)
(* and capacity tests, the shared rate and quota counters (db.py           *)
(* check_rate_limit), the Idempotency-Key guard (routes/deps.py Idem,      *)
(* runs/claims.py) and the run rows they create (runs/sessions.py), for    *)
(* requests of one user that arrive at several replicas over one database. *)
(*                                                                         *)
(* A handler is a coroutine; every awaited statement is a step, and pc     *)
(* names the next one.  A replica may crash, losing its handlers and the   *)
(* tasks of its runs, or drain for a deploy.  What a run does while it     *)
(* runs, and the lease that tells a dead one, are RunLifecycle's subject:  *)
(* here a run ends, or is reaped once no process works on it.              *)
(*                                                                         *)
(* Abstractions.  Validation errors (400) change nothing and are left out. *)
(* Turns are asked of one conversation, whose first turn is over.  The     *)
(* rate window does not roll over within a behaviour.                      *)
(***************************************************************************)
EXTENDS Integers, Sequences, FiniteSets

CONSTANTS
  Request,     \* POSTs
  KeysOf,      \* KeysOf[r]: the Idempotency-Keys it may carry, NoKey for none
  Turn,        \* the requests that POST a turn; the others POST a session
  Replica,
  SitesOf,     \* SitesOf[r]: the replicas the balancer may send it to
  NoKey,
  Cap,         \* max_concurrent_runs of a replica
  RateLimit,   \* runs per window
  Quota,       \* daily_run_quota
  MaxCrashes   \* bound: crashes and deploys of a behaviour

Key == (UNION {KeysOf[r] : r \in Request}) \ {NoKey}

ASSUME DoorAssumption ==
  /\ {Cap, RateLimit, Quota, MaxCrashes} \subseteq Nat
  /\ Turn \subseteq Request
  /\ \A r \in Request : SitesOf[r] \subseteq Replica

VARIABLES req,      \* req[r]: the handler
          runs,     \* rows of sessions, in creation order
          keys,     \* keys[k]: absent, claimed, or the run its response names
          rate, quota,   \* rows of rate_limits
          live,     \* live[p]: _live_run_ids
          mode,     \* mode[p]: up | draining | down
          crashes

doorVars == <<req, runs, keys, rate, quota, live, mode, crashes>>

Absent == 0
Claimed == -1

Root == [conv |-> 1, turn |-> 1, status |-> "done", key |-> NoKey, at |-> "none"]

DoorInit ==
  /\ req = [r \in Request |-> [pc |-> "new", key |-> NoKey, at |-> "none",
                             turn |-> 0, run |-> 0]]
  /\ runs = <<Root>>
  /\ keys = [k \in Key |-> Absent]
  /\ rate = 0 /\ quota = 0
  /\ live = [p \in Replica |-> {}]
  /\ mode = [p \in Replica |-> "up"]
  /\ crashes = 0

Answered == {"refused", "accepted", "failed", "lost"}

Goto(r, pc) == req' = [req EXCEPT ![r].pc = pc]

On(r) == mode[req[r].at] # "down"

-----------------------------------------------------------------------------
\* A POST reaches replica p: draining, then capacity, before any await.
Arrive(r, p) ==
  /\ req[r].pc = "new" /\ mode[p] # "down"
  /\ \E k \in KeysOf[r] :
       req' = [req EXCEPT
         ![r].at = p,
         ![r].key = k,
         ![r].pc = IF mode[p] = "draining" \/ Cardinality(live[p]) >= Cap
                   THEN "refused"
                   ELSE IF r \in Turn THEN "turns" ELSE "rate"]
  /\ UNCHANGED <<runs, keys, rate, quota, live, mode, crashes>>

ConvTurns == {i \in DOMAIN runs : runs[i].conv = 1}

\* turns[-1] of get_turns, ordered by turn.
LatestTurns == {i \in ConvTurns : \A j \in ConvTurns : runs[j].turn <= runs[i].turn}

\* create_turn reads the conversation: 409 while its latest turn is live.  Of
\* two rows with one turn number either may come last.
ReadTurns(r) ==
  /\ req[r].pc = "turns" /\ On(r)
  /\ \E i \in LatestTurns :
       req' = [req EXCEPT ![r].turn = runs[i].turn + 1,
                          ![r].pc = IF runs[i].status = "running" THEN "refused"
                                                                  ELSE "rate"]
  /\ UNCHANGED <<runs, keys, rate, quota, live, mode, crashes>>

\* check_rate_limit: one statement raises the counter and returns it.
Within(n, limit) == n <= limit

ChargeRate(r) ==
  /\ req[r].pc = "rate" /\ On(r)
  /\ rate' = rate + 1
  /\ Goto(r, IF Within(rate + 1, RateLimit) THEN "quota" ELSE "refused")
  /\ UNCHANGED <<runs, keys, quota, live, mode, crashes>>

ChargeQuota(r) ==
  /\ req[r].pc = "quota" /\ On(r)
  /\ quota' = quota + 1
  /\ Goto(r, IF Within(quota + 1, Quota) THEN "claim" ELSE "refused")
  /\ UNCHANGED <<runs, keys, rate, live, mode, crashes>>

\* Mutant: a key without a stored response is free.
WinsUnsealed(k) == keys[k] \in {Absent, Claimed}

\* INSERT ... ON CONFLICT DO NOTHING RETURNING: the first writer wins.
Wins(k) == keys[k] = Absent

\* claim_idempotency's insert; without a key the guard is inactive.
Claim(r) ==
  /\ req[r].pc = "claim" /\ On(r)
  /\ LET k == req[r].key IN
       IF k = NoKey
       THEN Goto(r, "create") /\ UNCHANGED keys
       ELSE IF Wins(k)
       THEN Goto(r, "create") /\ keys' = [keys EXCEPT ![k] = Claimed]
       ELSE Goto(r, "lookup") /\ UNCHANGED keys
  /\ UNCHANGED <<runs, rate, quota, live, mode, crashes>>

\* get_idempotency_result, a statement of its own: replay, or 409 in flight.
Lookup(r) ==
  /\ req[r].pc = "lookup" /\ On(r)
  /\ LET k == req[r].key IN
       req' = IF keys[k] = Claimed
              THEN [req EXCEPT ![r].pc = "refused"]
              ELSE [req EXCEPT ![r].pc = "accepted", ![r].run = keys[k]]
  /\ UNCHANGED <<runs, keys, rate, quota, live, mode, crashes>>

\* store.create: the row, running, with a lease of this replica.
Create(r) ==
  /\ req[r].pc = "create" /\ On(r)
  /\ LET new == Len(runs) + 1 IN
       /\ runs' = Append(runs,
            [conv   |-> IF r \in Turn THEN 1 ELSE new,
             turn   |-> IF r \in Turn THEN req[r].turn ELSE 1,
             status |-> "running", key |-> req[r].key, at |-> "none"])
       /\ req' = [req EXCEPT ![r].pc = "start", ![r].run = new]
  /\ UNCHANGED <<keys, rate, quota, live, mode, crashes>>

\* publish(run_created), for a turn get_history, then create_task and
\* _track_run without an await between them.
Start(r) ==
  /\ req[r].pc = "start" /\ On(r)
  /\ LET p == req[r].at IN
       /\ live' = [live EXCEPT ![p] = @ \cup {req[r].run}]
       /\ runs' = [runs EXCEPT ![req[r].run].at = p]
  /\ Goto(r, "seal")
  /\ UNCHANGED <<keys, rate, quota, mode, crashes>>

\* idem.store, then the 202.
Seal(r) ==
  /\ req[r].pc = "seal" /\ On(r)
  /\ keys' = IF req[r].key = NoKey THEN keys
             ELSE [keys EXCEPT ![req[r].key] = req[r].run]
  /\ Goto(r, "accepted")
  /\ UNCHANGED <<runs, rate, quota, live, mode, crashes>>

\* The database refuses a statement after the claim: 500, nothing undone.
Fail(r) ==
  /\ req[r].pc \in {"create", "start", "seal"} /\ On(r)
  /\ Goto(r, "failed")
  /\ UNCHANGED <<runs, keys, rate, quota, live, mode, crashes>>

-----------------------------------------------------------------------------
\* A run's task finishes: the terminal row, then the done callback.
EndRun(p, i) ==
  /\ mode[p] # "down" /\ i \in live[p]
  /\ runs' = [runs EXCEPT ![i].status = "done"]
  /\ live' = [live EXCEPT ![p] = @ \ {i}]
  /\ UNCHANGED <<req, keys, rate, quota, mode, crashes>>

Drain(p) ==
  /\ mode[p] = "up" /\ crashes < MaxCrashes
  /\ mode' = [mode EXCEPT ![p] = "draining"]
  /\ crashes' = crashes + 1
  /\ UNCHANGED <<req, runs, keys, rate, quota, live>>

\* The replica is gone, its handlers and tasks with it: a crash, or the end of
\* a drain, which first fails the runs tracked at that moment.
Stop(p) ==
  /\ \/ mode[p] = "up" /\ crashes < MaxCrashes
        /\ crashes' = crashes + 1 /\ UNCHANGED runs
     \/ mode[p] = "draining" /\ UNCHANGED crashes
        /\ runs' = [i \in DOMAIN runs |->
                      IF i \in live[p] THEN [runs[i] EXCEPT !.status = "failed"]
                                       ELSE runs[i]]
  /\ mode' = [mode EXCEPT ![p] = "down"]
  /\ live' = [live EXCEPT ![p] = {}]
  /\ req'  = [r \in Request |->
                IF req[r].at = p /\ req[r].pc \notin Answered
                THEN [req[r] EXCEPT !.pc = "lost"] ELSE req[r]]
  /\ UNCHANGED <<keys, rate, quota>>

Restart(p) ==
  /\ mode[p] = "down"
  /\ mode' = [mode EXCEPT ![p] = "up"]
  /\ UNCHANGED <<req, runs, keys, rate, quota, live, crashes>>

\* No process works on the run or is about to.
Abandoned(i) ==
  /\ \A p \in Replica : i \notin live[p]
  /\ \A r \in Request : req[r].run = i => req[r].pc \in Answered

\* Mutant: only a run whose task was started is looked at.
ReapStarted(i) ==
  /\ runs[i].status = "running" /\ Abandoned(i) /\ runs[i].at # "none"
  /\ runs' = [runs EXCEPT ![i].status = "failed"]
  /\ UNCHANGED <<req, keys, rate, quota, live, mode, crashes>>

\* reclaim_expired_leases: the row holds a lease from its creation on, so a run
\* nobody renews is reaped whether or not its task ever started.
Reap(i) ==
  /\ runs[i].status = "running" /\ Abandoned(i)
  /\ runs' = [runs EXCEPT ![i].status = "failed"]
  /\ UNCHANGED <<req, keys, rate, quota, live, mode, crashes>>

Handle(r) ==
  \/ ReadTurns(r) \/ ChargeRate(r) \/ ChargeQuota(r) \/ Claim(r) \/ Lookup(r)
  \/ Create(r) \/ Start(r) \/ Seal(r)

ReapAny == \E i \in DOMAIN runs : Reap(i)

DoorNext ==
  \/ \E r \in Request : Handle(r) \/ Fail(r) \/ \E p \in SitesOf[r] : Arrive(r, p)
  \/ \E p \in Replica : \/ Drain(p) \/ Stop(p) \/ Restart(p)
                        \/ \E i \in DOMAIN runs : EndRun(p, i)
  \/ ReapAny

DoorSpec == DoorInit /\ [][DoorNext]_doorVars

\* Handlers go on while their replica is up; a started run ends (RunLifecycle);
\* the reaper loop runs on every replica, and a replica that went down comes
\* back.  Arrivals, crashes, deploys and database errors are the environment's.
FairDoor ==
  /\ DoorSpec
  /\ \A r \in Request : WF_doorVars(Handle(r))
  /\ \A p \in Replica : /\ WF_doorVars(\E i \in DOMAIN runs : EndRun(p, i))
                        /\ WF_doorVars(mode[p] = "draining" /\ Stop(p))
                        /\ WF_doorVars(Restart(p))
  /\ WF_doorVars(ReapAny)

-----------------------------------------------------------------------------
RunsOf(k) == {i \in DOMAIN runs : runs[i].key = k}

\* An Idempotency-Key names one run: however often and wherever the request is
\* repeated, one run is created under the key and every 202 names that run.
KeyNamesOneRun ==
  \A k \in Key :
    /\ Cardinality(RunsOf(k)) <= 1
    /\ \A r \in Request : req[r].pc = "accepted" /\ req[r].key = k
         => req[r].run \in RunsOf(k)

Running(n) == n \in DOMAIN runs /\ runs[n].status = "running"

\* Every run row reaches a terminal status, also one whose handler failed or
\* died between the insert and the start of its task.
EveryRunRowEnds ==
  \A n \in 2 .. Cardinality(Request) + 1 :
    Running(n) ~> ~Running(n)

\* create_turn's docstring: turns are strictly sequential, so only one is ever
\* running.
TurnsSequential ==
  Cardinality({i \in ConvTurns : runs[i].status = "running"}) <= 1
=============================================================================
