-------------------------- MODULE InventoryRefresh --------------------------
(***************************************************************************)
(* Durable inventory refresh (toto_gateway/benchmarking/platform.py,       *)
(* inventory.py and the operation, alias and snapshot tables of            *)
(* platform_store.py): replicas accept refresh operations under an         *)
(* idempotency key, execute them under a lease with a heartbeat, commit    *)
(* one snapshot per provider behind an execution fence, settle the         *)
(* operation, recover operations whose executor died, and prune old ones.  *)
(*                                                                         *)
(* A database statement or transaction is one step; a coroutine's awaits   *)
(* separate its steps.  task[w][o] is the asyncio task of o in replica w   *)
(* (_operation_tasks holds at most one per operation) and its heartbeat.   *)
(*                                                                         *)
(* Abstractions.  Wall clocks appear as what is compared with them: a      *)
(* lease is valid or has expired; completed_at of a discovery is its rank, *)
(* times two to leave room for the microsecond that _alias_decisions adds, *)
(* less what the replica's clock lags behind.  A provider has one upstream *)
(* model, hence one alias and one identity.  Retention (24 h) ends at any  *)
(* time.  Awaits that touch nothing the others read are one step with      *)
(* their neighbour.                                                        *)
(* Publishing candidates to the router is CandidateSync.                   *)
(***************************************************************************)
EXTENDS Naturals, Sequences, FiniteSets

CONSTANTS
  Worker,      \* replicas
  Op,          \* operation ids (uuids: a new one for each accepted operation)
  Key,         \* idempotency keys (actor, scope, target and key)
  Provider,    \* inventory providers
  Intent,      \* Intent[k]: the providers of the plan submitted under key k
  Anonymous,   \* providers whose model has no usable fingerprint
  Outcome,     \* how a discovery ends: success, partial, failed
  Lag,         \* how far a replica's clock may be behind, in ranks
  MaxOther,    \* bound: commits of other credential scopes, changes of the key
  MaxFaults,   \* bound: crashes, store errors and stalled heartbeats
  Nobody, NoKey

\* providers_are_nonempty_and_unique, the validator of an intent.
NonEmptyAndUnique(plan) ==
  plan # <<>> /\ \A i, j \in DOMAIN plan : plan[i] = plan[j] => i = j

ASSUME RefreshAssumption ==
  /\ MaxFaults \in Nat /\ MaxOther \in Nat /\ Lag \in Nat
  /\ \A k \in Key : Intent[k] \in Seq(Provider) /\ NonEmptyAndUnique(Intent[k])
  /\ Anonymous \subseteq Provider
  /\ Outcome \subseteq {"success", "partial", "failed"}

VARIABLES
  ops,      \* inventory_refresh_operations
  task,     \* task[w][o]
  up,       \* up[w]: the platform of replica w is open
  inc,      \* inc[w]: incarnation, part of _worker_id (a uuid per start)
  alias,    \* alias[p]: decided_at of the active alias decision, 0 for none
  ident,    \* providers whose model's identity is in model_identities
  snaps,    \* committed inventory snapshots
  stamp,    \* completed discoveries so far
  stored,   \* the target's provider key: absent, user or broken (unreadable)
  others,   \* commits of other credential scopes and changes of the key so far
  faults    \* faults so far

vars == <<ops, task, up, inc, alias, ident, snaps, stamp, stored, others, faults>>

\* _OPERATION_TERMINAL; cancelled is never written by the platform.
Terminal == {"succeeded", "partial", "failed"}

NoOp == [status |-> "absent", key |-> NoKey, plan |-> <<>>, scope |-> "none",
         owner |-> Nobody, expired |-> FALSE, term |-> 0]
NoTask == [pc |-> "none", term |-> 0, scope |-> "none", seen |-> [p \in Provider |-> 0],
           known |-> {}, got |-> <<>>, at |-> 0, k |-> 1, fence |-> FALSE]

\* _worker_id.
Me(w) == <<w, inc[w]>>

Init ==
  /\ ops = [o \in Op |-> NoOp]
  /\ task = [w \in Worker |-> [o \in Op |-> NoTask]]
  /\ up = [w \in Worker |-> TRUE]
  /\ inc = [w \in Worker |-> 0]
  /\ alias = [p \in Provider |-> 0]
  /\ ident = {}
  /\ snaps = {}
  /\ stamp = 0
  /\ stored \in {"absent", "user"}
  /\ others = 0
  /\ faults = 0

-----------------------------------------------------------------------------
\* The operation table.

\* Rows that count for a key: the unique index of the claim.
UnderKey(k) == {o \in Op : ops[o].key = k /\ ops[o].status \notin {"absent", "forgotten"}}

\* claim_inventory_refresh_execution: queued, or running with an expired lease.
Claimable(o) ==
  \/ ops[o].status = "queued"
  \/ ops[o].status = "running" /\ ops[o].expired

\* Running under this replica's id: the guard of renew and finish.
Holds(w, o) == ops[o].status = "running" /\ ops[o].owner = Me(w)

SetTask(w, o, t) == task' = [task EXCEPT ![w][o] = t]
Leave(w, o, at) == SetTask(w, o, [NoTask EXCEPT !.pc = at])

\* _schedule_operation of each operation in O: a no-op when the replica has a
\* task for it.
Schedule(w, O) ==
  task' = [task EXCEPT ![w] =
    [o \in Op |-> IF o \in O /\ @[o].pc = "none" THEN [NoTask EXCEPT !.pc = "claim"]
                                                  ELSE @[o]]]

\* resolve_provider_credentials: the scope of the key that a refresh for this
\* target runs with.  A stored key beats the platform's; one that is stored and
\* cannot be read is never replaced by it.
Selected(key) ==
  CASE key = "user" -> "user"
    [] key = "absent" -> "platform"
    [] OTHER -> "unavailable"

\* compile, for the scope effective: the plan names the scope it was compiled
\* for; an unreadable key is a 409.
Compiles(scope) == scope # "unavailable"

\* The fingerprint of a plan covers its intent and its scope: under a key in use
\* another plan is a 409 that changes nothing.
SamePlan(o, k, scope) == ops[o].plan = Intent[k] /\ ops[o].scope = scope

\* submit: insert the operation under its key, or find the one that is there;
\* schedule it unless it has settled.
Accept(w, k, scope) ==
  IF UnderKey(k) = {}
  THEN \E o \in Op :
         /\ ops[o].status = "absent"
         /\ ops' = [ops EXCEPT ![o] = [NoOp EXCEPT !.status = "queued", !.key = k,
                                         !.plan = Intent[k], !.scope = scope]]
         /\ Schedule(w, {o})
  ELSE \E o \in UnderKey(k) :
         /\ SamePlan(o, k, scope)
         /\ ops[o].status \notin Terminal /\ task[w][o].pc = "none"
         /\ Schedule(w, {o})
         /\ UNCHANGED ops

\* compile and submit, of a client's refresh.
Submit(w, k) ==
  /\ up[w]
  /\ Compiles(Selected(stored))
  /\ Accept(w, k, Selected(stored))
  /\ UNCHANGED <<up, inc, alias, ident, snaps, stamp, others, faults, stored>>

Rekeyed(key) ==
  /\ others < MaxOther
  /\ others' = others + 1
  /\ stored # key /\ stored' = key
  /\ UNCHANGED <<up, inc, alias, ident, snaps, stamp, faults>>

\* refresh_scoped_inventory: a refresh under a key of its own; a failure is
\* swallowed.
RefreshScoped(w) ==
  \/ \E k \in Key : UnderKey(k) = {} /\ Accept(w, k, "user")
  \/ UNCHANGED <<ops, task>>

\* PUT /v1/credentials/{provider}.
PutCredential(w) == up[w] /\ Rekeyed("user") /\ RefreshScoped(w)

\* DELETE /v1/credentials/{provider}.
DeleteCredential == Rekeyed("absent") /\ UNCHANGED <<ops, task>>

\* The at-rest secret is replaced without the old one: the row no longer
\* decrypts.
SecretLost == stored = "user" /\ Rekeyed("broken") /\ UNCHANGED <<ops, task>>

-----------------------------------------------------------------------------
\* _run_refresh.

\* Claim the execution: one conditional update; the heartbeat starts.  The
\* operation's term, which the code does not store, counts the claims.
Claim(w, o) ==
  /\ task[w][o].pc = "claim"
  /\ IF Claimable(o)
     THEN /\ ops' = [ops EXCEPT ![o].status = "running", ![o].owner = Me(w),
                                ![o].expired = FALSE, ![o].term = @ + 1]
          /\ SetTask(w, o, [task[w][o] EXCEPT !.pc = "context",
                                              !.term = ops[o].term + 1])
     ELSE SetTask(w, o, NoTask) /\ UNCHANGED ops
  /\ UNCHANGED <<up, inc, alias, ident, snaps, stamp, others, faults, stored>>

\* _requests_from_operation: the credentials are resolved again, perhaps long
\* after compile and on another replica; the scope must still be the plan's.
SameScope(o) == Selected(stored) = ops[o].scope

\* The requests, and reconciliation_context: the alias decisions and the
\* identities are read here and used much later.
Context(w, o) ==
  /\ task[w][o].pc = "context"
  /\ IF SameScope(o)
     THEN SetTask(w, o, [task[w][o] EXCEPT !.pc = "discover", !.scope = Selected(stored),
                                           !.seen = alias, !.known = ident])
     ELSE Leave(w, o, "failing")
  /\ UNCHANGED <<ops, up, inc, alias, ident, snaps, stamp, others, faults, stored>>

\* reconcile: the offers that need a new identity.  An approved alias names the
\* identity, and so does the only known one with the same usable fingerprint.
Creates(t, offered) ==
  {p \in offered : t.seen[p] = 0 /\ (p \in Anonymous \/ p \notin t.known)}

\* ensure_identities raises when a new identity is there with other content.
\* created_at is content: one that another execution inserted always differs.
Clashes(new) == new \cap ident # {}

\* refresh: the discoveries run concurrently and are gathered; a failed one
\* is a result like any other (_discover).  completed_at is read after them;
\* then the new identities are inserted.
Discover(w, o) ==
  /\ task[w][o].pc = "discover"
  /\ stamp' = stamp + 1
  /\ \E got \in [DOMAIN ops[o].plan -> Outcome], lag \in 0..Lag :
       LET t == task[w][o]
           new == Creates(t, {ops[o].plan[i] : i \in {j \in DOMAIN got : got[j] # "failed"}})
       IN  IF Clashes(new)
           THEN Leave(w, o, "clash") /\ UNCHANGED ident
           ELSE /\ ident' = ident \cup new
                /\ SetTask(w, o, [t EXCEPT !.pc = "commit", !.got = got, !.known = {},
                                    !.at = IF lag > stamp THEN 1 ELSE 2 * (stamp + 1 - lag)])
  /\ UNCHANGED <<ops, up, inc, alias, snaps, others, faults, stored>>

\* The fence is built from the clock now; the transaction that compares it
\* with the lease runs later.
CommitSend(w, o) ==
  /\ task[w][o].pc = "commit"
  /\ SetTask(w, o, [task[w][o] EXCEPT !.pc = "sent",
                      !.fence = Holds(w, o) /\ ~ops[o].expired])
  /\ UNCHANGED <<ops, up, inc, alias, ident, snaps, stamp, others, faults, stored>>

\* Mutant: the fence does not look at the owner.
FencedByStatus(w, o) == ops[o].status = "running"

\* _assert_inventory_execution_fence: running, still ours, and the lease ends
\* after the fence's time.
Fenced(w, o) == Holds(w, o) /\ task[w][o].fence

\* decided_at: completed_at, or just after the decision seen at the start.
DecidedAt(t, p) == IF t.at > t.seen[p] THEN t.at ELSE t.seen[p] + 1

\* Mutant: no test against the active decision.
NewerAlways(t, p) == TRUE

\* _check_alias_order.
Newer(t, p) == DecidedAt(t, p) > alias[p]

\* _alias_decisions: a snapshot without offers decides nothing.
Decides(t) == t.got[t.k] # "failed"

\* commit_reconciled_inventory: fence, alias decisions, snapshot and offers in
\* one transaction; any of them refusing rolls it back and raises.
CommitApply(w, o) ==
  /\ task[w][o].pc = "sent"
  /\ LET t == task[w][o]
         p == ops[o].plan[t.k]
     IN  IF Fenced(w, o) /\ (Decides(t) => Newer(t, p))
         THEN /\ alias' = IF Decides(t) THEN [alias EXCEPT ![p] = DecidedAt(t, p)] ELSE alias
              /\ snaps' = snaps \cup {[op |-> o, term |-> t.term, provider |-> p,
                                       scope |-> t.scope, status |-> t.got[t.k]]}
              /\ SetTask(w, o, [t EXCEPT !.k = @ + 1, !.fence = FALSE,
                                  !.pc = IF t.k < Len(ops[o].plan) THEN "commit" ELSE "finish"])
         ELSE Leave(w, o, "failing") /\ UNCHANGED <<alias, snaps>>
  /\ UNCHANGED <<ops, up, inc, ident, stamp, others, faults, stored>>

Statuses(t) == {t.got[i] : i \in DOMAIN t.got}

\* Mutant: one complete provider makes a success.
VerdictLax(t) == IF "success" \in Statuses(t) THEN "succeeded" ELSE "failed"

Verdict(t) ==
  CASE Statuses(t) = {"success"} -> "succeeded"
    [] Statuses(t) = {"failed"} -> "failed"
    [] OTHER -> "partial"

\* finish_inventory_refresh_execution.
Settle(w, o, s) ==
  IF Holds(w, o)
  THEN ops' = [ops EXCEPT ![o].status = s, ![o].owner = Nobody, ![o].expired = FALSE]
  ELSE UNCHANGED ops

\* Finish; a persisted success also synchronises this replica's candidates,
\* still under the heartbeat.
Finish(w, o) ==
  /\ task[w][o].pc = "finish"
  /\ Settle(w, o, Verdict(task[w][o]))
  /\ IF Holds(w, o) /\ "success" \in Statuses(task[w][o])
     THEN Leave(w, o, "sync")
     ELSE SetTask(w, o, NoTask)
  /\ UNCHANGED <<up, inc, alias, ident, snaps, stamp, others, faults, stored>>

\* _sync_candidate_partitions returned or raised; the task ends.
Synced(w, o) ==
  /\ task[w][o].pc = "sync"
  /\ SetTask(w, o, NoTask)
  /\ UNCHANGED <<ops, up, inc, alias, ident, snaps, stamp, others, faults, stored>>

\* except Exception: the operation is settled as failed.
FinishFailed(w, o) ==
  /\ task[w][o].pc \in {"failing", "clash"}
  /\ Settle(w, o, "failed")
  /\ SetTask(w, o, NoTask)
  /\ UNCHANGED <<up, inc, alias, ident, snaps, stamp, others, faults, stored>>

\* A refresh of another credential scope, reduced to its commit: alias
\* decisions are keyed by provider and model, not by scope.
OtherScopeCommits(p) ==
  /\ others < MaxOther
  /\ others' = others + 1
  /\ stamp' = stamp + 1
  /\ alias' = [alias EXCEPT ![p] = 2 * (stamp + 1)]
  /\ ident' = ident \cup {p}
  /\ UNCHANGED <<ops, task, up, inc, snaps, faults, stored>>

-----------------------------------------------------------------------------
\* Failures, leases and maintenance.

Fault == faults < MaxFaults /\ faults' = faults + 1

\* An await of the body raises: a credential that is gone, the store, an
\* identity conflict.  A raise while claiming or while settling ends the task.
Raises(w, o) ==
  /\ Fault
  /\ \/ task[w][o].pc \in {"context", "discover", "sent", "finish"} /\ Leave(w, o, "failing")
     \/ task[w][o].pc \in {"claim", "failing", "clash"} /\ SetTask(w, o, NoTask)
  /\ UNCHANGED <<ops, up, inc, alias, ident, snaps, stamp, others, stored>>

Beating(w, o) == task[w][o].pc \notin {"none", "claim"}

\* _renew_execution_lease: the lease starts again as long as the row is ours,
\* expired or not; otherwise the task is cancelled, and CancelledError is not
\* an Exception: nothing is settled.
Renew(w, o) ==
  /\ Beating(w, o)
  /\ IF Holds(w, o)
     THEN /\ ops[o].expired
          /\ ops' = [ops EXCEPT ![o].expired = FALSE]
          /\ SetTask(w, o, [task[w][o] EXCEPT !.fence = (@ \/ task[w][o].pc = "sent")])
     ELSE SetTask(w, o, NoTask) /\ UNCHANGED ops
  /\ UNCHANGED <<up, inc, alias, ident, snaps, stamp, others, faults, stored>>

\* The renewal raises: ownership is uncertain, the task is cancelled.
RenewFails(w, o) ==
  /\ Fault
  /\ Beating(w, o)
  /\ SetTask(w, o, NoTask)
  /\ UNCHANGED <<ops, up, inc, alias, ident, snaps, stamp, others, stored>>

LiveHolder(o) == \E w \in Worker : up[w] /\ Holds(w, o) /\ Beating(w, o)

\* A lease runs out.  The heartbeat beats three times per lease: that it runs
\* out under a live holder takes a stalled event loop or store, a fault.
LeaseExpires(o) ==
  /\ ops[o].status = "running" /\ ~ops[o].expired
  /\ IF LiveHolder(o) THEN Fault ELSE UNCHANGED faults
  /\ ops' = [ops EXCEPT ![o].expired = TRUE]
  /\ UNCHANGED <<task, up, inc, alias, ident, snaps, stamp, others, stored>>

\* close() cancels every task, a crash loses them: nothing is settled.
Stop(w) ==
  /\ Fault
  /\ up[w]
  /\ up' = [up EXCEPT ![w] = FALSE]
  /\ task' = [task EXCEPT ![w] = [o \in Op |-> NoTask]]
  /\ UNCHANGED <<ops, inc, alias, ident, snaps, stamp, others, stored>>

Recoverable == {o \in Op : Claimable(o)}

\* start(): a new worker id, then _recover_operations.
Start(w) ==
  /\ ~up[w]
  /\ up' = [up EXCEPT ![w] = TRUE]
  /\ inc' = [inc EXCEPT ![w] = @ + 1]
  /\ Schedule(w, Recoverable)
  /\ UNCHANGED <<ops, alias, ident, snaps, stamp, others, faults, stored>>

\* prune_inventory_refresh_operations, in submit and in the maintenance loop:
\* settled operations past their retention are deleted.
Prune(o) ==
  /\ ops[o].status \in Terminal
  /\ \E w \in Worker : up[w]
  /\ ops' = [ops EXCEPT ![o].status = "forgotten"]
  /\ UNCHANGED <<task, up, inc, alias, ident, snaps, stamp, others, faults, stored>>

\* Mutant: only operations that were never started are recovered.
RecoverQueued(w) ==
  /\ up[w]
  /\ Schedule(w, {o \in Op : ops[o].status = "queued"})
  /\ UNCHANGED <<ops, up, inc, alias, ident, snaps, stamp, others, faults, stored>>

\* _recover_operations, in each round of _maintain_operations.  (A round that
\* raises is followed by the next.)
Recover(w) ==
  /\ up[w]
  /\ Schedule(w, Recoverable)
  /\ UNCHANGED <<ops, up, inc, alias, ident, snaps, stamp, others, faults, stored>>

Run(w, o) ==
  \/ Claim(w, o) \/ Context(w, o) \/ Discover(w, o)
  \/ CommitSend(w, o) \/ CommitApply(w, o)
  \/ Finish(w, o) \/ Synced(w, o) \/ FinishFailed(w, o)

Next ==
  \/ \E o \in Op : LeaseExpires(o) \/ Prune(o)
  \/ \E p \in Provider : OtherScopeCommits(p)
  \/ DeleteCredential \/ SecretLost
  \/ \E w \in Worker :
       \/ PutCredential(w) \/ Stop(w) \/ Start(w) \/ Recover(w)
       \/ \E k \in Key : Submit(w, k)
       \/ \E o \in Op : Run(w, o) \/ Raises(w, o) \/ Renew(w, o) \/ RenewFails(w, o)

Spec == Init /\ [][Next]_vars

\* Awaits end (discovery has timeouts), a lease nobody renews runs out, the
\* maintenance loop runs for as long as the process does, and a stopped
\* replica is restarted.
FairSpec ==
  /\ Spec
  /\ \A o \in Op : WF_vars(LeaseExpires(o) /\ faults' = faults)
  /\ \A w \in Worker :
       /\ WF_vars(Start(w)) /\ WF_vars(Recover(w))
       /\ \A o \in Op : WF_vars(Run(w, o))

-----------------------------------------------------------------------------
\* InventoryLedger: whatever replicas, leases and failures do, snapshots
\* enter the inventory only under the current execution of their operation,
\* once per provider, and an operation settles once, succeeding only on
\* evidence of the execution that settled it.
Ledger == INSTANCE InventoryLedger WITH
  Settled <- Terminal,
  phase <- [o \in Op |-> ops[o].status],
  names <- [o \in Op |-> {ops[o].plan[i] : i \in DOMAIN ops[o].plan}],
  term <- [o \in Op |-> ops[o].term],
  evidence <- {<<s.op, s.term, s.provider>> : s \in snaps}

ImplementsLedger == Ledger!Spec

\* finish_inventory_refresh_execution: what an operation reports is what the
\* inventory holds from its last execution - succeeded: a complete snapshot
\* of every provider; partial: a snapshot of every provider, not all complete
\* and not all failed.  And the inventory holds it under the credential scope
\* the plan was compiled for, whatever became of the key meanwhile.
OutcomeBacked ==
  \A o \in Op :
    LET of == {s \in snaps : s.op = o /\ s.term = ops[o].term}
        stats == {s.status : s \in of}
    IN  /\ \A s \in snaps : s.op = o => s.scope = ops[o].scope
        /\ ops[o].status \in {"succeeded", "partial"} =>
          /\ \A i \in DOMAIN ops[o].plan : \E s \in of : s.provider = ops[o].plan[i]
          /\ ops[o].status = "succeeded" <=> stats = {"success"}
          /\ stats # {"failed"}

\* _check_alias_order: the active alias of a model is never replaced by the
\* decision of an older discovery, however late that one commits.
AliasesMoveForward ==
  [][\A p \in Provider : alias'[p] >= alias[p]]_vars

\* Every accepted operation settles, through crashes, cancelled tasks and
\* lost leases, as long as the faults stop.
EveryOperationSettles ==
  \A o \in Op : (ops[o].status \in {"queued", "running"})
                  ~> (ops[o].status \in Terminal \cup {"forgotten"})

\* ensure_identities: "equal concurrent writes converge" - reconciling the same
\* model twice is no conflict of content.
EqualIdentitiesConverge ==
  \A w \in Worker, o \in Op : task[w][o].pc # "clash"
=============================================================================
