-------------------------- MODULE InventoryProofs --------------------------
(***************************************************************************)
(* Inventory refresh operations, for any number of replicas, operations,   *)
(* providers and faults: what an operation reports is backed by the        *)
(* snapshots of the execution that settled it, alias decisions never go    *)
(* back, and InventoryRefresh implements InventoryLedger.                  *)
(*                                                                         *)
(* The invariant says what an execution knows about itself for as long as  *)
(* the row is its own: its term is the operation's, its scope the plan's,  *)
(* and the snapshots of the term are the ones it has committed so far.     *)
(* Executions that lost the row know nothing, and need nothing: the fence  *)
(* keeps them out.                                                         *)
(***************************************************************************)
EXTENDS InventoryRefresh, ProviderDiscovery, SequenceTheorems, WellFoundedInduction,
        TLAPS

Step == {"none", "claim", "context", "discover", "commit", "sent", "finish",
         "sync", "failing", "clash"}
Scope == {"none", "user", "platform", "unavailable"}

OpRow == [status : {"absent", "queued", "running", "forgotten"} \cup Terminal,
          key : Key \cup {NoKey}, plan : Seq(Provider), scope : Scope,
          owner : (Worker \X Nat) \cup {Nobody}, expired : BOOLEAN, term : Nat]
Task == [pc : Step, term : Nat, scope : Scope, seen : [Provider -> Nat],
         known : SUBSET Provider, got : Seq(Outcome), at : Nat, k : Nat,
         fence : BOOLEAN]
Snap == [op : Op, term : Nat, provider : Provider, scope : Scope, status : Outcome]

TypeOK ==
  /\ ops \in [Op -> OpRow]
  /\ task \in [Worker -> [Op -> Task]]
  /\ up \in [Worker -> BOOLEAN]
  /\ inc \in [Worker -> Nat]
  /\ alias \in [Provider -> Nat]
  /\ ident \subseteq Provider
  /\ snaps \subseteq Snap
  /\ stamp \in Nat
  /\ stored \in {"absent", "user", "broken"}

\* No alias decision is ahead of the discoveries.
AliasInv == \A p \in Provider : alias[p] <= 2 * stamp

\* What a task says about itself, whoever owns the row: a stopped replica has
\* none, providers are committed from the first, and the alias decisions it saw
\* are older than the discovery that follows.
Own(w, o) ==
  LET t == task[w][o] IN
    /\ ~up[w] => t.pc = "none"
    /\ t.pc \in {"claim", "context", "discover"} => t.k = 1
    /\ t.pc = "discover" => \A p \in Provider : t.seen[p] <= 2 * stamp
    /\ t.pc \in {"commit", "sent"} =>
         /\ t.at <= 2 * stamp
         /\ \A p \in Provider : t.seen[p] + 2 <= 2 * stamp

\* s is a snapshot of the current term of o.
Current(s, o) == s.op = o /\ s.term = ops[o].term

\* What the rows of an operation and its snapshots have to do with each other.
OpInv(o) ==
  LET n == ops[o] IN
    /\ n.status = "absent" => n.term = 0
    /\ n.status = "running" => n.term # 0
    /\ n.status # "absent" => NonEmptyAndUnique(n.plan)
    /\ \A s \in snaps : s.op = o => s.term \in 1..n.term /\ s.scope = n.scope
    /\ n.status \in {"succeeded", "partial"} =>
         /\ \A i \in DOMAIN n.plan : \E s \in snaps : Current(s, o) /\ s.provider = n.plan[i]
         /\ n.status = "succeeded" <=> (\A s \in snaps : Current(s, o) => s.status = "success")
         /\ \E s \in snaps : Current(s, o) /\ s.status # "failed"

\* The statements of _run_refresh between the claim and its outcome.
Executing == {"context", "discover", "commit", "sent", "finish"}

\* What an execution knows while the row is its own.
Exec(w, o) ==
  LET t == task[w][o]
      n == ops[o]
  IN  Holds(w, o) /\ t.pc \in Executing =>
        /\ t.term = n.term
        /\ t.pc # "context" => t.scope = n.scope
        /\ t.pc \in {"commit", "sent"} => t.k \in 1..Len(n.plan)
        /\ t.pc = "finish" => t.k = Len(n.plan) + 1
        /\ t.pc \in {"commit", "sent", "finish"} => DOMAIN t.got = DOMAIN n.plan
        /\ \A s \in snaps : Current(s, o) =>
             \E i \in 1..(t.k - 1) : s.provider = n.plan[i] /\ s.status = t.got[i]
        /\ \A i \in 1..(t.k - 1) : \E s \in snaps :
             Current(s, o) /\ s.provider = n.plan[i] /\ s.status = t.got[i]

\* The inductive invariant.
IInv ==
  /\ TypeOK
  /\ AliasInv
  /\ \A w \in Worker, o \in Op : Own(w, o) /\ Exec(w, o)
  /\ \A o \in Op : OpInv(o)

-----------------------------------------------------------------------------
\* The frame: what a step that leaves a task, or a row, alone keeps.

LEMMA FrameOwn ==
  ASSUME TypeOK, NEW w \in Worker, NEW o \in Op, Own(w, o),
         task'[w][o] = task[w][o], up'[w] = up[w],
         stamp' \in Nat, stamp' >= stamp
  PROVE  Own(w, o)'
<1> DEFINE t == task[w][o]
<1>1. stamp \in Nat /\ t.at \in Nat /\ \A p \in Provider : t.seen[p] \in Nat
  BY DEF TypeOK, Task
<1> QED BY <1>1 DEF Own

\* The fields of a row that the invariant reads, owner and lease apart.
SameRow(o) ==
  /\ ops'[o].status = ops[o].status /\ ops'[o].term = ops[o].term
  /\ ops'[o].plan = ops[o].plan /\ ops'[o].scope = ops[o].scope

SameSnaps(o) ==
  /\ \A s \in snaps : s.op = o => s \in snaps'
  /\ \A s \in snaps' : s.op = o => s \in snaps

LEMMA FrameOp ==
  ASSUME NEW o \in Op, OpInv(o), SameRow(o), SameSnaps(o)
  PROVE  OpInv(o)'
<1>1. \A s : s.op = o => (s \in snaps <=> s \in snaps') BY DEF SameSnaps
<1>2. \A s : Current(s, o)' <=> Current(s, o) BY DEF SameRow, Current
<1>3. \A s : Current(s, o) => s.op = o BY DEF Current
<1> QED BY <1>1, <1>2, <1>3 DEF SameRow, OpInv

LEMMA FrameExec ==
  ASSUME NEW w \in Worker, NEW o \in Op, Exec(w, o), SameRow(o), SameSnaps(o),
         ops'[o].owner = ops[o].owner, inc'[w] = inc[w],
         task'[w][o].pc = task[w][o].pc, task'[w][o].term = task[w][o].term,
         task'[w][o].scope = task[w][o].scope, task'[w][o].k = task[w][o].k,
         task'[w][o].got = task[w][o].got
  PROVE  Exec(w, o)'
<1>1. \A s : s.op = o => (s \in snaps <=> s \in snaps') BY DEF SameSnaps
<1>2. \A s : Current(s, o)' <=> Current(s, o) BY DEF SameRow, Current
<1>3. \A s : Current(s, o) => s.op = o BY DEF Current
<1>4. Holds(w, o)' <=> Holds(w, o) BY DEF SameRow, Holds, Me
<1> QED BY <1>1, <1>2, <1>3, <1>4 DEF SameRow, Exec

\* A task that does not execute, or that has lost the row, knows nothing.
LEMMA Idle ==
  ASSUME NEW w \in Worker, NEW o \in Op,
         task'[w][o].pc \notin Executing \/ ~Holds(w, o)'
  PROVE  Exec(w, o)'
BY DEF Exec

LEMMA NoTaskType ==
  /\ NoTask \in Task /\ NoTask.pc = "none" /\ NoTask.k = 1
  /\ \A x \in Step : /\ [NoTask EXCEPT !.pc = x] \in Task
                     /\ [NoTask EXCEPT !.pc = x].pc = x
                     /\ [NoTask EXCEPT !.pc = x].k = 1
<1>1. <<>> \in Seq(Outcome) OBVIOUS
<1>2. [p \in Provider |-> 0] \in [Provider -> Nat] OBVIOUS
<1>3. 1 \in Nat /\ 0 \in Nat OBVIOUS
<1> QED BY <1>1, <1>2, <1>3 DEF NoTask, Task, Step, Scope

LEMMA NoOpType ==
  ASSUME NEW k \in Key, NEW sc \in Scope
  PROVE  /\ NoOp \in OpRow
         /\ [NoOp EXCEPT !.status = "queued", !.key = k, !.plan = Intent[k],
                         !.scope = sc] \in OpRow
<1>1. <<>> \in Seq(Provider) /\ Intent[k] \in Seq(Provider) BY RefreshAssumption
<1>2. 0 \in Nat OBVIOUS
<1> QED BY <1>1, <1>2 DEF NoOp, OpRow, Scope, Terminal

LEMMA TaskSet ==
  ASSUME TypeOK, NEW w \in Worker, NEW o \in Op, NEW t \in Task, SetTask(w, o, t)
  PROVE  /\ task' \in [Worker -> [Op -> Task]]
         /\ task'[w][o] = t
         /\ \A v \in Worker, q \in Op : v # w \/ q # o => task'[v][q] = task[v][q]
BY DEF TypeOK, SetTask

-----------------------------------------------------------------------------
\* Steps.

Rest(w, o) ==
  /\ \A v \in Worker, q \in Op : v # w \/ q # o => task'[v][q] = task[v][q]
  /\ \A q \in Op : q # o => ops'[q] = ops[q] /\ SameSnaps(q)
  /\ up' = up /\ inc' = inc /\ stamp' \in Nat /\ stamp' >= stamp

\* A step of the task of o in w leaves everything about other operations as it
\* was, and what other replicas know about o if they keep the row.
LEMMA StepOne ==
  ASSUME IInv, NEW w \in Worker, NEW o \in Op, Rest(w, o), TypeOK', AliasInv',
         Own(w, o)', Exec(w, o)', OpInv(o)',
         \A v \in Worker : v # w => Exec(v, o)'
  PROVE  IInv'
<1>1. ASSUME NEW v \in Worker, NEW q \in Op, v # w \/ q # o PROVE Own(v, q)'
  BY <1>1, FrameOwn DEF IInv, Rest
<1>2. ASSUME NEW v \in Worker, NEW q \in Op, q # o PROVE Exec(v, q)'
  <2>1. task'[v][q] = task[v][q] /\ SameRow(q) /\ SameSnaps(q)
        /\ ops'[q].owner = ops[q].owner /\ inc'[v] = inc[v]
    BY <1>2 DEF Rest, SameRow
  <2> QED BY <2>1, FrameExec DEF IInv
<1>3. ASSUME NEW q \in Op, q # o PROVE OpInv(q)'
  BY <1>3, FrameOp DEF IInv, Rest, SameRow
<1>4. \A v \in Worker, q \in Op : Own(v, q)' /\ Exec(v, q)'
  BY <1>1, <1>2
<1>5. \A q \in Op : OpInv(q)' BY <1>3
<1> QED BY <1>4, <1>5 DEF IInv

\* The task ends, or goes on to settle: the row stays as it is.
LEMMA StepDrop ==
  ASSUME IInv, NEW w \in Worker, NEW o \in Op, task[w][o].pc # "none",
         NEW x \in {"none", "failing", "clash", "sync"},
         Leave(w, o, x) \/ (x = "none" /\ SetTask(w, o, NoTask)),
         UNCHANGED <<ops, up, inc, alias, snaps, stored>>,
         ident' = ident, stamp' \in {stamp, stamp + 1}
  PROVE  IInv'
<1>1. PICK t \in Task : t.pc = x /\ t.k = 1 /\ SetTask(w, o, t)
  <2>1. CASE Leave(w, o, x) BY <2>1, NoTaskType DEF Leave, Step
  <2>2. CASE x = "none" /\ SetTask(w, o, NoTask) BY <2>2, NoTaskType
  <2> QED BY <2>1, <2>2
<1>2. SetTask(w, o, t) BY <1>1
<1>3. /\ task' \in [Worker -> [Op -> Task]]
      /\ task'[w][o] = t
      /\ \A v \in Worker, q \in Op : v # w \/ q # o => task'[v][q] = task[v][q]
  BY <1>1, <1>2, TaskSet DEF IInv
<1>4. stamp \in Nat /\ stamp' \in Nat /\ stamp' >= stamp BY DEF IInv, TypeOK
<1>5. Rest(w, o) BY <1>3, <1>4 DEF Rest, SameSnaps
<1>6. TypeOK' BY <1>3, <1>4 DEF IInv, TypeOK
<1>7. AliasInv'
  <2>1. \A p \in Provider : alias[p] \in Nat BY DEF IInv, TypeOK
  <2> QED BY <1>4, <2>1 DEF IInv, AliasInv
<1>8. up[w] BY DEF IInv, Own
<1>9. Own(w, o)' BY <1>1, <1>3, <1>8 DEF Own
<1>10. SameRow(o) /\ SameSnaps(o) BY DEF SameRow, SameSnaps
<1>11. Exec(w, o)' BY <1>1, <1>3, Idle DEF Executing
<1>12. OpInv(o)' BY <1>10, FrameOp DEF IInv
<1>13. ASSUME NEW v \in Worker, v # w PROVE Exec(v, o)'
  BY <1>3, <1>10, <1>13, FrameExec DEF IInv
<1> QED BY <1>5, <1>6, <1>7, <1>9, <1>11, <1>12, <1>13, StepOne

\* The lease is renewed, or the fence built: nothing else the invariant reads.
LEMMA StepLease ==
  ASSUME IInv, NEW w \in Worker, NEW o \in Op,
         NEW t \in Task, SetTask(w, o, t),
         t.pc = task[w][o].pc \/ (task[w][o].pc = "commit" /\ t.pc = "sent"),
         t.term = task[w][o].term, t.scope = task[w][o].scope, t.k = task[w][o].k,
         t.got = task[w][o].got, t.seen = task[w][o].seen, t.at = task[w][o].at,
         ops' \in [Op -> OpRow], SameRow(o), ops'[o].owner = ops[o].owner,
         \A q \in Op : q # o => ops'[q] = ops[q],
         UNCHANGED <<up, inc, alias, ident, snaps, stamp, stored>>
  PROVE  IInv'
<1>1. /\ task' \in [Worker -> [Op -> Task]]
      /\ task'[w][o] = t
      /\ \A v \in Worker, q \in Op : v # w \/ q # o => task'[v][q] = task[v][q]
  BY TaskSet DEF IInv
<1>2. stamp \in Nat /\ stamp' >= stamp BY DEF IInv, TypeOK
<1>3. Rest(w, o) BY <1>1, <1>2 DEF Rest, SameSnaps
<1>4. TypeOK' BY <1>1 DEF IInv, TypeOK
<1>5. AliasInv' BY DEF IInv, AliasInv
<1>6. Own(w, o)' BY <1>1 DEF IInv, Own
<1>7. SameSnaps(o) BY DEF SameSnaps
<1>8. Holds(w, o)' <=> Holds(w, o) BY DEF Holds, Me, SameRow
<1>9. Exec(w, o)'
  <2>1. \A s : Current(s, o)' <=> Current(s, o) BY DEF SameRow, Current
  <2>2. Exec(w, o) BY DEF IInv
  <2>3. CASE t.pc = task[w][o].pc
    BY <1>1, <1>7, <2>2, <2>3, FrameExec
  <2>4. CASE task[w][o].pc = "commit" /\ t.pc = "sent"
    <3>1. SUFFICES ASSUME Holds(w, o) PROVE Exec(w, o)' BY <1>8, Idle
    <3>2. /\ t.term = ops[o].term /\ t.scope = ops[o].scope
          /\ t.k \in 1..Len(ops[o].plan) /\ DOMAIN t.got = DOMAIN ops[o].plan
          /\ \A s \in snaps : Current(s, o) =>
               \E i \in 1..(t.k - 1) : s.provider = ops[o].plan[i] /\ s.status = t.got[i]
          /\ \A i \in 1..(t.k - 1) : \E s \in snaps :
               Current(s, o) /\ s.provider = ops[o].plan[i] /\ s.status = t.got[i]
      BY SMTT(30), <2>2, <2>4, <3>1 DEF Exec, Executing
    <3>3. /\ task'[w][o] = t /\ snaps' = snaps /\ ops'[o].term = ops[o].term
          /\ ops'[o].plan = ops[o].plan /\ ops'[o].scope = ops[o].scope
      BY <1>1 DEF SameRow
    <3>4. /\ \A s \in snaps' : Current(s, o)' =>
               \E i \in 1..(t.k - 1) : s.provider = ops'[o].plan[i] /\ s.status = t.got[i]
          /\ \A i \in 1..(t.k - 1) : \E s \in snaps' :
               Current(s, o)' /\ s.provider = ops'[o].plan[i] /\ s.status = t.got[i]
      BY <2>1, <3>2, <3>3
    <3> QED BY <2>4, <3>2, <3>3, <3>4 DEF Exec
  <2> QED BY <2>3, <2>4
<1>10. OpInv(o)' BY <1>7, FrameOp DEF IInv
<1>11. ASSUME NEW v \in Worker, v # w PROVE Exec(v, o)'
  BY <1>1, <1>7, <1>11, FrameExec DEF IInv
<1> QED BY <1>3, <1>4, <1>5, <1>6, <1>9, <1>10, <1>11, StepOne

\* claim_inventory_refresh_execution: a new term has no snapshots, and every
\* other replica has lost the row.
LEMMA StepClaim ==
  ASSUME IInv, NEW w \in Worker, NEW o \in Op, Claim(w, o)
  PROVE  IInv'
<1>1. CASE ~Claimable(o)
  <2>1. SetTask(w, o, NoTask) /\ UNCHANGED ops /\ task[w][o].pc = "claim"
    BY <1>1 DEF Claim
  <2> QED BY <2>1, StepDrop DEF Claim
<1>2. CASE Claimable(o)
  <2> DEFINE t == [task[w][o] EXCEPT !.pc = "context", !.term = ops[o].term + 1]
             n == [ops[o] EXCEPT !.status = "running", !.owner = Me(w),
                                 !.expired = FALSE, !.term = ops[o].term + 1]
  <2>1. SetTask(w, o, t) /\ ops' = [ops EXCEPT ![o] = n]
    BY <1>2 DEF Claim
  <2>2. task[w][o] \in Task /\ task[w][o].pc = "claim" /\ ops[o] \in OpRow
        /\ ops[o].term \in Nat /\ ops[o].term + 1 \in Nat /\ Me(w) \in Worker \X Nat
    BY DEF IInv, TypeOK, Claim, OpRow, Me
  <2>3. t \in Task /\ t.pc = "context" /\ t.k = task[w][o].k /\ t.term = ops[o].term + 1
    BY <2>2 DEF Task, Step
  <2>4. n \in OpRow /\ n.status = "running" /\ n.term = ops[o].term + 1
        /\ n.plan = ops[o].plan /\ n.scope = ops[o].scope /\ n.owner = Me(w)
    BY <2>2 DEF OpRow
  <2> HIDE DEF t, n
  <2>5. /\ task' \in [Worker -> [Op -> Task]]
        /\ task'[w][o] = t
        /\ \A v \in Worker, q \in Op : v # w \/ q # o => task'[v][q] = task[v][q]
    BY <2>1, <2>3, TaskSet DEF IInv
  <2>6. ops' \in [Op -> OpRow] /\ ops'[o] = n /\ \A q \in Op : q # o => ops'[q] = ops[q]
    BY <2>1, <2>4 DEF IInv, TypeOK
  <2>7. UNCHANGED <<up, inc, alias, ident, snaps, stamp, stored>> BY DEF Claim
  <2>8. Rest(w, o) BY <2>5, <2>6, <2>7 DEF Rest, SameSnaps, IInv, TypeOK
  <2>9. TypeOK' BY <2>5, <2>6, <2>7 DEF IInv, TypeOK
  <2>10. AliasInv' BY <2>7 DEF IInv, AliasInv
  <2>11. Own(w, o)' BY <2>2, <2>3, <2>5, <2>7 DEF IInv, Own
  <2>12. ops[o].status \in {"queued", "running"} BY <1>2 DEF Claimable
  <2>13. \A s \in snaps : s.op = o => s.term \in 1..ops[o].term /\ s.scope = ops[o].scope
    BY DEF IInv, OpInv
  <2>14. \A s \in snaps' : ~Current(s, o)'
    BY <2>2, <2>4, <2>6, <2>7, <2>13 DEF Current
  <2>15. task[w][o].k = 1 BY <2>2 DEF IInv, Own
  <2>16. Exec(w, o)'
    <3>1. 1..(t.k - 1) = {} BY <2>3, <2>15
    <3> QED BY <2>3, <2>4, <2>5, <2>6, <2>14, <3>1 DEF Exec
  <2>17. OpInv(o)'
    <3>1. NonEmptyAndUnique(ops[o].plan) BY <2>12 DEF IInv, OpInv
    <3>2. \A s \in snaps' : s.op = o => s.term \in 1..n.term /\ s.scope = n.scope
      BY <2>2, <2>4, <2>7, <2>13
    <3>3. n.term # 0 BY <2>2, <2>4
    <3> QED BY <2>4, <2>6, <3>1, <3>2, <3>3 DEF OpInv
  <2>18. ASSUME NEW v \in Worker, v # w PROVE Exec(v, o)'
    <3>1. ~Holds(v, o)' BY <2>4, <2>6, <2>7, <2>18 DEF Holds, Me
    <3> QED BY <3>1, Idle
  <2> QED BY <2>8, <2>9, <2>10, <2>11, <2>16, <2>17, <2>18, StepOne
<1> QED BY <1>1, <1>2

\* The context: the scope is the plan's, and nothing seen is ahead.
LEMMA StepContext ==
  ASSUME IInv, NEW w \in Worker, NEW o \in Op, Context(w, o)
  PROVE  IInv'
<1>1. CASE ~SameScope(o)
  BY <1>1, StepDrop DEF Context
<1>2. CASE SameScope(o)
  <2> DEFINE t == [task[w][o] EXCEPT !.pc = "discover", !.scope = Selected(stored),
                                     !.seen = alias, !.known = ident]
  <2>1. SetTask(w, o, t) /\ UNCHANGED <<ops, up, inc, alias, ident, snaps, stamp, stored>>
    BY <1>2 DEF Context
  <2>2. task[w][o] \in Task /\ task[w][o].pc = "context" /\ Selected(stored) = ops[o].scope
        /\ ops[o].scope \in Scope /\ alias \in [Provider -> Nat] /\ ident \subseteq Provider
    BY <1>2 DEF IInv, TypeOK, Context, OpRow, SameScope
  <2>3. t \in Task /\ t.pc = "discover" /\ t.k = task[w][o].k /\ t.term = task[w][o].term
        /\ t.scope = ops[o].scope /\ t.seen = alias /\ t.got = task[w][o].got
    BY <2>2 DEF Task, Step
  <2> HIDE DEF t
  <2>4. /\ task' \in [Worker -> [Op -> Task]]
        /\ task'[w][o] = t
        /\ \A v \in Worker, q \in Op : v # w \/ q # o => task'[v][q] = task[v][q]
    BY <2>1, <2>3, TaskSet DEF IInv
  <2>5. Rest(w, o) BY <2>1, <2>4 DEF Rest, SameSnaps, IInv, TypeOK
  <2>6. TypeOK' BY <2>1, <2>4 DEF IInv, TypeOK
  <2>7. AliasInv' BY <2>1 DEF IInv, AliasInv
  <2>8. Own(w, o)' BY <2>1, <2>2, <2>3, <2>4 DEF IInv, Own, AliasInv
  <2>9. SameRow(o) /\ SameSnaps(o) BY <2>1 DEF SameRow, SameSnaps
  <2>10. Exec(w, o)'
    <3>1. Holds(w, o)' <=> Holds(w, o) BY <2>1 DEF Holds, Me
    <3>2. \A s : Current(s, o)' <=> Current(s, o) BY <2>1 DEF Current
    <3>3. t.k = 1 BY <2>2, <2>3 DEF IInv, Own
    <3>4. Holds(w, o) => t.term = ops[o].term /\ \A s \in snaps : ~Current(s, o)
      <4>1. Own(w, o) /\ Exec(w, o) BY DEF IInv
      <4>2. task[w][o].k = 1 BY <2>2, <4>1 DEF Own
      <4>3. ~(\E i \in 1..(1 - 1) : TRUE) OBVIOUS
      <4> QED BY <2>2, <2>3, <4>1, <4>2, <4>3 DEF Exec, Executing
    <3>5. ops' = ops /\ snaps' = snaps BY <2>1
    <3> QED BY <2>3, <2>4, <3>1, <3>2, <3>3, <3>4, <3>5 DEF Exec
  <2>11. OpInv(o)' BY <2>9, FrameOp DEF IInv
  <2>12. ASSUME NEW v \in Worker, v # w PROVE Exec(v, o)'
    BY <2>1, <2>4, <2>9, <2>12, FrameExec DEF IInv
  <2> QED BY <2>5, <2>6, <2>7, <2>8, <2>10, <2>11, <2>12, StepOne
<1> QED BY <1>1, <1>2

\* The discoveries: what was seen is now older than the newest by a rank.
LEMMA StepDiscover ==
  ASSUME IInv, NEW w \in Worker, NEW o \in Op, Discover(w, o)
  PROVE  IInv'
<1> DEFINE t0 == task[w][o]
<1>1. t0.pc = "discover" /\ t0 \in Task /\ stamp \in Nat /\ stamp' = stamp + 1
      /\ ops[o].plan \in Seq(Provider) /\ ident \subseteq Provider
      /\ UNCHANGED <<ops, up, inc, alias, snaps, stored>>
  BY DEF IInv, TypeOK, Discover, OpRow
<1>2. PICK what \in [DOMAIN ops[o].plan -> Outcome], lag \in 0..Lag :
        LET new == Creates(t0, {ops[o].plan[i] : i \in {j \in DOMAIN what : what[j] # "failed"}})
        IN  IF Clashes(new)
            THEN Leave(w, o, "clash") /\ UNCHANGED ident
            ELSE /\ ident' = ident \cup new
                 /\ SetTask(w, o, [t0 EXCEPT !.pc = "commit", !.got = what, !.known = {},
                                    !.at = IF lag > stamp THEN 1 ELSE 2 * (stamp + 1 - lag)])
  BY DEF Discover
<1> DEFINE new == Creates(t0, {ops[o].plan[i] : i \in {j \in DOMAIN what : what[j] # "failed"}})
           at == IF lag > stamp THEN 1 ELSE 2 * (stamp + 1 - lag)
           t == [t0 EXCEPT !.pc = "commit", !.got = what, !.known = {}, !.at = at]
<1>3. CASE Clashes(new)
  BY <1>1, <1>2, <1>3, StepDrop
<1>4. CASE ~Clashes(new)
  <2>1. ident' = ident \cup new /\ SetTask(w, o, t) BY <1>2, <1>4
  <2>2. new \subseteq Provider BY <1>1 DEF Creates
  <2>3. at \in Nat /\ at <= 2 * (stamp + 1) BY <1>1, RefreshAssumption
  <2>4. what \in Seq(Outcome) /\ DOMAIN what = DOMAIN ops[o].plan BY <1>1
  <2> HIDE DEF new, at
  <2>5. t \in Task /\ t.pc = "commit" /\ t.k = t0.k /\ t.term = t0.term
        /\ t.scope = t0.scope /\ t.seen = t0.seen /\ t.got = what /\ t.at = at
    BY <1>1, <2>3, <2>4 DEF Task, Step
  <2> HIDE DEF t
  <2>6. /\ task' \in [Worker -> [Op -> Task]]
        /\ task'[w][o] = t
        /\ \A v \in Worker, q \in Op : v # w \/ q # o => task'[v][q] = task[v][q]
    BY <2>1, <2>5, TaskSet DEF IInv
  <2>7. stamp' \in Nat /\ stamp' >= stamp BY <1>1
  <2>8. Rest(w, o) BY <1>1, <2>6, <2>7 DEF Rest, SameSnaps
  <2>9. TypeOK' BY <1>1, <2>1, <2>2, <2>6, <2>7 DEF IInv, TypeOK
  <2>10. AliasInv'
    <3>1. \A p \in Provider : alias[p] \in Nat BY DEF IInv, TypeOK
    <3> QED BY <1>1, <3>1 DEF IInv, AliasInv
  <2>11. Own(w, o)'
    <3>1. up[w] /\ \A p \in Provider : t0.seen[p] \in Nat /\ t0.seen[p] <= 2 * stamp
      BY <1>1 DEF IInv, Own, Task
    <3>2. \A p \in Provider : t.seen[p] + 2 <= 2 * stamp' BY <1>1, <2>5, <3>1
    <3> QED BY <1>1, <2>3, <2>5, <2>6, <3>1, <3>2 DEF Own
  <2>12. SameRow(o) /\ SameSnaps(o) BY <1>1 DEF SameRow, SameSnaps
  <2>13. Exec(w, o)'
    <3>1. Holds(w, o)' <=> Holds(w, o) BY <1>1 DEF Holds, Me
    <3>2. SUFFICES ASSUME Holds(w, o) PROVE Exec(w, o)' BY <3>1, Idle
    <3>3. t0.k = 1 BY <1>1 DEF IInv, Own
    <3>4. t0.term = ops[o].term /\ t0.scope = ops[o].scope
          /\ \A s \in snaps : ~Current(s, o)
      BY <1>1, <3>2, <3>3 DEF IInv, Exec, Executing
    <3>5. NonEmptyAndUnique(ops[o].plan) BY <3>2 DEF IInv, OpInv, Holds
    <3>6. 1 \in 1..Len(ops[o].plan) BY <1>1, <3>5 DEF NonEmptyAndUnique
    <3>7. 1..(t.k - 1) = {} /\ t.k \in 1..Len(ops[o].plan) BY <2>5, <3>3, <3>6
    <3>8. \A s \in snaps' : ~Current(s, o)' BY <1>1, <3>4 DEF Current
    <3> QED BY <1>1, <2>4, <2>5, <2>6, <3>4, <3>7, <3>8 DEF Exec
  <2>14. OpInv(o)' BY <2>12, FrameOp DEF IInv
  <2>15. ASSUME NEW v \in Worker, v # w PROVE Exec(v, o)'
    BY <1>1, <2>6, <2>12, <2>15, FrameExec DEF IInv
  <2> QED BY <2>8, <2>9, <2>10, <2>11, <2>13, <2>14, <2>15, StepOne
<1> QED BY <1>3, <1>4

\* A decision that passes _check_alias_order is newer than the active one and
\* no newer than the newest discovery.
LEMMA DecidedNewer ==
  ASSUME IInv, NEW w \in Worker, NEW o \in Op, task[w][o].pc = "sent",
         NEW p \in Provider, Newer(task[w][o], p)
  PROVE  /\ DecidedAt(task[w][o], p) \in Nat
         /\ DecidedAt(task[w][o], p) > alias[p]
         /\ DecidedAt(task[w][o], p) <= 2 * stamp
<1> DEFINE t == task[w][o]
<1>1. t.at \in Nat /\ t.seen[p] \in Nat /\ stamp \in Nat /\ alias[p] \in Nat
  BY DEF IInv, TypeOK, Task
<1>2. t.at <= 2 * stamp /\ t.seen[p] + 2 <= 2 * stamp BY DEF IInv, Own
<1> QED BY <1>1, <1>2 DEF DecidedAt, Newer

\* What the fence means: the executor's term is the operation's, and the
\* provider it is at has no snapshot of this term yet.
LEMMA Unfolded ==
  ASSUME IInv, NEW w \in Worker, NEW o \in Op, task[w][o].pc = "sent", Fenced(w, o)
  PROVE  LET t == task[w][o]
             plan == ops[o].plan
         IN  /\ Holds(w, o) /\ ops[o].status = "running"
             /\ t.term = ops[o].term /\ t.scope = ops[o].scope
             /\ t.k \in 1..Len(plan) /\ plan \in Seq(Provider) /\ plan[t.k] \in Provider
             /\ DOMAIN t.got = DOMAIN plan /\ t.got \in Seq(Outcome)
             /\ \A s \in snaps : Current(s, o) => s.provider # plan[t.k]
             /\ \A s \in snaps : Current(s, o) =>
                  \E i \in 1..(t.k - 1) : s.provider = plan[i] /\ s.status = t.got[i]
             /\ \A i \in 1..(t.k - 1) : \E s \in snaps :
                  Current(s, o) /\ s.provider = plan[i] /\ s.status = t.got[i]
<1> DEFINE t == task[w][o]
           plan == ops[o].plan
<1>1. Holds(w, o) /\ ops[o].status = "running" BY DEF Fenced, Holds
<1>2. plan \in Seq(Provider) /\ t.got \in Seq(Outcome) BY DEF IInv, TypeOK, OpRow, Task
<1>3. /\ t.term = ops[o].term /\ t.scope = ops[o].scope
      /\ t.k \in 1..Len(plan) /\ DOMAIN t.got = DOMAIN plan
      /\ \A s \in snaps : Current(s, o) =>
           \E i \in 1..(t.k - 1) : s.provider = plan[i] /\ s.status = t.got[i]
      /\ \A i \in 1..(t.k - 1) : \E s \in snaps :
           Current(s, o) /\ s.provider = plan[i] /\ s.status = t.got[i]
  BY <1>1 DEF IInv, Exec, Executing
<1>4. NonEmptyAndUnique(plan) BY <1>1 DEF IInv, OpInv
<1>5. \A i \in 1..(t.k - 1) : plan[i] # plan[t.k]
  <2>1. ASSUME NEW i \in 1..(t.k - 1) PROVE i \in DOMAIN plan /\ t.k \in DOMAIN plan /\ i # t.k
    BY <1>2, <1>3
  <2> QED BY <1>4, <2>1 DEF NonEmptyAndUnique
<1> QED BY <1>1, <1>2, <1>3, <1>5

\* The snapshot that a commit adds.
Written(w, o) ==
  LET t == task[w][o]
  IN  [op |-> o, term |-> t.term, provider |-> ops[o].plan[t.k],
       scope |-> t.scope, status |-> t.got[t.k]]

\* The transaction commits.
Commits(w, o) ==
  LET t == task[w][o]
  IN  /\ t.pc = "sent" /\ Fenced(w, o)
      /\ Decides(t) => Newer(t, ops[o].plan[t.k])
      /\ snaps' = snaps \cup {Written(w, o)}
      /\ alias' = IF Decides(t)
                  THEN [alias EXCEPT ![ops[o].plan[t.k]] = DecidedAt(t, ops[o].plan[t.k])]
                  ELSE alias
      /\ SetTask(w, o, [t EXCEPT !.k = @ + 1, !.fence = FALSE,
                          !.pc = IF t.k < Len(ops[o].plan) THEN "commit" ELSE "finish"])
      /\ UNCHANGED <<ops, up, inc, ident, stamp, stored>>

LEMMA CommitApplyCases ==
  ASSUME NEW w \in Worker, NEW o \in Op, CommitApply(w, o)
  PROVE  \/ Commits(w, o)
         \/ /\ task[w][o].pc = "sent" /\ Leave(w, o, "failing")
            /\ UNCHANGED <<ops, up, inc, alias, ident, snaps, stamp, stored>>
BY DEF CommitApply, Commits, Written

\* Alias decisions move forward, and stay behind the discoveries.
LEMMA CommitsAlias ==
  ASSUME IInv, NEW w \in Worker, NEW o \in Op, Commits(w, o)
  PROVE  /\ alias' \in [Provider -> Nat]
         /\ \A p \in Provider : alias'[p] >= alias[p] /\ alias'[p] <= 2 * stamp
<1> DEFINE t == task[w][o]
           p == ops[o].plan[t.k]
           d == DecidedAt(t, p)
<1>1. p \in Provider BY Unfolded DEF Commits
<1>2. alias \in [Provider -> Nat] /\ \A q \in Provider : alias[q] \in Nat
      /\ alias[q] <= 2 * stamp /\ alias[q] >= alias[q]
  BY DEF IInv, TypeOK, AliasInv
<1>3. CASE ~Decides(t) BY <1>2, <1>3 DEF Commits
<1>4. CASE Decides(t)
  <2>1. Newer(t, p) /\ alias' = [alias EXCEPT ![p] = d] /\ t.pc = "sent"
    BY SMTT(30), <1>4 DEF Commits
  <2>2. d \in Nat /\ d > alias[p] /\ d <= 2 * stamp
    BY <1>1, <2>1, DecidedNewer
  <2> HIDE DEF d, p
  <2> QED BY SMTT(30), <1>1, <1>2, <2>1, <2>2
<1> QED BY <1>3, <1>4

LEMMA StepCommit ==
  ASSUME IInv, NEW w \in Worker, NEW o \in Op, Commits(w, o)
  PROVE  IInv'
<1> DEFINE t0 == task[w][o]
           plan == ops[o].plan
           next == IF t0.k < Len(plan) THEN "commit" ELSE "finish"
           t == [t0 EXCEPT !.k = @ + 1, !.fence = FALSE, !.pc = next]
           z == Written(w, o)
<1>0. t0.pc = "sent" /\ Fenced(w, o) /\ t0 \in Task BY DEF Commits, IInv, TypeOK
<1>1. /\ Holds(w, o) /\ ops[o].status = "running"
      /\ t0.term = ops[o].term /\ t0.scope = ops[o].scope
      /\ t0.k \in 1..Len(plan) /\ plan \in Seq(Provider) /\ plan[t0.k] \in Provider
      /\ DOMAIN t0.got = DOMAIN plan /\ t0.got \in Seq(Outcome)
      /\ \A s \in snaps : Current(s, o) =>
           \E i \in 1..(t0.k - 1) : s.provider = plan[i] /\ s.status = t0.got[i]
      /\ \A i \in 1..(t0.k - 1) : \E s \in snaps :
           Current(s, o) /\ s.provider = plan[i] /\ s.status = t0.got[i]
  BY <1>0, Unfolded
<1>2. /\ SetTask(w, o, t) /\ snaps' = snaps \cup {z}
      /\ UNCHANGED <<ops, up, inc, ident, stamp, stored>>
  BY DEF Commits
<1>3. t0.k + 1 \in Nat /\ t0.k \in Nat /\ Len(plan) \in Nat /\ next \in Step
      /\ (next = "commit" => t0.k < Len(plan)) /\ (next = "finish" => t0.k = Len(plan))
      /\ next \in {"commit", "finish"}
  BY <1>1 DEF Step
<1> HIDE DEF next
<1>4. t \in Task /\ t.pc = next /\ t.k = t0.k + 1 /\ t.term = t0.term /\ t.scope = t0.scope
      /\ t.got = t0.got /\ t.seen = t0.seen /\ t.at = t0.at
  BY <1>0, <1>3 DEF Task
<1> HIDE DEF t
<1>5. /\ z \in Snap /\ z.op = o /\ z.term = ops[o].term /\ z.provider = plan[t0.k]
      /\ z.scope = ops[o].scope /\ z.status = t0.got[t0.k]
  <2>1. t0.got[t0.k] \in Outcome /\ ops[o].term \in Nat /\ ops[o].scope \in Scope
    BY <1>1 DEF IInv, TypeOK, OpRow
  <2> QED BY <1>1, <2>1 DEF Written, Snap
<1> HIDE DEF z
<1>6. /\ task' \in [Worker -> [Op -> Task]]
      /\ task'[w][o] = t
      /\ \A v \in Worker, q \in Op : v # w \/ q # o => task'[v][q] = task[v][q]
  BY <1>2, <1>4, TaskSet DEF IInv
<1>7. Rest(w, o)
  <2>1. \A q \in Op : q # o => SameSnaps(q) BY <1>2, <1>5 DEF SameSnaps
  <2> QED BY <1>2, <1>6, <2>1 DEF Rest, IInv, TypeOK
<1>8. TypeOK' BY <1>2, <1>5, <1>6, CommitsAlias DEF IInv, TypeOK
<1>9. AliasInv' BY <1>2, CommitsAlias DEF AliasInv
<1>10. Own(w, o)' BY <1>0, <1>2, <1>3, <1>4, <1>6 DEF IInv, Own
<1>11. \A s : Current(s, o)' <=> Current(s, o) BY <1>2 DEF Current
<1>12. Current(z, o) BY <1>5 DEF Current
<1>13. Exec(w, o)'
  <2>1. \A s \in snaps' : Current(s, o)' =>
          \E i \in 1..(t.k - 1) : s.provider = plan[i] /\ s.status = t.got[i]
    <3> SUFFICES ASSUME NEW s \in snaps', Current(s, o)
                 PROVE  \E i \in 1..(t.k - 1) : s.provider = plan[i] /\ s.status = t.got[i]
      BY <1>11
    <3>1. CASE s = z
      <4>1. t0.k \in 1..(t.k - 1) BY <1>1, <1>3, <1>4
      <4> QED BY <1>4, <1>5, <3>1, <4>1
    <3>2. CASE s \in snaps
      <4>1. PICK i \in 1..(t0.k - 1) : s.provider = plan[i] /\ s.status = t0.got[i]
        BY <1>1, <3>2
      <4>2. i \in 1..(t.k - 1) BY <1>3, <1>4
      <4> QED BY <1>4, <4>1, <4>2
    <3> QED BY <1>2, <3>1, <3>2
  <2>2. \A i \in 1..(t.k - 1) : \E s \in snaps' :
          Current(s, o)' /\ s.provider = plan[i] /\ s.status = t.got[i]
    <3> SUFFICES ASSUME NEW i \in 1..(t.k - 1)
                 PROVE  \E s \in snaps' :
                          Current(s, o) /\ s.provider = plan[i] /\ s.status = t.got[i]
      BY <1>11
    <3>1. CASE i = t0.k BY <1>2, <1>4, <1>5, <1>12, <3>1
    <3>2. CASE i # t0.k
      <4>1. i \in 1..(t0.k - 1) BY <1>3, <1>4, <3>2
      <4> QED BY <1>1, <1>2, <1>4, <4>1
    <3> QED BY <3>1, <3>2
  <2>3. t.pc = "commit" => t.k \in 1..Len(plan) BY <1>1, <1>3, <1>4
  <2>4. t.pc = "finish" => t.k = Len(plan) + 1 BY <1>3, <1>4
  <2>5. ops' = ops BY <1>2
  <2> QED BY <1>1, <1>3, <1>4, <1>6, <2>1, <2>2, <2>3, <2>4, <2>5 DEF Exec
<1>14. OpInv(o)'
  <2>1. \A s \in snaps' : s.op = o => s.term \in 1..ops[o].term /\ s.scope = ops[o].scope
    <3>1. ops[o].term \in Nat BY DEF IInv, TypeOK, OpRow
    <3>2. ops[o].term # 0 BY <1>1 DEF IInv, OpInv
    <3> QED BY <1>2, <1>5, <3>1, <3>2 DEF IInv, OpInv
  <2>2. NonEmptyAndUnique(plan) BY <1>1 DEF IInv, OpInv
  <2>3. ops[o].term # 0 BY <1>1 DEF IInv, OpInv
  <2> QED BY <1>1, <1>2, <2>1, <2>2, <2>3 DEF OpInv
<1>15. ASSUME NEW v \in Worker, v # w PROVE Exec(v, o)'
  <2>1. ~Holds(v, o)' BY <1>1, <1>2, <1>15 DEF Holds, Me
  <2> QED BY <2>1, Idle
<1> QED BY <1>7, <1>8, <1>9, <1>10, <1>13, <1>14, <1>15, StepOne

\* What a verdict other than failed rests on.
Backed(o, st) ==
  st # "failed" =>
    /\ \A i \in DOMAIN ops[o].plan : \E s \in snaps :
         Current(s, o) /\ s.provider = ops[o].plan[i]
    /\ st = "succeeded" <=> (\A s \in snaps : Current(s, o) => s.status = "success")
    /\ \E s \in snaps : Current(s, o) /\ s.status # "failed"

\* finish_inventory_refresh_execution writes the row of an execution that holds it.
LEMMA StepSettle ==
  ASSUME IInv, NEW w \in Worker, NEW o \in Op, task[w][o].pc # "none",
         Holds(w, o), NEW st \in Terminal, Backed(o, st), Settle(w, o, st),
         NEW x \in {"none", "sync"},
         Leave(w, o, x) \/ (x = "none" /\ SetTask(w, o, NoTask)),
         UNCHANGED <<up, inc, alias, ident, snaps, stamp, stored>>
  PROVE  IInv'
<1>1. PICK t \in Task : t.pc = x /\ t.k = 1 /\ SetTask(w, o, t)
  <2>1. CASE Leave(w, o, x) BY <2>1, NoTaskType DEF Leave, Step
  <2>2. CASE x = "none" /\ SetTask(w, o, NoTask) BY <2>2, NoTaskType
  <2> QED BY <2>1, <2>2
<1> DEFINE n == [ops[o] EXCEPT !.status = st, !.owner = Nobody, !.expired = FALSE]
<1>2. ops' = [ops EXCEPT ![o] = n] BY DEF Settle
<1>3. n \in OpRow /\ n.status = st /\ n.term = ops[o].term /\ n.plan = ops[o].plan
      /\ n.scope = ops[o].scope
  <2>1. ops[o] \in OpRow BY DEF IInv, TypeOK
  <2>2. n.status = st /\ n.term = ops[o].term /\ n.plan = ops[o].plan
        /\ n.scope = ops[o].scope
    BY <2>1 DEF OpRow
  <2>3. n \in OpRow BY <2>1 DEF OpRow
  <2> QED BY <2>2, <2>3
<1> HIDE DEF n
<1>4. ops' \in [Op -> OpRow] /\ ops'[o] = n /\ \A q \in Op : q # o => ops'[q] = ops[q]
  BY <1>2, <1>3 DEF IInv, TypeOK
<1>5. /\ task' \in [Worker -> [Op -> Task]]
      /\ task'[w][o] = t
      /\ \A v \in Worker, q \in Op : v # w \/ q # o => task'[v][q] = task[v][q]
  BY <1>1, TaskSet DEF IInv
<1>6. Rest(w, o) BY <1>4, <1>5 DEF Rest, SameSnaps, IInv, TypeOK
<1>7. TypeOK' BY <1>4, <1>5 DEF IInv, TypeOK
<1>8. AliasInv' BY DEF IInv, AliasInv
<1>9. Own(w, o)' BY <1>1, <1>5 DEF IInv, Own
<1>10. ASSUME NEW v \in Worker PROVE Exec(v, o)'
  <2>1. ~Holds(v, o)' BY <1>3, <1>4 DEF Holds, Terminal
  <2> QED BY <2>1, Idle
<1>11. OpInv(o)'
  <2>1. ops[o].status = "running" BY DEF Holds
  <2>2. /\ NonEmptyAndUnique(ops[o].plan)
        /\ \A s \in snaps : s.op = o => s.term \in 1..ops[o].term /\ s.scope = ops[o].scope
    BY <2>1 DEF IInv, OpInv
  <2>3. \A s : Current(s, o)' <=> Current(s, o) BY <1>3, <1>4 DEF Current
  <2>4. st \notin {"absent", "running"} BY DEF Terminal
  <2> QED BY <1>3, <1>4, <2>2, <2>3, <2>4 DEF OpInv, Backed
<1> QED BY <1>6, <1>7, <1>8, <1>9, <1>10, <1>11, StepOne

\* The verdict of an execution that has come to its end and holds the row.
LEMMA VerdictBacked ==
  ASSUME IInv, NEW w \in Worker, NEW o \in Op, task[w][o].pc = "finish", Holds(w, o)
  PROVE  Verdict(task[w][o]) \in Terminal /\ Backed(o, Verdict(task[w][o]))
<1> DEFINE t == task[w][o]
           plan == ops[o].plan
<1>1. plan \in Seq(Provider) /\ t.got \in Seq(Outcome) BY DEF IInv, TypeOK, OpRow, Task
<1>2. NonEmptyAndUnique(plan) BY DEF IInv, OpInv, Holds
<1>3. /\ t.k = Len(plan) + 1 /\ DOMAIN t.got = DOMAIN plan
      /\ \A s \in snaps : Current(s, o) =>
           \E i \in 1..(t.k - 1) : s.provider = plan[i] /\ s.status = t.got[i]
      /\ \A i \in 1..(t.k - 1) : \E s \in snaps :
           Current(s, o) /\ s.provider = plan[i] /\ s.status = t.got[i]
  BY DEF IInv, Exec, Executing
<1>4. 1..(t.k - 1) = DOMAIN plan /\ 1 \in DOMAIN plan BY <1>1, <1>2, <1>3 DEF NonEmptyAndUnique
<1>5. \A s \in snaps : Current(s, o) => \E i \in DOMAIN plan : s.status = t.got[i]
  BY <1>3, <1>4
<1>6. \A i \in DOMAIN plan : \E s \in snaps :
        Current(s, o) /\ s.provider = plan[i] /\ s.status = t.got[i]
  BY <1>3, <1>4
<1>7. \A x : x \in Statuses(t) <=> \E i \in DOMAIN plan : x = t.got[i]
  BY <1>3 DEF Statuses
<1> HIDE DEF t, plan
<1>8. CASE Statuses(t) = {"success"}
  <2>1. \A i \in DOMAIN plan : t.got[i] = "success" BY <1>7, <1>8
  <2>2. Verdict(t) = "succeeded" BY <1>8 DEF Verdict
  <2>3. \A s \in snaps : Current(s, o) => s.status = "success" BY <1>5, <2>1
  <2>4. \E s \in snaps : Current(s, o) /\ s.status # "failed" BY <1>4, <1>6, <2>1
  <2> QED BY <1>6, <2>2, <2>3, <2>4 DEF Backed, Terminal, plan, t
<1>9. CASE Statuses(t) = {"failed"}
  BY <1>9 DEF Verdict, Backed, Terminal, t
<1>10. CASE Statuses(t) # {"success"} /\ Statuses(t) # {"failed"}
  <2>1. Verdict(t) = "partial" BY <1>10 DEF Verdict
  <2>2. \E i \in DOMAIN plan : t.got[i] # "success" BY <1>4, <1>7, <1>10
  <2>3. \E i \in DOMAIN plan : t.got[i] # "failed" BY <1>4, <1>7, <1>10
  <2>4. \E s \in snaps : Current(s, o) /\ s.status # "success" BY <1>6, <2>2
  <2>5. \E s \in snaps : Current(s, o) /\ s.status # "failed" BY <1>6, <2>3
  <2> QED BY <1>6, <2>1, <2>4, <2>5 DEF Backed, Terminal, plan, t
<1> QED BY <1>8, <1>9, <1>10

LEMMA StepFinish ==
  ASSUME IInv, NEW w \in Worker, NEW o \in Op, Finish(w, o) \/ FinishFailed(w, o)
  PROVE  IInv'
<1>1. /\ task[w][o].pc # "none"
      /\ UNCHANGED <<up, inc, alias, ident, snaps, stamp, stored>>
  BY DEF Finish, FinishFailed
<1>2. CASE Finish(w, o) /\ Holds(w, o)
  <2>1. task[w][o].pc = "finish" /\ Settle(w, o, Verdict(task[w][o]))
        /\ (Leave(w, o, "sync") \/ SetTask(w, o, NoTask))
    BY <1>2 DEF Finish
  <2> QED BY <1>1, <1>2, <2>1, StepSettle, VerdictBacked
<1>3. CASE FinishFailed(w, o) /\ Holds(w, o)
  <2>1. Backed(o, "failed") /\ "failed" \in Terminal BY DEF Backed, Terminal
  <2> QED BY <1>1, <1>3, <2>1, StepSettle DEF FinishFailed
<1>4. CASE ~Holds(w, o)
  <2>1. UNCHANGED ops /\ SetTask(w, o, NoTask)
    BY <1>4 DEF Finish, FinishFailed, Settle
  <2> QED BY <1>1, <2>1, StepDrop
<1> QED BY <1>2, <1>3, <1>4

\* The fence is built, the heartbeat beats or gives up, an await raises.
LEMMA StepTask ==
  ASSUME IInv, NEW w \in Worker, NEW o \in Op,
         \/ CommitSend(w, o) \/ Synced(w, o) \/ Raises(w, o)
         \/ Renew(w, o) \/ RenewFails(w, o)
  PROVE  IInv'
<1> DEFINE t0 == task[w][o]
<1>0. t0 \in Task /\ ops[o] \in OpRow /\ ops \in [Op -> OpRow] BY DEF IInv, TypeOK
<1>1. CASE CommitSend(w, o)
  <2> DEFINE f == Holds(w, o) /\ ~ops[o].expired
             t == [t0 EXCEPT !.pc = "sent", !.fence = f]
  <2>1. f \in BOOLEAN OBVIOUS
  <2> HIDE DEF f
  <2>2. t \in Task /\ t.pc = "sent" /\ t.term = t0.term /\ t.scope = t0.scope /\ t.k = t0.k
        /\ t.got = t0.got /\ t.seen = t0.seen /\ t.at = t0.at
    BY <1>0, <2>1 DEF Task, Step
  <2>3. SetTask(w, o, t) /\ t0.pc = "commit" BY <1>1 DEF CommitSend, f
  <2> HIDE DEF t
  <2>4. UNCHANGED <<ops, up, inc, alias, ident, snaps, stamp, stored>> BY <1>1 DEF CommitSend
  <2> QED BY <1>0, <2>2, <2>3, <2>4, StepLease DEF SameRow
<1>2. CASE Synced(w, o) BY <1>2, StepDrop DEF Synced
<1>3. CASE Raises(w, o)
  <2>1. t0.pc # "none" /\ (Leave(w, o, "failing") \/ SetTask(w, o, NoTask))
    BY <1>3 DEF Raises
  <2>2. UNCHANGED <<ops, up, inc, alias, ident, snaps, stamp, stored>> BY <1>3 DEF Raises
  <2> QED BY <2>1, <2>2, StepDrop
<1>4. CASE RenewFails(w, o)
  <2>1. t0.pc # "none" BY <1>4 DEF RenewFails, Beating
  <2> QED BY <1>4, <2>1, StepDrop DEF RenewFails
<1>5. CASE Renew(w, o) /\ ~Holds(w, o)
  <2>1. t0.pc # "none" BY <1>5 DEF Renew, Beating
  <2> QED BY <1>5, <2>1, StepDrop DEF Renew
<1>6. CASE Renew(w, o) /\ Holds(w, o)
  <2> DEFINE f == t0.fence \/ t0.pc = "sent"
             t == [t0 EXCEPT !.fence = f]
             n == [ops[o] EXCEPT !.expired = FALSE]
  <2>1. f \in BOOLEAN OBVIOUS
  <2> HIDE DEF f
  <2>2. t \in Task /\ t.pc = t0.pc /\ t.term = t0.term /\ t.scope = t0.scope /\ t.k = t0.k
        /\ t.got = t0.got /\ t.seen = t0.seen /\ t.at = t0.at
    BY <1>0, <2>1 DEF Task
  <2>3. SetTask(w, o, t) /\ ops' = [ops EXCEPT ![o] = n] BY <1>6 DEF Renew, f
  <2>4. n \in OpRow /\ n.status = ops[o].status /\ n.term = ops[o].term
        /\ n.plan = ops[o].plan /\ n.scope = ops[o].scope /\ n.owner = ops[o].owner
    BY <1>0 DEF OpRow
  <2> HIDE DEF t, n
  <2>5. ops' \in [Op -> OpRow] /\ ops'[o] = n /\ \A q \in Op : q # o => ops'[q] = ops[q]
    BY <1>0, <2>3, <2>4
  <2>6. SameRow(o) /\ ops'[o].owner = ops[o].owner BY <2>4, <2>5 DEF SameRow
  <2>7. UNCHANGED <<up, inc, alias, ident, snaps, stamp, stored>> BY <1>6 DEF Renew
  <2> QED BY <2>2, <2>3, <2>5, <2>6, <2>7, StepLease
<1> QED BY <1>1, <1>2, <1>3, <1>4, <1>5, <1>6

\* The table alone: a lease runs out, an old operation is deleted.
LEMMA StepRow ==
  ASSUME IInv, NEW o \in Op, LeaseExpires(o) \/ Prune(o)
  PROVE  IInv'
<1> DEFINE n == IF LeaseExpires(o) THEN [ops[o] EXCEPT !.expired = TRUE]
                                   ELSE [ops[o] EXCEPT !.status = "forgotten"]
<1>0. ops[o] \in OpRow /\ ops \in [Op -> OpRow] BY DEF IInv, TypeOK
<1>1. ops' = [ops EXCEPT ![o] = n] BY DEF LeaseExpires, Prune
<1>2. /\ n \in OpRow /\ n.term = ops[o].term /\ n.plan = ops[o].plan
      /\ n.scope = ops[o].scope /\ n.owner = ops[o].owner
      /\ n.status = ops[o].status \/ (n.status = "forgotten" /\ ops[o].status \in Terminal)
  <2>1. CASE LeaseExpires(o) BY <1>0, <2>1 DEF OpRow
  <2>2. CASE ~LeaseExpires(o)
    <3>1. ops[o].status \in Terminal BY <2>2 DEF Prune
    <3>2. n = [ops[o] EXCEPT !.status = "forgotten"] BY <2>2
    <3> HIDE DEF n
    <3> QED BY <1>0, <3>1, <3>2 DEF OpRow
  <2> QED BY <2>1, <2>2
<1> HIDE DEF n
<1>3. ops' \in [Op -> OpRow] /\ ops'[o] = n /\ \A q \in Op : q # o => ops'[q] = ops[q]
  BY <1>0, <1>1, <1>2
<1>4. UNCHANGED <<task, up, inc, alias, ident, snaps, stamp, stored>>
  BY DEF LeaseExpires, Prune
<1>5. TypeOK' BY <1>3, <1>4 DEF IInv, TypeOK
<1>6. AliasInv' BY <1>4 DEF IInv, AliasInv
<1>7. ASSUME NEW w \in Worker, NEW q \in Op PROVE Own(w, q)'
  BY <1>4 DEF IInv, Own
<1>8. \A q \in Op : SameSnaps(q) BY <1>4 DEF SameSnaps
<1>9. ASSUME NEW q \in Op, q # o \/ n.status = ops[o].status PROVE SameRow(q) /\ ops'[q].owner = ops[q].owner
  BY <1>2, <1>3, <1>9 DEF SameRow
<1>10. ASSUME NEW q \in Op, q # o \/ n.status = ops[o].status
       PROVE  OpInv(q)' /\ \A w \in Worker : Exec(w, q)'
  <2>1. SameRow(q) /\ ops'[q].owner = ops[q].owner /\ SameSnaps(q) BY <1>8, <1>9, <1>10
  <2>2. OpInv(q)' BY <2>1, FrameOp DEF IInv
  <2>3. ASSUME NEW w \in Worker PROVE Exec(w, q)'
    BY <1>4, <2>1, FrameExec DEF IInv
  <2> QED BY <2>2, <2>3
<1>11. CASE n.status = "forgotten" /\ ops[o].status \in Terminal
  <2>1. OpInv(o)'
    <3>1. NonEmptyAndUnique(ops[o].plan)
      BY <1>11 DEF IInv, OpInv, Terminal
    <3>2. \A s \in snaps : s.op = o => s.term \in 1..ops[o].term /\ s.scope = ops[o].scope
      BY DEF IInv, OpInv
    <3> QED BY <1>2, <1>3, <1>4, <1>11, <3>1, <3>2 DEF OpInv
  <2>2. ASSUME NEW w \in Worker PROVE Exec(w, o)'
    <3>1. ~Holds(w, o)' BY <1>3, <1>11 DEF Holds
    <3> QED BY <3>1, Idle
  <2>3. \A q \in Op : OpInv(q)' /\ \A w \in Worker : Exec(w, q)' BY <1>10, <2>1, <2>2
  <2> QED BY <1>5, <1>6, <1>7, <2>3 DEF IInv
<1>12. CASE n.status = ops[o].status
  BY <1>5, <1>6, <1>7, <1>10, <1>12 DEF IInv
<1> QED BY <1>2, <1>11, <1>12

\* A task that is there stays, or is one that has not claimed anything.
Fresh(w, q) ==
  task'[w][q].pc = "none" \/ (task'[w][q].pc = "claim" /\ task'[w][q].k = 1)

\* Operations are accepted and scheduled, replicas stop and start: rows appear,
\* and tasks of one replica appear or are lost.
LEMMA StepReplica ==
  ASSUME IInv, NEW w \in Worker,
         task' \in [Worker -> [Op -> Task]],
         \A v \in Worker, q \in Op : v # w => task'[v][q] = task[v][q],
         up' \in [Worker -> BOOLEAN], inc' \in [Worker -> Nat],
         \A v \in Worker : v # w => up'[v] = up[v] /\ inc'[v] = inc[v],
         \/ up'[w] = up[w] /\ inc'[w] = inc[w] /\ up[w]
            /\ \A q \in Op : task'[w][q] = task[w][q] \/ Fresh(w, q)
         \/ \A q \in Op : Fresh(w, q) /\ (~up'[w] => task'[w][q].pc = "none"),
         ops' \in [Op -> OpRow],
         \A q \in Op : \/ ops'[q] = ops[q]
                       \/ /\ ops[q].status = "absent" /\ ops'[q].status = "queued"
                          /\ ops'[q].term = 0 /\ NonEmptyAndUnique(ops'[q].plan),
         UNCHANGED <<alias, ident, snaps, stamp>>, stored' \in {"absent", "user", "broken"}
  PROVE  IInv'
<1>1. TypeOK' BY DEF IInv, TypeOK
<1>2. AliasInv' BY DEF IInv, AliasInv
<1>3. ASSUME NEW v \in Worker, NEW q \in Op PROVE Own(v, q)'
  <2>0. stamp' \in Nat /\ stamp' >= stamp BY DEF IInv, TypeOK
  <2>1. CASE v # w BY <2>0, <2>1, FrameOwn DEF IInv
  <2>2. CASE v = w /\ Fresh(w, q)
    <3>1. up'[w] \/ task'[w][q].pc = "none" OBVIOUS
    <3> QED BY <2>2, <3>1 DEF Own, Fresh
  <2>3. CASE v = w /\ ~Fresh(w, q)
    <3>1. up'[w] = up[w] /\ task'[w][q] = task[w][q] BY <2>3
    <3> QED BY <2>0, <2>3, <3>1, FrameOwn DEF IInv
  <2> QED BY <2>1, <2>2, <2>3
<1>4. ASSUME NEW q \in Op PROVE SameSnaps(q) BY DEF SameSnaps
<1>5. ASSUME NEW q \in Op PROVE OpInv(q)'
  <2>1. CASE ops'[q] = ops[q] BY <1>4, <2>1, FrameOp DEF IInv, SameRow
  <2>2. CASE ops'[q] # ops[q]
    <3>1. ops[q].term = 0 /\ \A s \in snaps : s.op # q
      BY <2>2 DEF IInv, OpInv
    <3>2. \A s \in snaps' : s.op # q BY <3>1
    <3> QED BY <2>2, <3>2 DEF OpInv
  <2> QED BY <2>1, <2>2
<1>6. ASSUME NEW v \in Worker, NEW q \in Op PROVE Exec(v, q)'
  <2>1. CASE task'[v][q].pc \notin Executing \/ ~Holds(v, q)' BY <2>1, Idle
  <2>2. CASE task'[v][q].pc \in Executing /\ Holds(v, q)'
    <3>1. ops'[q].status = "running" BY <2>2 DEF Holds
    <3>2. ops'[q] = ops[q] BY <3>1
    <3>3. task'[v][q] = task[v][q] /\ inc'[v] = inc[v] BY <2>2 DEF Fresh, Executing
    <3> QED BY <1>4, <3>2, <3>3, FrameExec DEF IInv, SameRow
  <2> QED BY <2>1, <2>2
<1> QED BY <1>1, <1>2, <1>3, <1>5, <1>6 DEF IInv

LEMMA Scheduled ==
  ASSUME TypeOK, NEW w \in Worker, NEW O, Schedule(w, O)
  PROVE  /\ task' \in [Worker -> [Op -> Task]]
         /\ \A v \in Worker, q \in Op : v # w => task'[v][q] = task[v][q]
         /\ \A q \in Op : task'[w][q] = task[w][q] \/ Fresh(w, q)
         /\ \A q \in Op : task[w][q].pc = "none" => Fresh(w, q)
<1> DEFINE c == [NoTask EXCEPT !.pc = "claim"]
           g == [q \in Op |-> IF q \in O /\ task[w][q].pc = "none" THEN c ELSE task[w][q]]
<1>1. c \in Task /\ c.pc = "claim" /\ c.k = 1 BY NoTaskType DEF Step
<1>2. task' = [task EXCEPT ![w] = g] BY DEF Schedule
<1> HIDE DEF c
<1>3. g \in [Op -> Task] BY <1>1 DEF TypeOK
<1>4. \A q \in Op : g[q] = task[w][q] \/ g[q] = c OBVIOUS
<1> HIDE DEF g
<1>5. task' \in [Worker -> [Op -> Task]] /\ task'[w] = g
      /\ \A v \in Worker, q \in Op : v # w => task'[v][q] = task[v][q]
  BY <1>2, <1>3 DEF TypeOK
<1>6. \A q \in Op : task'[w][q] = task[w][q] \/ Fresh(w, q)
  BY <1>1, <1>4, <1>5 DEF Fresh
<1>7. \A q \in Op : task[w][q].pc = "none" => Fresh(w, q)
  BY <1>1, <1>4, <1>5 DEF Fresh
<1> QED BY <1>5, <1>6, <1>7

\* What submit does to the table.
LEMMA Accepted ==
  ASSUME TypeOK, NEW w \in Worker, NEW k \in Key, NEW sc \in Scope, Accept(w, k, sc)
  PROVE  /\ \E O : Schedule(w, O)
         /\ ops' \in [Op -> OpRow]
         /\ \A q \in Op : \/ ops'[q] = ops[q]
                          \/ /\ ops[q].status = "absent" /\ ops'[q].status = "queued"
                             /\ ops'[q].term = 0 /\ NonEmptyAndUnique(ops'[q].plan)
<1>1. CASE UnderKey(k) = {}
  <2> DEFINE n == [NoOp EXCEPT !.status = "queued", !.key = k, !.plan = Intent[k], !.scope = sc]
  <2>1. PICK o \in Op : ops[o].status = "absent" /\ ops' = [ops EXCEPT ![o] = n]
                        /\ Schedule(w, {o})
    BY <1>1 DEF Accept
  <2>2. n \in OpRow BY NoOpType
  <2>3. n.status = "queued" /\ n.term = 0 /\ n.plan = Intent[k] BY DEF NoOp
  <2>4. NonEmptyAndUnique(Intent[k]) BY RefreshAssumption
  <2> HIDE DEF n
  <2> QED BY <2>1, <2>2, <2>3, <2>4 DEF TypeOK
<1>2. CASE UnderKey(k) # {}
  BY <1>2 DEF Accept, TypeOK
<1> QED BY <1>1, <1>2

\* Submissions and changes of the key.
LEMMA StepClient ==
  ASSUME IInv,
         \/ DeleteCredential \/ SecretLost
         \/ \E w \in Worker : PutCredential(w) \/ \E k \in Key : Submit(w, k)
  PROVE  IInv'
<1>0. TypeOK /\ stored \in {"absent", "user", "broken"} BY DEF IInv, TypeOK
<1>1. /\ UNCHANGED <<up, inc, alias, ident, snaps, stamp>>
      /\ stored' \in {"absent", "user", "broken"}
  BY <1>0 DEF DeleteCredential, SecretLost, PutCredential, Submit, Rekeyed
<1>2. ASSUME UNCHANGED <<ops, task>> PROVE IInv'
  <2>1. ASSUME NEW w \in Worker, NEW o \in Op PROVE Own(w, o)' /\ Exec(w, o)'
    <3>1. SameRow(o) /\ SameSnaps(o) BY <1>1, <1>2 DEF SameRow, SameSnaps
    <3>2. Exec(w, o)' BY <1>1, <1>2, <3>1, FrameExec DEF IInv
    <3> QED BY <1>1, <1>2, <3>2 DEF IInv, Own
  <2>2. ASSUME NEW o \in Op PROVE OpInv(o)'
    <3>1. SameRow(o) /\ SameSnaps(o) BY <1>1, <1>2 DEF SameRow, SameSnaps
    <3> QED BY <3>1, FrameOp DEF IInv
  <2>3. TypeOK' /\ AliasInv' BY <1>1, <1>2 DEF IInv, TypeOK, AliasInv
  <2> QED BY <2>1, <2>2, <2>3 DEF IInv
<1>3. ASSUME NEW w \in Worker, up[w], NEW k \in Key, NEW sc \in Scope, Accept(w, k, sc)
      PROVE  IInv'
  <2>1. PICK O : Schedule(w, O) BY <1>0, <1>3, Accepted
  <2>2. /\ task' \in [Worker -> [Op -> Task]]
        /\ \A v \in Worker, q \in Op : v # w => task'[v][q] = task[v][q]
        /\ \A q \in Op : task'[w][q] = task[w][q] \/ Fresh(w, q)
    BY <1>0, <2>1, Scheduled
  <2>3. /\ ops' \in [Op -> OpRow]
        /\ \A q \in Op : \/ ops'[q] = ops[q]
                         \/ /\ ops[q].status = "absent" /\ ops'[q].status = "queued"
                            /\ ops'[q].term = 0 /\ NonEmptyAndUnique(ops'[q].plan)
    BY <1>0, <1>3, Accepted
  <2>4. up' \in [Worker -> BOOLEAN] /\ inc' \in [Worker -> Nat] BY <1>0, <1>1 DEF TypeOK
  <2> QED BY <1>1, <1>3, <2>2, <2>3, <2>4, StepReplica
<1>4. CASE DeleteCredential \/ SecretLost
  BY <1>2, <1>4 DEF DeleteCredential, SecretLost
<1>5. CASE \E w \in Worker, k \in Key : Submit(w, k)
  <2>1. Selected(stored) \in Scope BY DEF Selected, Scope
  <2> QED BY <1>3, <1>5, <2>1 DEF Submit
<1>6. CASE \E w \in Worker : PutCredential(w)
  BY <1>2, <1>3, <1>6 DEF PutCredential, RefreshScoped, Scope
<1> QED BY <1>4, <1>5, <1>6

\* Replicas stop, start and recover.
LEMMA StepProcess ==
  ASSUME IInv, NEW w \in Worker, Stop(w) \/ Start(w) \/ Recover(w)
  PROVE  IInv'
<1>0. /\ TypeOK /\ up \in [Worker -> BOOLEAN] /\ inc \in [Worker -> Nat]
      /\ ops \in [Op -> OpRow] /\ inc[w] + 1 \in Nat
  BY DEF IInv, TypeOK
<1>1. UNCHANGED <<ops, alias, ident, snaps, stamp, stored>> /\ stored' \in {"absent", "user", "broken"}
  BY <1>0 DEF Stop, Start, Recover, TypeOK
<1>2. CASE Recover(w)
  <2>1. Schedule(w, Recoverable) /\ UNCHANGED <<up, inc>> /\ up[w] BY <1>2 DEF Recover
  <2> QED BY <1>0, <1>1, <2>1, Scheduled, StepReplica
<1>3. CASE Start(w)
  <2>1. /\ Schedule(w, Recoverable) /\ up' = [up EXCEPT ![w] = TRUE] /\ ~up[w]
        /\ inc' = [inc EXCEPT ![w] = @ + 1]
    BY <1>3 DEF Start
  <2>2. \A q \in Op : task[w][q].pc = "none" BY <2>1 DEF IInv, Own
  <2>3. /\ up' \in [Worker -> BOOLEAN] /\ inc' \in [Worker -> Nat] /\ up'[w]
        /\ \A v \in Worker : v # w => up'[v] = up[v] /\ inc'[v] = inc[v]
    BY <1>0, <2>1
  <2>4. /\ task' \in [Worker -> [Op -> Task]]
        /\ \A v \in Worker, q \in Op : v # w => task'[v][q] = task[v][q]
        /\ \A q \in Op : Fresh(w, q)
    BY <1>0, <2>1, <2>2, Scheduled
  <2> QED BY <1>0, <1>1, <2>3, <2>4, StepReplica
<1>4. CASE Stop(w)
  <2>1. /\ up' = [up EXCEPT ![w] = FALSE] /\ inc' = inc
        /\ task' = [task EXCEPT ![w] = [o \in Op |-> NoTask]]
    BY <1>4 DEF Stop
  <2>2. NoTask \in Task /\ NoTask.pc = "none" BY NoTaskType
  <2>3. /\ task' \in [Worker -> [Op -> Task]]
        /\ \A v \in Worker, q \in Op : v # w => task'[v][q] = task[v][q]
        /\ \A q \in Op : Fresh(w, q) /\ task'[w][q].pc = "none"
    BY <1>0, <2>1, <2>2 DEF TypeOK, Fresh
  <2>4. /\ up' \in [Worker -> BOOLEAN] /\ inc' \in [Worker -> Nat]
        /\ \A v \in Worker : v # w => up'[v] = up[v] /\ inc'[v] = inc[v]
    BY <1>0, <2>1
  <2> QED BY <1>0, <1>1, <2>3, <2>4, StepReplica
<1> QED BY <1>2, <1>3, <1>4

\* A refresh of another scope decides an alias, in order.
LEMMA StepOther ==
  ASSUME IInv, NEW p \in Provider, OtherScopeCommits(p)
  PROVE  IInv' /\ \A q \in Provider : alias'[q] >= alias[q]
<1>1. /\ stamp \in Nat /\ stamp' = stamp + 1 /\ stamp' \in Nat /\ 2 * (stamp + 1) \in Nat
      /\ alias' = [alias EXCEPT ![p] = 2 * (stamp + 1)]
      /\ ident' = ident \cup {p}
      /\ UNCHANGED <<ops, task, up, inc, snaps, stored>>
  BY DEF IInv, TypeOK, OtherScopeCommits
<1>2. alias \in [Provider -> Nat] /\ \A q \in Provider : alias[q] \in Nat /\ alias[q] <= 2 * stamp
  BY DEF IInv, TypeOK, AliasInv
<1>3. \A q \in Provider : alias'[q] >= alias[q] /\ alias'[q] <= 2 * stamp' /\ alias'[q] \in Nat
  BY <1>1, <1>2
<1>4. TypeOK' BY <1>1, <1>2 DEF IInv, TypeOK
<1>5. AliasInv' BY <1>3 DEF AliasInv
<1>6. ASSUME NEW w \in Worker, NEW o \in Op PROVE Own(w, o)' /\ Exec(w, o)'
  <2>1. SameRow(o) /\ SameSnaps(o) BY <1>1 DEF SameRow, SameSnaps
  <2>2. stamp' >= stamp BY <1>1
  <2> QED BY <1>1, <2>1, <2>2, FrameOwn, FrameExec DEF IInv
<1>7. ASSUME NEW o \in Op PROVE OpInv(o)'
  <2>1. SameRow(o) /\ SameSnaps(o) BY <1>1 DEF SameRow, SameSnaps
  <2> QED BY <2>1, FrameOp DEF IInv
<1> QED BY <1>3, <1>4, <1>5, <1>6, <1>7 DEF IInv

-----------------------------------------------------------------------------
\* The theorems.

LEMMA InitIInv == Init => IInv
<1> SUFFICES ASSUME Init PROVE IInv OBVIOUS
<1>0. /\ NoTask \in Task /\ NoTask.pc = "none"
      /\ \A w \in Worker, o \in Op : task[w][o] = NoTask
  BY NoTaskType DEF Init
<1>1. NoOp \in OpRow /\ NoOp.status = "absent" /\ NoOp.term = 0
  <2>1. <<>> \in Seq(Provider) /\ 0 \in Nat OBVIOUS
  <2> QED BY <2>1 DEF NoOp, OpRow, Scope
<1>2. \A o \in Op : ops[o] = NoOp BY DEF Init
<1>3. TypeOK BY <1>0, <1>1 DEF Init, TypeOK
<1>4. AliasInv BY DEF Init, AliasInv
<1>5. \A w \in Worker, o \in Op : Own(w, o) BY <1>0 DEF Init, Own
<1>6. \A w \in Worker, o \in Op : Exec(w, o) BY <1>0 DEF Exec, Executing
<1>7. \A o \in Op : OpInv(o) BY <1>1, <1>2 DEF Init, OpInv
<1> QED BY <1>3, <1>4, <1>5, <1>6, <1>7 DEF IInv

LEMMA NextIInv == IInv /\ [Next]_vars => IInv'
<1> SUFFICES ASSUME IInv, [Next]_vars PROVE IInv' OBVIOUS
<1>1. ASSUME NEW w \in Worker, NEW o \in Op, Run(w, o) PROVE IInv'
  <2>1. CASE Claim(w, o) BY <2>1, StepClaim
  <2>2. CASE Context(w, o) BY <2>2, StepContext
  <2>3. CASE Discover(w, o) BY <2>3, StepDiscover
  <2>4. CASE CommitApply(w, o) BY <2>4, CommitApplyCases, StepCommit, StepDrop
  <2>5. CASE Finish(w, o) \/ FinishFailed(w, o) BY <2>5, StepFinish
  <2>6. CASE CommitSend(w, o) \/ Synced(w, o) BY <2>6, StepTask
  <2> QED BY <1>1, <2>1, <2>2, <2>3, <2>4, <2>5, <2>6 DEF Run
<1>2. CASE UNCHANGED vars
  <2>1. UNCHANGED <<ops, task, up, inc, alias, ident, snaps, stamp, stored>> BY <1>2 DEF vars
  <2>2. ASSUME NEW o \in Op PROVE SameRow(o) /\ SameSnaps(o)
    BY <2>1 DEF SameRow, SameSnaps
  <2>3. \A o \in Op : OpInv(o)' BY <2>2, FrameOp DEF IInv
  <2>4. \A w \in Worker, o \in Op : Exec(w, o)' BY <2>1, <2>2, FrameExec DEF IInv
  <2>5. \A w \in Worker, o \in Op : Own(w, o)' BY <2>1 DEF IInv, Own
  <2> QED BY <2>1, <2>3, <2>4, <2>5 DEF IInv, TypeOK, AliasInv
<1> QED BY <1>1, <1>2, StepTask, StepRow, StepClient, StepProcess, StepOther DEF Next

LEMMA Invariance == Spec => []IInv
BY InitIInv, NextIInv, PTL DEF Spec

\* finish_inventory_refresh_execution: a reported success or partial success is
\* what the inventory holds from the execution that settled the operation, under
\* the scope its plan was compiled for; for any number of replicas, operations,
\* providers, faults and changes of the key.
THEOREM OutcomeAlwaysBacked == Spec => []OutcomeBacked
<1>1. IInv => OutcomeBacked
  <2> SUFFICES ASSUME IInv, NEW o \in Op
               PROVE  LET of == {s \in snaps : s.op = o /\ s.term = ops[o].term}
                          stats == {s.status : s \in of}
                      IN  /\ \A s \in snaps : s.op = o => s.scope = ops[o].scope
                          /\ ops[o].status \in {"succeeded", "partial"} =>
                            /\ \A i \in DOMAIN ops[o].plan :
                                 \E s \in of : s.provider = ops[o].plan[i]
                            /\ ops[o].status = "succeeded" <=> stats = {"success"}
                            /\ stats # {"failed"}
    BY DEF OutcomeBacked
  <2> DEFINE of == {s \in snaps : s.op = o /\ s.term = ops[o].term}
             stats == {s.status : s \in of}
  <2>1. \A s \in snaps : s.op = o => s.scope = ops[o].scope BY DEF IInv, OpInv
  <2>2. SUFFICES ASSUME ops[o].status \in {"succeeded", "partial"}
                 PROVE  /\ \A i \in DOMAIN ops[o].plan :
                             \E s \in of : s.provider = ops[o].plan[i]
                        /\ ops[o].status = "succeeded" <=> stats = {"success"}
                        /\ stats # {"failed"}
    BY <2>1
  <2>3. /\ \A i \in DOMAIN ops[o].plan : \E s \in snaps :
             Current(s, o) /\ s.provider = ops[o].plan[i]
        /\ ops[o].status = "succeeded" <=>
             (\A s \in snaps : Current(s, o) => s.status = "success")
        /\ \E s \in snaps : Current(s, o) /\ s.status # "failed"
    BY <2>2 DEF IInv, OpInv
  <2>4. \A s \in snaps : s \in of <=> Current(s, o) BY DEF Current
  <2>5. \A s \in of : s \in snaps OBVIOUS
  <2>6. \A x : x \in stats <=> \E s \in of : x = s.status OBVIOUS
  <2> HIDE DEF of, stats
  <2>7. \A i \in DOMAIN ops[o].plan : \E s \in of : s.provider = ops[o].plan[i]
    BY <2>3, <2>4
  <2>8. stats # {"failed"} BY <2>3, <2>4, <2>6
  <2>9. (\A s \in snaps : Current(s, o) => s.status = "success") <=> stats = {"success"}
    <3>1. \E s \in of : TRUE BY <2>3, <2>4
    <3>2. stats = {"success"} <=> \A s \in of : s.status = "success" BY <2>6, <3>1
    <3> QED BY <2>4, <2>5, <3>2
  <2> QED BY <2>3, <2>7, <2>8, <2>9
<1> QED BY <1>1, Invariance, PTL

\* _check_alias_order: no step of any replica puts an alias back to an older
\* decision, whatever clocks lag and commits come late.
THEOREM AliasesAlwaysForward == Spec => AliasesMoveForward
<1> DEFINE Forward == \A p \in Provider : alias'[p] >= alias[p]
<1>1. ASSUME IInv, [Next]_vars PROVE [Forward]_vars
  <2>0. \A p \in Provider : alias[p] \in Nat /\ alias[p] >= alias[p] BY <1>1 DEF IInv, TypeOK
  <2>1. ASSUME UNCHANGED alias PROVE Forward BY <2>0, <2>1
  <2>2. ASSUME NEW w \in Worker, NEW o \in Op, CommitApply(w, o) PROVE Forward
    BY <1>1, <2>1, <2>2, CommitApplyCases, CommitsAlias
  <2>3. ASSUME NEW p \in Provider, OtherScopeCommits(p) PROVE Forward
    BY SMTT(30), <1>1, <2>3, StepOther
  <2>4. ASSUME NEW w \in Worker, NEW o \in Op,
               Run(w, o) \/ Raises(w, o) \/ Renew(w, o) \/ RenewFails(w, o)
        PROVE  Forward
    BY <2>1, <2>2, <2>4
       DEF Run, Claim, Context, Discover, CommitSend, Finish, Synced, FinishFailed,
           Raises, Renew, RenewFails
  <2>5. ASSUME \/ \E o \in Op : LeaseExpires(o) \/ Prune(o)
               \/ DeleteCredential \/ SecretLost
               \/ \E w \in Worker : \/ PutCredential(w) \/ Stop(w) \/ Start(w) \/ Recover(w)
                                    \/ \E k \in Key : Submit(w, k)
        PROVE  Forward
    BY <2>1, <2>5
       DEF LeaseExpires, Prune, DeleteCredential, SecretLost, PutCredential, Rekeyed,
           Stop, Start, Recover, Submit
  <2> QED BY <1>1, <2>3, <2>4, <2>5 DEF Next
<1> QED BY <1>1, Invariance, PTL DEF Spec, AliasesMoveForward

-----------------------------------------------------------------------------
\* The refinement: what a step does to the ledger.

SameLedgerRow(q) ==
  /\ ops'[q].status = ops[q].status /\ ops'[q].plan = ops[q].plan
  /\ ops'[q].term = ops[q].term

LEMMA LedgerStutter ==
  ASSUME \A q \in Op : SameLedgerRow(q), snaps' = snaps
  PROVE  UNCHANGED Ledger!vars
<1>1. [o \in Op |-> ops'[o].status] = [o \in Op |-> ops[o].status] BY DEF SameLedgerRow
<1>2. [o \in Op |-> {ops'[o].plan[i] : i \in DOMAIN ops'[o].plan}]
        = [o \in Op |-> {ops[o].plan[i] : i \in DOMAIN ops[o].plan}]
  BY DEF SameLedgerRow
<1>3. [o \in Op |-> ops'[o].term] = [o \in Op |-> ops[o].term] BY DEF SameLedgerRow
<1> QED BY <1>1, <1>2, <1>3 DEF Ledger!vars

\* One row gets another status and term; its plan is as it was.
LEMMA LedgerRow ==
  ASSUME NEW o \in Op, \A q \in Op : q # o => SameLedgerRow(q),
         ops'[o].plan = ops[o].plan
  PROVE  /\ [q \in Op |-> ops'[q].status]
              = [[q \in Op |-> ops[q].status] EXCEPT ![o] = ops'[o].status]
         /\ [q \in Op |-> ops'[q].term]
              = [[q \in Op |-> ops[q].term] EXCEPT ![o] = ops'[o].term]
         /\ [q \in Op |-> {ops'[q].plan[i] : i \in DOMAIN ops'[q].plan}]
              = [q \in Op |-> {ops[q].plan[i] : i \in DOMAIN ops[q].plan}]
<1>1. \A q \in Op : ops'[q].plan = ops[q].plan BY DEF SameLedgerRow
<1>2. \A q \in Op : q # o => ops'[q].status = ops[q].status /\ ops'[q].term = ops[q].term
  BY DEF SameLedgerRow
<1>3. [q \in Op |-> ops'[q].status]
        = [[q \in Op |-> ops[q].status] EXCEPT ![o] = ops'[o].status]
  BY <1>2
<1>4. [q \in Op |-> ops'[q].term] = [[q \in Op |-> ops[q].term] EXCEPT ![o] = ops'[o].term]
  BY <1>2
<1>5. [q \in Op |-> {ops'[q].plan[i] : i \in DOMAIN ops'[q].plan}]
        = [q \in Op |-> {ops[q].plan[i] : i \in DOMAIN ops[q].plan}]
  BY <1>1
<1> QED BY <1>3, <1>4, <1>5

LEMMA LedgerAccept ==
  ASSUME IInv, NEW w \in Worker, NEW k \in Key, NEW sc \in Scope, Accept(w, k, sc),
         snaps' = snaps
  PROVE  [Ledger!Next]_(Ledger!vars)
<1>1. CASE UnderKey(k) # {}
  <2>1. UNCHANGED ops BY <1>1 DEF Accept
  <2> QED BY <2>1, LedgerStutter DEF SameLedgerRow
<1>2. CASE UnderKey(k) = {}
  <2> DEFINE n == [NoOp EXCEPT !.status = "queued", !.key = k, !.plan = Intent[k], !.scope = sc]
  <2>1. PICK o \in Op : ops[o].status = "absent" /\ ops' = [ops EXCEPT ![o] = n]
    BY <1>2 DEF Accept
  <2>2. n.status = "queued" /\ n.term = 0 /\ n.plan = Intent[k] BY DEF NoOp
  <2> HIDE DEF n
  <2>3. ops'[o] = n /\ \A q \in Op : q # o => ops'[q] = ops[q]
    BY <2>1 DEF IInv, TypeOK
  <2>4. ops[o].term = 0 BY <2>1 DEF IInv, OpInv
  <2> DEFINE ps == {Intent[k][i] : i \in DOMAIN Intent[k]}
  <2>5. ps \in SUBSET Provider BY RefreshAssumption
  <2>6. [q \in Op |-> ops'[q].status] = [[q \in Op |-> ops[q].status] EXCEPT ![o] = "queued"]
    BY <2>2, <2>3
  <2>7. [q \in Op |-> ops'[q].term] = [q \in Op |-> ops[q].term]
    BY <2>2, <2>3, <2>4
  <2>8. [q \in Op |-> {ops'[q].plan[i] : i \in DOMAIN ops'[q].plan}]
          = [[q \in Op |-> {ops[q].plan[i] : i \in DOMAIN ops[q].plan}] EXCEPT ![o] = ps]
    <3>1. {ops'[o].plan[i] : i \in DOMAIN ops'[o].plan} = ps BY <2>2, <2>3
    <3>2. \A q \in Op : q # o => {ops'[q].plan[i] : i \in DOMAIN ops'[q].plan}
                                 = {ops[q].plan[i] : i \in DOMAIN ops[q].plan}
      BY <2>3
    <3> HIDE DEF ps
    <3> QED BY <3>1, <3>2
  <2> HIDE DEF ps
  <2>9. Ledger!Accept(o) BY <2>1, <2>5, <2>6, <2>7, <2>8 DEF Ledger!Accept
  <2> QED BY <2>9 DEF Ledger!Next
<1> QED BY <1>1, <1>2

LEMMA LedgerBegin ==
  ASSUME IInv, NEW w \in Worker, NEW o \in Op, Claim(w, o)
  PROVE  [Ledger!Next]_(Ledger!vars)
<1>0. snaps' = snaps BY DEF Claim
<1>1. CASE ~Claimable(o)
  BY <1>0, <1>1, LedgerStutter DEF Claim, SameLedgerRow
<1>2. CASE Claimable(o)
  <2> DEFINE n == [ops[o] EXCEPT !.status = "running", !.owner = Me(w),
                                 !.expired = FALSE, !.term = ops[o].term + 1]
  <2>1. ops' = [ops EXCEPT ![o] = n] BY <1>2 DEF Claim
  <2>2. n.status = "running" /\ n.term = ops[o].term + 1 /\ n.plan = ops[o].plan
    BY DEF IInv, TypeOK, OpRow
  <2> HIDE DEF n
  <2>3. ops'[o] = n /\ \A q \in Op : q # o => ops'[q] = ops[q]
    BY <2>1 DEF IInv, TypeOK
  <2>4. \A q \in Op : q # o => SameLedgerRow(q) BY <2>3 DEF SameLedgerRow
  <2>5. ops[o].status \in {"queued", "running"} BY <1>2 DEF Claimable
  <2>6. Ledger!Begin(o)
    BY <1>0, <2>2, <2>3, <2>4, <2>5, LedgerRow DEF Ledger!Begin
  <2> QED BY <2>6 DEF Ledger!Next
<1> QED BY <1>1, <1>2

LEMMA LedgerCommit ==
  ASSUME IInv, NEW w \in Worker, NEW o \in Op, Commits(w, o)
  PROVE  [Ledger!Next]_(Ledger!vars)
<1> DEFINE t == task[w][o]
           p == ops[o].plan[t.k]
           z == Written(w, o)
           ev == {<<s.op, s.term, s.provider>> : s \in snaps}
<1>1. /\ ops[o].status = "running" /\ t.term = ops[o].term
      /\ t.k \in 1..Len(ops[o].plan) /\ ops[o].plan \in Seq(Provider) /\ p \in Provider
      /\ \A s \in snaps : Current(s, o) => s.provider # p
  BY Unfolded DEF Commits
<1>2. snaps' = snaps \cup {z} /\ ops' = ops BY DEF Commits
<1>3. z.op = o /\ z.term = ops[o].term /\ z.provider = p BY <1>1 DEF Written
<1>4. t.k \in DOMAIN ops[o].plan BY <1>1
<1> HIDE DEF p, z
<1>5. {<<s.op, s.term, s.provider>> : s \in snaps'} = ev \cup {<<o, ops[o].term, p>>}
  BY <1>2, <1>3
<1>6. <<o, ops[o].term, p>> \notin ev BY <1>1 DEF Current
<1>7. p \in {ops[o].plan[i] : i \in DOMAIN ops[o].plan} BY <1>4 DEF p
<1>8. PICK r \in Provider : r = p BY <1>1
<1>9. Ledger!Commit(o, r)
  BY <1>1, <1>2, <1>5, <1>6, <1>7, <1>8 DEF Ledger!Commit
<1> QED BY SMTT(30), <1>9 DEF Ledger!Next

LEMMA LedgerSettle ==
  ASSUME IInv, NEW w \in Worker, NEW o \in Op, Finish(w, o) \/ FinishFailed(w, o)
  PROVE  [Ledger!Next]_(Ledger!vars)
<1>0. snaps' = snaps BY DEF Finish, FinishFailed
<1>1. CASE ~Holds(w, o)
  <2>1. UNCHANGED ops BY <1>1 DEF Finish, FinishFailed, Settle
  <2> QED BY <1>0, <2>1, LedgerStutter DEF SameLedgerRow
<1>2. CASE Holds(w, o)
  <2>1. PICK st \in Terminal : Backed(o, st) /\ Settle(w, o, st)
    <3>1. CASE Finish(w, o) BY <1>2, <3>1, VerdictBacked DEF Finish
    <3>2. CASE FinishFailed(w, o) BY <3>2 DEF FinishFailed, Backed, Terminal
    <3> QED BY <3>1, <3>2
  <2> DEFINE n == [ops[o] EXCEPT !.status = st, !.owner = Nobody, !.expired = FALSE]
  <2>2. ops' = [ops EXCEPT ![o] = n] BY <1>2, <2>1 DEF Settle
  <2>3. n.status = st /\ n.term = ops[o].term /\ n.plan = ops[o].plan
    BY DEF IInv, TypeOK, OpRow
  <2> HIDE DEF n
  <2>4. ops'[o] = n /\ \A q \in Op : q # o => ops'[q] = ops[q]
    BY <2>2 DEF IInv, TypeOK
  <2>5. \A q \in Op : q # o => SameLedgerRow(q) BY <2>4 DEF SameLedgerRow
  <2>6. [q \in Op |-> ops'[q].term] = [q \in Op |-> ops[q].term]
    BY <2>3, <2>4
  <2>7. st = "succeeded" =>
          \A p \in {ops[o].plan[i] : i \in DOMAIN ops[o].plan} :
            <<o, ops[o].term, p>> \in {<<s.op, s.term, s.provider>> : s \in snaps}
    <3> SUFFICES ASSUME st = "succeeded", NEW i \in DOMAIN ops[o].plan
                 PROVE  <<o, ops[o].term, ops[o].plan[i]>>
                          \in {<<s.op, s.term, s.provider>> : s \in snaps}
      OBVIOUS
    <3>1. PICK s \in snaps : Current(s, o) /\ s.provider = ops[o].plan[i]
      BY <2>1 DEF Backed
    <3> QED BY <3>1 DEF Current
  <2>8. Ledger!Settle(o, st)
    BY <1>0, <1>2, <2>3, <2>4, <2>5, <2>6, <2>7, LedgerRow DEF Ledger!Settle, Holds
  <2> QED BY <2>1, <2>8 DEF Ledger!Next
<1> QED BY <1>1, <1>2

LEMMA LedgerForget ==
  ASSUME IInv, NEW o \in Op, Prune(o)
  PROVE  [Ledger!Next]_(Ledger!vars)
<1> DEFINE n == [ops[o] EXCEPT !.status = "forgotten"]
<1>1. ops' = [ops EXCEPT ![o] = n] /\ snaps' = snaps /\ ops[o].status \in Terminal BY DEF Prune
<1>2. n.status = "forgotten" /\ n.term = ops[o].term /\ n.plan = ops[o].plan
  BY DEF IInv, TypeOK, OpRow
<1> HIDE DEF n
<1>3. ops'[o] = n /\ \A q \in Op : q # o => ops'[q] = ops[q]
  BY <1>1 DEF IInv, TypeOK
<1>4. \A q \in Op : q # o => SameLedgerRow(q) BY <1>3 DEF SameLedgerRow
<1>5. [q \in Op |-> ops'[q].term] = [q \in Op |-> ops[q].term] BY <1>2, <1>3
<1>6. /\ [q \in Op |-> ops'[q].status]
           = [[q \in Op |-> ops[q].status] EXCEPT ![o] = "forgotten"]
      /\ [q \in Op |-> {ops'[q].plan[i] : i \in DOMAIN ops'[q].plan}]
           = [q \in Op |-> {ops[q].plan[i] : i \in DOMAIN ops[q].plan}]
  BY <1>2, <1>3, <1>4, LedgerRow
<1>7. Ledger!Forget(o) BY <1>1, <1>5, <1>6 DEF Ledger!Forget
<1> QED BY <1>7 DEF Ledger!Next

\* The lease of a row is not in the ledger.
LEMMA LedgerLease ==
  ASSUME IInv, NEW o \in Op, LeaseExpires(o) \/ \E w \in Worker : Renew(w, o)
  PROVE  UNCHANGED Ledger!vars
<1>1. snaps' = snaps BY DEF LeaseExpires, Renew
<1>2. \/ ops' = ops
      \/ \E b \in BOOLEAN : ops' = [ops EXCEPT ![o] = [ops[o] EXCEPT !.expired = b]]
  BY DEF LeaseExpires, Renew
<1>3. \A q \in Op : SameLedgerRow(q)
  <2>1. CASE ops' = ops BY <2>1 DEF SameLedgerRow
  <2>2. ASSUME NEW b \in BOOLEAN, ops' = [ops EXCEPT ![o] = [ops[o] EXCEPT !.expired = b]]
        PROVE  \A q \in Op : SameLedgerRow(q)
    <3> DEFINE n == [ops[o] EXCEPT !.expired = b]
    <3>1. n.status = ops[o].status /\ n.plan = ops[o].plan /\ n.term = ops[o].term
      BY DEF IInv, TypeOK, OpRow
    <3>2. ops' = [ops EXCEPT ![o] = n] BY <2>2
    <3> HIDE DEF n
    <3> QED BY <3>1, <3>2 DEF IInv, TypeOK, SameLedgerRow
  <2> QED BY <1>2, <2>1, <2>2
<1> QED BY <1>1, <1>3, LedgerStutter

LEMMA LedgerStep ==
  IInv /\ [Next]_vars => [Ledger!Next]_(Ledger!vars)
<1> SUFFICES ASSUME IInv, [Next]_vars PROVE [Ledger!Next]_(Ledger!vars) OBVIOUS
<1>1. ASSUME UNCHANGED <<ops, snaps>> PROVE UNCHANGED Ledger!vars
  BY <1>1, LedgerStutter DEF SameLedgerRow
<1>2. ASSUME NEW w \in Worker, NEW o \in Op, Run(w, o) PROVE [Ledger!Next]_(Ledger!vars)
  <2>1. CASE Claim(w, o) BY <2>1, LedgerBegin
  <2>2. CASE CommitApply(w, o) BY <1>1, <2>2, CommitApplyCases, LedgerCommit
  <2>3. CASE Finish(w, o) \/ FinishFailed(w, o) BY <2>3, LedgerSettle
  <2>4. CASE Context(w, o) \/ Discover(w, o) \/ CommitSend(w, o) \/ Synced(w, o)
    BY <1>1, <2>4 DEF Context, Discover, CommitSend, Synced
  <2> QED BY <1>2, <2>1, <2>2, <2>3, <2>4 DEF Run
<1>3. ASSUME NEW w \in Worker, NEW o \in Op, Raises(w, o) \/ RenewFails(w, o)
      PROVE  [Ledger!Next]_(Ledger!vars)
  BY <1>1, <1>3 DEF Raises, RenewFails
<1>4. ASSUME NEW w \in Worker, NEW k \in Key, Submit(w, k) PROVE [Ledger!Next]_(Ledger!vars)
  <2>1. Selected(stored) \in Scope BY DEF Selected, Scope
  <2> QED BY <1>4, <2>1, LedgerAccept DEF Submit
<1>5. ASSUME NEW w \in Worker, PutCredential(w) PROVE [Ledger!Next]_(Ledger!vars)
  BY <1>1, <1>5, LedgerAccept DEF PutCredential, RefreshScoped, Rekeyed, Scope
<1>6. ASSUME \/ DeleteCredential \/ SecretLost \/ UNCHANGED vars
             \/ \E p \in Provider : OtherScopeCommits(p)
             \/ \E w \in Worker : Stop(w) \/ Start(w) \/ Recover(w)
      PROVE  [Ledger!Next]_(Ledger!vars)
  BY <1>1, <1>6
     DEF DeleteCredential, SecretLost, Rekeyed, OtherScopeCommits, Stop, Start, Recover, vars
<1> QED BY <1>2, <1>3, <1>4, <1>5, <1>6, LedgerForget, LedgerLease DEF Next

\* InventoryRefresh implements InventoryLedger: leases, fences, heartbeats and
\* recovery, on any number of replicas, admit evidence of the current execution
\* only, once per provider, and let an operation settle once.
THEOREM RefreshImplementsLedger == Spec => ImplementsLedger
<1>1. Init => Ledger!Init
  <2> SUFFICES ASSUME Init PROVE Ledger!Init OBVIOUS
  <2>1. \A o \in Op : ops[o].status = "absent" /\ ops[o].term = 0 /\ ops[o].plan = <<>>
    BY DEF Init, NoOp
  <2>2. \A o \in Op : {ops[o].plan[i] : i \in DOMAIN ops[o].plan} = {} BY <2>1
  <2>3. {<<s.op, s.term, s.provider>> : s \in snaps} = {} BY DEF Init
  <2> QED BY <2>1, <2>2, <2>3 DEF Ledger!Init
<1> QED BY <1>1, LedgerStep, Invariance, PTL DEF Spec, ImplementsLedger, Ledger!Spec

-----------------------------------------------------------------------------
(***************************************************************************)
(* What one discovery of a refresh reports, for any provider, whatever its *)
(* page graph, configuration and limits.  A walk knows a set of pages, all *)
(* reachable, and has the rows of all of them but the one it asks for; so  *)
(* when no page follows the set is closed and holds every reachable page.  *)
(* Sources read and still to read are all there are for as long as nothing *)
(* was cut.                                                                *)
(***************************************************************************)

\* A non-empty set of naturals has a least element: what lets a proof go by
\* the least counterexample.
LEMMA LeastOf ==
  ASSUME NEW S \in SUBSET Nat, S # {}
  PROVE  \E n \in S : \A x \in S : n <= x
<1>1. PICK n \in S : \A x \in S : ~(<<x, n>> \in OpToRel(<, Nat))
  BY NatLessThanWellFounded, WFMin
<1>2. \A x \in S : ~(x < n)
  BY <1>1 DEF OpToRel
<1> QED
  BY <1>2

\* What the elements of a longer list are.
LEMMA ToSetAppend ==
  ASSUME NEW T, NEW s \in Seq(T), NEW e \in T
  PROVE  Append(s, e) \in Seq(T) /\ ToSet(Append(s, e)) = ToSet(s) \cup {e}
<1>1. PICK a : a = Append(s, e)
  OBVIOUS
<1>2. /\ a \in Seq(T) /\ Len(s) \in Nat /\ DOMAIN s = 1..Len(s)
      /\ DOMAIN a = 1..Len(s) + 1 /\ a[Len(s) + 1] = e
      /\ \A n \in 1..Len(s) : a[n] = s[n]
  BY <1>1
<1>3. ToSet(a) \subseteq ToSet(s) \cup {e}
  BY <1>2 DEF ToSet
<1>4. ToSet(s) \cup {e} \subseteq ToSet(a)
  BY <1>2 DEF ToSet
<1> QED
  BY <1>1, <1>2, <1>3, <1>4

LEMMA ToSetConcat ==
  ASSUME NEW T, NEW s \in Seq(T), NEW t \in Seq(T)
  PROVE  s \o t \in Seq(T) /\ ToSet(s \o t) = ToSet(s) \cup ToSet(t)
<1>1. PICK a : a = s \o t
  OBVIOUS
<1>2. PICK m, k : m = Len(s) /\ k = Len(t)
  OBVIOUS
<1>3. m \in Nat /\ k \in Nat /\ DOMAIN s = 1..m /\ DOMAIN t = 1..k
  BY <1>2
<1>4. /\ a \in Seq(T) /\ Len(a) = m + k
      /\ \A i \in 1..m + k : a[i] = IF i <= m THEN s[i] ELSE t[i - m]
  BY <1>1, <1>2, ConcatProperties
<1>5. DOMAIN a = 1..m + k
  BY <1>3, <1>4
<1>6. \A i \in 1..m : i \in 1..m + k /\ a[i] = s[i]
  BY <1>3, <1>4
<1>7. \A i \in 1..k : m + i \in 1..m + k /\ a[m + i] = t[i]
  BY <1>3, <1>4
<1>8. \A i \in 1..m + k : (i \in 1..m /\ a[i] = s[i]) \/ (i - m \in 1..k /\ a[i] = t[i - m])
  BY <1>3, <1>4
<1>9. ToSet(a) \subseteq ToSet(s) \cup ToSet(t)
  BY <1>3, <1>5, <1>8 DEF ToSet
<1>10. ToSet(s) \subseteq ToSet(a)
  BY <1>3, <1>5, <1>6 DEF ToSet
<1>11. ToSet(t) \subseteq ToSet(a)
  BY <1>3, <1>5, <1>7 DEF ToSet
<1> QED
  BY <1>1, <1>4, <1>9, <1>10, <1>11

\* What Picked picks.
LEMMA PickedIs ==
  ASSUME NEW T, NEW s \in Seq(T), NEW I
  PROVE  /\ Picked(s, I) \in Seq(T)
         /\ ToSet(Picked(s, I)) = {s[n] : n \in I \cap DOMAIN s}
<1> DEFINE N == Len(s)
           Rule(g, m) == [n \in 0..m |->
             IF n = 0 THEN <<>> ELSE IF n \in I THEN Append(g[n - 1], s[n]) ELSE g[n - 1]]
           Good(g, n) == g[n] \in Seq(T) /\ ToSet(g[n]) = {s[k] : k \in I \cap 1..n}
<1>0. N \in Nat /\ DOMAIN s = 1..N /\ \A n \in 1..N : s[n] \in T
  OBVIOUS
<1>1. \A m \in Nat : m <= N => \E g : g = Rule(g, m)
  <2> DEFINE Has(m) == \E g : g = Rule(g, m)
             Bad == {m \in Nat : m <= N /\ ~Has(m)}
  <2>0. \A x : x \in Bad <=> x \in Nat /\ x <= N /\ ~Has(x)
    OBVIOUS
  <2> HIDE DEF Bad, Has
  <2> SUFFICES ASSUME Bad # {} PROVE FALSE
    BY <2>0 DEF Has
  <2>1. PICK m \in Bad : \A x \in Bad : m <= x
    <3>1. Bad \in SUBSET Nat
      BY <2>0
    <3> QED
      BY <3>1, LeastOf
  <2>2. m \in Nat /\ m <= N /\ ~Has(m)
    BY <2>0, <2>1
  <2>3. Has(0)
    <3> DEFINE g == [n \in 0..0 |-> <<>>]
    <3>1. g = Rule(g, 0)
      OBVIOUS
    <3> HIDE DEF g
    <3> QED
      BY <3>1 DEF Has
  <2>4. m - 1 \in Nat /\ m - 1 <= N /\ m - 1 \notin Bad
    <3> HIDE DEF N
    <3> QED
      BY <1>0, <2>1, <2>2, <2>3
  <2>5. PICK g : g = Rule(g, m - 1)
    BY <2>0, <2>4 DEF Has
  <2> DEFINE h == [n \in 0..m |->
               IF n < m THEN g[n] ELSE IF m \in I THEN Append(g[m - 1], s[m]) ELSE g[m - 1]]
  <2>6. \A n \in 0..(m - 1) :
          g[n] = IF n = 0 THEN <<>> ELSE IF n \in I THEN Append(g[n - 1], s[n]) ELSE g[n - 1]
    BY <2>5
  <2>7. \A n \in 0..m :
          h[n] = IF n = 0 THEN <<>> ELSE IF n \in I THEN Append(h[n - 1], s[n]) ELSE h[n - 1]
    BY <2>2, <2>4, <2>6
  <2>8. h = Rule(h, m)
    BY <2>7
  <2> HIDE DEF h
  <2> QED
    BY <2>2, <2>8 DEF Has
<1>2. PICK g : g = Rule(g, N) /\ Picked(s, I) = g[N]
  <2> DEFINE f == CHOOSE g : g = Rule(g, N)
  <2>1. f = Rule(f, N)
    <3> HIDE DEF Rule, N
    <3>0. N <= N
      BY <1>0
    <3>1. \E g : g = Rule(g, N)
      BY <1>0, <1>1, <3>0
    <3> QED
      BY <3>1
  <2>2. Picked(s, I) = f[N]
    BY DEF Picked
  <2> HIDE DEF f
  <2> QED
    BY <2>1, <2>2
<1>3. \A n \in 0..N :
        g[n] = IF n = 0 THEN <<>> ELSE IF n \in I THEN Append(g[n - 1], s[n]) ELSE g[n - 1]
  BY <1>2
<1>4. Good(g, N)
  <2> DEFINE Bad == {n \in Nat : n <= N /\ ~Good(g, n)}
  <2>0. \A x : x \in Bad <=> x \in Nat /\ x <= N /\ ~Good(g, x)
    OBVIOUS
  <2> HIDE DEF Bad, Good
  <2> SUFFICES ASSUME Bad # {} PROVE FALSE
    <3> HIDE DEF N
    <3> QED
      BY <1>0, <2>0
  <2>1. PICK n \in Bad : \A x \in Bad : n <= x
    <3>1. Bad \in SUBSET Nat
      BY <2>0
    <3> QED
      BY <3>1, LeastOf
  <2>2. n \in Nat /\ n <= N /\ ~Good(g, n)
    BY <2>0, <2>1
  <2>3. Good(g, 0)
    <3>1. g[0] = <<>>
      BY <1>0, <1>3
    <3> QED
      BY <3>1 DEF Good, ToSet
  <2>4. n - 1 \in Nat /\ n - 1 <= N /\ n - 1 \notin Bad
    <3> HIDE DEF N
    <3> QED
      BY <1>0, <2>1, <2>2, <2>3
  <2>5. Good(g, n - 1)
    BY <2>0, <2>4
  <2>6. g[n] = IF n \in I THEN Append(g[n - 1], s[n]) ELSE g[n - 1]
    <3>1. n # 0 /\ n \in 0..N
      BY <2>2, <2>3
    <3> HIDE DEF N
    <3> QED
      BY <1>3, <3>1
  <2>7. n \in 1..N
    <3> HIDE DEF N
    <3> QED
      BY <1>0, <2>2, <2>4
  <2>8. s[n] \in T
    BY <1>0, <2>7
  <2>9. Good(g, n)
    <3>1. g[n - 1] \in Seq(T) /\ ToSet(g[n - 1]) = {s[k] : k \in I \cap 1..n - 1}
      BY <2>5 DEF Good
    <3>2. CASE n \in I
      <4>1. g[n] \in Seq(T) /\ ToSet(g[n]) = ToSet(g[n - 1]) \cup {s[n]}
        BY <2>6, <2>8, <3>1, <3>2, ToSetAppend
      <4>2. I \cap 1..n = (I \cap 1..n - 1) \cup {n}
        BY <2>2, <2>4, <3>2
      <4> QED
        BY <3>1, <4>1, <4>2 DEF Good
    <3>3. CASE n \notin I
      <4>1. I \cap 1..n = I \cap 1..n - 1
        BY <2>2, <2>4, <3>3
      <4> QED
        BY <2>6, <3>1, <3>3, <4>1 DEF Good
    <3> QED
      BY <3>2, <3>3
  <2> QED
    BY <2>2, <2>9
<1> HIDE DEF N
<1>5. DOMAIN s = 1..N
  BY <1>0
<1> QED
  BY <1>2, <1>4, <1>5

\* What Joined joins.
LEMMA JoinedIs ==
  ASSUME NEW T, NEW ss \in Seq(Seq(T))
  PROVE  /\ Joined(ss) \in Seq(T)
         /\ ToSet(Joined(ss)) = UNION {ToSet(ss[n]) : n \in DOMAIN ss}
<1> DEFINE N == Len(ss)
           Rule(g, m) == [n \in 0..m |-> IF n = 0 THEN <<>> ELSE g[n - 1] \o ss[n]]
           Good(g, n) ==
             /\ g[n] \in Seq(T)
             /\ \A e : e \in ToSet(g[n]) <=> \E k \in 1..n : e \in ToSet(ss[k])
<1>0. N \in Nat /\ DOMAIN ss = 1..N /\ \A n \in 1..N : ss[n] \in Seq(T)
  OBVIOUS
<1>1. \A m \in Nat : m <= N => \E g : g = Rule(g, m)
  <2> DEFINE Has(m) == \E g : g = Rule(g, m)
             Bad == {m \in Nat : m <= N /\ ~Has(m)}
  <2>0. \A x : x \in Bad <=> x \in Nat /\ x <= N /\ ~Has(x)
    OBVIOUS
  <2> HIDE DEF Bad, Has
  <2> SUFFICES ASSUME Bad # {} PROVE FALSE
    BY <2>0 DEF Has
  <2>1. PICK m \in Bad : \A x \in Bad : m <= x
    <3>1. Bad \in SUBSET Nat
      BY <2>0
    <3> QED
      BY <3>1, LeastOf
  <2>2. m \in Nat /\ m <= N /\ ~Has(m)
    BY <2>0, <2>1
  <2>3. Has(0)
    <3> DEFINE g == [n \in 0..0 |-> <<>>]
    <3>1. g = Rule(g, 0)
      OBVIOUS
    <3> HIDE DEF g
    <3> QED
      BY <3>1 DEF Has
  <2>4. m - 1 \in Nat /\ m - 1 <= N /\ m - 1 \notin Bad
    <3> HIDE DEF N
    <3> QED
      BY <1>0, <2>1, <2>2, <2>3
  <2>5. PICK g : g = Rule(g, m - 1)
    BY <2>0, <2>4 DEF Has
  <2> DEFINE h == [n \in 0..m |-> IF n < m THEN g[n] ELSE g[m - 1] \o ss[m]]
  <2>6. \A n \in 0..(m - 1) : g[n] = IF n = 0 THEN <<>> ELSE g[n - 1] \o ss[n]
    BY <2>5
  <2>7. \A n \in 0..m : h[n] = IF n = 0 THEN <<>> ELSE h[n - 1] \o ss[n]
    BY <2>2, <2>4, <2>6
  <2>8. h = Rule(h, m)
    BY <2>7
  <2> HIDE DEF h
  <2> QED
    BY <2>2, <2>8 DEF Has
<1>2. PICK g : g = Rule(g, N) /\ Joined(ss) = g[N]
  <2> DEFINE f == CHOOSE g : g = Rule(g, N)
  <2>1. f = Rule(f, N)
    <3> HIDE DEF Rule, N
    <3>0. N <= N
      BY <1>0
    <3>1. \E g : g = Rule(g, N)
      BY <1>0, <1>1, <3>0
    <3> QED
      BY <3>1
  <2>2. Joined(ss) = f[N]
    BY DEF Joined
  <2> HIDE DEF f
  <2> QED
    BY <2>1, <2>2
<1>3. \A n \in 0..N : g[n] = IF n = 0 THEN <<>> ELSE g[n - 1] \o ss[n]
  BY <1>2
<1>4. Good(g, N)
  <2> DEFINE Bad == {n \in Nat : n <= N /\ ~Good(g, n)}
  <2>0. \A x : x \in Bad <=> x \in Nat /\ x <= N /\ ~Good(g, x)
    OBVIOUS
  <2> HIDE DEF Bad, Good
  <2> SUFFICES ASSUME Bad # {} PROVE FALSE
    <3> HIDE DEF N
    <3> QED
      BY <1>0, <2>0
  <2>1. PICK n \in Bad : \A x \in Bad : n <= x
    <3>1. Bad \in SUBSET Nat
      BY <2>0
    <3> QED
      BY <3>1, LeastOf
  <2>2. n \in Nat /\ n <= N /\ ~Good(g, n)
    BY <2>0, <2>1
  <2>3. Good(g, 0)
    <3>1. g[0] = <<>>
      BY <1>0, <1>3
    <3> QED
      BY <3>1 DEF Good, ToSet
  <2>4. n - 1 \in Nat /\ n - 1 <= N /\ n - 1 \notin Bad
    <3> HIDE DEF N
    <3> QED
      BY <1>0, <2>1, <2>2, <2>3
  <2>5. Good(g, n - 1)
    BY <2>0, <2>4
  <2>6. g[n] = g[n - 1] \o ss[n]
    <3>1. n # 0 /\ n \in 0..N
      BY <2>2, <2>3
    <3> HIDE DEF N
    <3> QED
      BY <1>3, <3>1
  <2>7. n \in 1..N
    <3> HIDE DEF N
    <3> QED
      BY <1>0, <2>2, <2>4
  <2>8. ss[n] \in Seq(T)
    BY <1>0, <2>7
  <2>9. Good(g, n)
    <3>1. /\ g[n - 1] \in Seq(T)
          /\ \A e : e \in ToSet(g[n - 1]) <=> \E k \in 1..n - 1 : e \in ToSet(ss[k])
      BY <2>5 DEF Good
    <3>2. g[n] \in Seq(T) /\ ToSet(g[n]) = ToSet(g[n - 1]) \cup ToSet(ss[n])
      BY <2>6, <2>8, <3>1, ToSetConcat
    <3>3. 1..n = (1..n - 1) \cup {n}
      BY <2>2, <2>4
    <3> QED
      BY <3>1, <3>2, <3>3 DEF Good
  <2> QED
    BY <2>2, <2>9
<1> HIDE DEF N
<1>5. DOMAIN ss = 1..N
  BY <1>0
<1> QED
  BY <1>2, <1>4, <1>5

\* A prefix has elements of the list; the list itself has them all.
LEMMA ToSetPrefix ==
  ASSUME NEW T, NEW s \in Seq(T), NEW n \in Int, n <= Len(s)
  PROVE  /\ SubSeq(s, 1, n) \in Seq(T)
         /\ ToSet(SubSeq(s, 1, n)) \subseteq ToSet(s)
         /\ n = Len(s) => SubSeq(s, 1, n) = s
<1>1. Len(s) \in Nat /\ DOMAIN s = 1..Len(s) /\ \A i \in 1..Len(s) : s[i] \in T
  OBVIOUS
<1>2. PICK a : a = SubSeq(s, 1, n)
  OBVIOUS
<1>3. 1 \in Int /\ \A i \in 1..n : i \in 1..Len(s) /\ s[i] \in T
  BY <1>1
<1>4. /\ a \in Seq(T) /\ Len(a) = IF 1 <= n THEN n - 1 + 1 ELSE 0
      /\ \A i \in 1..n - 1 + 1 : a[i] = s[1 + i - 1]
  BY <1>2, <1>3, SubSeqProperties
<1>5. \A i \in DOMAIN a : i \in 1..n /\ a[i] = s[i]
  BY <1>4
<1>6. ToSet(a) \subseteq ToSet(s)
  BY <1>1, <1>3, <1>5 DEF ToSet
<1>7. n = Len(s) => a = s
  BY <1>2, SubSeqFull
<1> QED
  BY <1>2, <1>4, <1>6, <1>7

LEMMA ToSetIs ==
  ASSUME NEW T, NEW s \in Seq(T)
  PROVE  ToSet(s) \subseteq T /\ s \in Seq(ToSet(s))
<1>1. Len(s) \in Nat /\ DOMAIN s = 1..Len(s) /\ \A i \in 1..Len(s) : s[i] \in T
  OBVIOUS
<1>2. \A i \in 1..Len(s) : s[i] \in ToSet(s)
  BY <1>1 DEF ToSet
<1>3. s = [i \in 1..Len(s) |-> s[i]]
  OBVIOUS
<1>4. ToSet(s) \subseteq T
  BY <1>1 DEF ToSet
<1>5. s \in [1..Len(s) -> ToSet(s)]
  BY <1>2, <1>3
<1>6. s \in Seq(ToSet(s))
  BY <1>1, <1>5
<1> QED
  BY <1>4, <1>6

\* Every id comes for a first time.
LEMMA FirstsHaveAllIds ==
  ASSUME NEW T, NEW s \in Seq(T)
  PROVE  /\ FirstsOf(s) \subseteq DOMAIN s
         /\ {s[n].id : n \in FirstsOf(s)} = Ids(s)
<1>1. Len(s) \in Nat /\ DOMAIN s = 1..Len(s)
  OBVIOUS
<1>2. FirstsOf(s) \subseteq DOMAIN s
  BY DEF FirstsOf
<1>3. ASSUME NEW m \in DOMAIN s PROVE \E n \in FirstsOf(s) : s[n].id = s[m].id
  <2>1. PICK S : S = {n \in DOMAIN s : s[n].id = s[m].id}
    OBVIOUS
  <2>2. S \in SUBSET Nat /\ m \in S
    BY <1>1, <2>1
  <2>3. PICK n \in S : \A x \in S : n <= x
    BY <2>2, LeastOf
  <2>4. n \in DOMAIN s /\ s[n].id = s[m].id
    BY <2>1, <2>3
  <2>5. \A k \in 1..n - 1 : s[k].id # s[n].id
    <3> TAKE k \in 1..n - 1
    <3>1. k \in DOMAIN s /\ ~(n <= k)
      BY <1>1, <2>4
    <3> QED
      BY <2>1, <2>3, <2>4, <3>1
  <2> QED
    BY <2>4, <2>5 DEF FirstsOf
<1>4. {s[n].id : n \in FirstsOf(s)} \subseteq Ids(s)
  BY <1>2 DEF Ids
<1>5. Ids(s) \subseteq {s[n].id : n \in FirstsOf(s)}
  BY <1>3 DEF Ids
<1> QED
  BY <1>2, <1>4, <1>5

LEMMA IdsOfElements ==
  ASSUME NEW s
  PROVE  Ids(s) = {r.id : r \in ToSet(s)}
<1>1. Ids(s) \subseteq {r.id : r \in ToSet(s)}
  BY DEF Ids, ToSet
<1>2. {r.id : r \in ToSet(s)} \subseteq Ids(s)
  BY DEF Ids, ToSet
<1> QED
  BY <1>1, <1>2

\* The account ids of a list of rows, each once.
LEMMA AccountIdsAre ==
  ASSUME NEW T, NEW rows \in Seq(T)
  PROVE  /\ AccountIds(rows) \in Seq(Ids(rows))
         /\ ToSet(AccountIds(rows)) = Ids(rows) \cap AccountId
<1>1. PICK I : I = {n \in FirstsOf(rows) : rows[n].id \in AccountId}
  OBVIOUS
<1>2. PICK named : named = Picked(rows, I)
  OBVIOUS
<1>3. named \in Seq(T) /\ ToSet(named) = {rows[n] : n \in I \cap DOMAIN rows}
  BY <1>2, PickedIs
<1>4. I \cap DOMAIN rows = I
  BY <1>1, FirstsHaveAllIds
<1>5. Ids(named) = {rows[n].id : n \in I}
  <2>1. Ids(named) = {r.id : r \in ToSet(named)}
    BY IdsOfElements
  <2> QED
    BY <2>1, <1>3, <1>4
<1>6. \A x : x \in {rows[n].id : n \in I} <=> x \in Ids(rows) \cap AccountId
  BY <1>1, FirstsHaveAllIds
<1>7. Ids(named) = Ids(rows) \cap AccountId
  BY <1>5, <1>6
<1>8. PICK ids : ids = [i \in DOMAIN named |-> named[i].id]
  OBVIOUS
<1>9. Len(named) \in Nat /\ DOMAIN named = 1..Len(named)
  BY <1>3
<1>10. \A i \in 1..Len(named) : named[i].id \in Ids(rows)
  BY <1>7, <1>9 DEF Ids
<1>11. ids \in Seq(Ids(rows))
  BY <1>8, <1>9, <1>10
<1>12. DOMAIN ids = DOMAIN named /\ \A i \in DOMAIN named : ids[i] = named[i].id
  BY <1>8
<1>13. ToSet(ids) = Ids(named)
  BY <1>12 DEF ToSet, Ids
<1>14. AccountIds(rows) = ids
  BY <1>1, <1>2, <1>8 DEF AccountIds
<1> QED
  BY <1>7, <1>11, <1>13, <1>14

\* The sources of a set of accounts.
SourcesOf(c, A) ==
  {<<"models", a>> : a \in A}
    \cup (IF c.deployments THEN {<<"deployments", a>> : a \in A} ELSE {})

LEMMA OneOf ==
  ASSUME NEW T, NEW x \in T
  PROVE  <<x>> \in Seq(T) /\ ToSet(<<x>>) = {x}
BY DEF ToSet

LEMMA TwoOf ==
  ASSUME NEW T, NEW x \in T, NEW y \in T
  PROVE  <<x, y>> \in Seq(T) /\ ToSet(<<x, y>>) = {x, y}
BY DEF ToSet

LEMMA ListOf ==
  ASSUME NEW T, NEW n \in Nat, NEW s, s = [i \in 1..n |-> s[i]], \A i \in 1..n : s[i] \in T
  PROVE  s \in Seq(T)
OBVIOUS

LEMMA AccountSourcesAre ==
  ASSUME NEW c, NEW A, NEW ids \in Seq(A)
  PROVE  /\ AccountSources(c, ids) \in Seq(SourcesOf(c, A))
         /\ ToSet(AccountSources(c, ids)) = SourcesOf(c, ToSet(ids))
<1>1. PICK ss : ss = [i \in DOMAIN ids |->
                       IF c.deployments THEN <<<<"models", ids[i]>>, <<"deployments", ids[i]>>>>
                                        ELSE <<<<"models", ids[i]>>>>]
  OBVIOUS
<1>2. Len(ids) \in Nat /\ DOMAIN ids = 1..Len(ids) /\ \A i \in 1..Len(ids) : ids[i] \in A
  OBVIOUS
<1>3. DOMAIN ss = 1..Len(ids)
  BY <1>1, <1>2
<1>4. ASSUME NEW i \in 1..Len(ids)
      PROVE  /\ ss[i] \in Seq(SourcesOf(c, A))
             /\ ToSet(ss[i]) = SourcesOf(c, {ids[i]})
  <2>1. PICK x, y : x = <<"models", ids[i]>> /\ y = <<"deployments", ids[i]>>
    OBVIOUS
  <2>2. ss[i] = IF c.deployments THEN <<x, y>> ELSE <<x>>
    BY <1>1, <1>2, <2>1
  <2>3. x \in SourcesOf(c, A) /\ (c.deployments => y \in SourcesOf(c, A))
    BY <1>2, <2>1 DEF SourcesOf
  <2>4. SourcesOf(c, {ids[i]}) = {x} \cup (IF c.deployments THEN {y} ELSE {})
    BY <2>1 DEF SourcesOf
  <2>5. CASE c.deployments
    <3>1. ss[i] = <<x, y>> /\ SourcesOf(c, {ids[i]}) = {x, y}
      BY <2>2, <2>4, <2>5
    <3>2. <<x, y>> \in Seq(SourcesOf(c, A)) /\ ToSet(<<x, y>>) = {x, y}
      BY <2>3, <2>5, TwoOf
    <3> QED
      BY <3>1, <3>2, Zenon
  <2>6. CASE ~c.deployments
    <3>1. ss[i] = <<x>> /\ SourcesOf(c, {ids[i]}) = {x}
      BY <2>2, <2>4, <2>6
    <3>2. <<x>> \in Seq(SourcesOf(c, A)) /\ ToSet(<<x>>) = {x}
      BY <2>3, OneOf
    <3> QED
      BY <3>1, <3>2, Zenon
  <2> QED
    BY <2>5, <2>6
<1>5. ss \in Seq(Seq(SourcesOf(c, A)))
  <2>1. PICK T : T = Seq(SourcesOf(c, A))
    OBVIOUS
  <2>2. ss = [i \in 1..Len(ids) |-> ss[i]]
    BY <1>1, <1>2
  <2>3. \A i \in 1..Len(ids) : ss[i] \in T
    BY <1>4, <2>1
  <2>4. ss \in Seq(T)
    BY <1>2, <2>2, <2>3, ListOf
  <2> QED
    BY <2>1, <2>4
<1>6. AccountSources(c, ids) = Joined(ss)
  BY <1>1 DEF AccountSources
<1>7. /\ Joined(ss) \in Seq(SourcesOf(c, A))
      /\ ToSet(Joined(ss)) = UNION {ToSet(ss[n]) : n \in DOMAIN ss}
  BY <1>5, JoinedIs
<1>8. \A x : x \in UNION {ToSet(ss[n]) : n \in DOMAIN ss}
               <=> \E i \in 1..Len(ids) : x \in SourcesOf(c, {ids[i]})
  BY <1>3, <1>4
<1>9. \A x : x \in SourcesOf(c, ToSet(ids))
               <=> \E i \in 1..Len(ids) : x \in SourcesOf(c, {ids[i]})
  BY <1>2 DEF SourcesOf, ToSet
<1> QED
  BY <1>6, <1>7, <1>8, <1>9

-----------------------------------------------------------------------------
\* Pages.

PagesOK(p) ==
  /\ FirstPage \in DOMAIN p
  /\ \A t \in DOMAIN p : /\ p[t].rows \in Seq(ProviderRow)
                         /\ p[t].next \in DOMAIN p \cup {NoToken}

LEMMA ReachableIsClosed ==
  ASSUME NEW p, PagesOK(p)
  PROVE  /\ Reachable(p) \subseteq DOMAIN p
         /\ FirstPage \in Reachable(p)
         /\ \A t \in Reachable(p) : p[t].next # NoToken => p[t].next \in Reachable(p)
<1>1. Reachable(p) \subseteq DOMAIN p /\ FirstPage \in Reachable(p)
  BY DEF Reachable, PagesOK
<1>2. ASSUME NEW t \in Reachable(p), p[t].next # NoToken PROVE p[t].next \in Reachable(p)
  <2>1. p[t].next \in DOMAIN p
    BY <1>1, <1>2 DEF PagesOK
  <2>2. ASSUME NEW T \in SUBSET DOMAIN p, FirstPage \in T, Closed(p, T) PROVE p[t].next \in T
    <3>1. t \in T
      BY <2>2 DEF Reachable
    <3> QED
      BY <1>2, <2>2, <3>1 DEF Closed
  <2> QED
    BY <2>1, <2>2 DEF Reachable
<1> QED
  BY <1>1, <1>2

LEMMA ReachableIsLeast ==
  ASSUME NEW p, NEW T \in SUBSET DOMAIN p, FirstPage \in T, Closed(p, T)
  PROVE  Reachable(p) \subseteq T
BY DEF Reachable

\* The rows that a walk keeps: OpenRouter's as they come, Fireworks' objects.
Keeps(c, r) == c.adapter = "openrouter" \/ r.object

KeptRows(c, p) == {r \in AllRows(p) : Keeps(c, r)}

\* What a walk has: pages it knows of, all reachable, and the rows of each of
\* them but the one it asks for next.
Progress(c, p, seen, token, have) ==
  LET T == {FirstPage} \cup seen
  IN  /\ T \subseteq Reachable(p) /\ token \in T
      /\ have \subseteq KeptRows(c, p)
      /\ \A t \in T \ {token} :
           /\ p[t].next \in T
           /\ \A r \in ToSet(p[t].rows) : Keeps(c, r) => r \in have

\* The rows of a page that a walk keeps.
KeptOf(c, R) == {r \in R : Keeps(c, r)}

LEMMA ProgressStarts ==
  ASSUME NEW c, NEW p, PagesOK(p)
  PROVE  Progress(c, p, {}, FirstPage, {})
<1>1. FirstPage \in Reachable(p)
  BY ReachableIsClosed
<1> QED
  BY <1>1 DEF Progress

LEMMA PartOfPage ==
  ASSUME NEW c, NEW p, NEW seen, NEW token, NEW have,
         Progress(c, p, seen, token, have),
         NEW R, R \subseteq ToSet(p[token].rows)
  PROVE  have \cup KeptOf(c, R) \subseteq KeptRows(c, p)
<1>1. token \in Reachable(p) /\ have \subseteq KeptRows(c, p)
  BY DEF Progress
<1>2. ToSet(p[token].rows) \subseteq AllRows(p)
  BY <1>1 DEF AllRows
<1> QED
  BY <1>1, <1>2 DEF KeptRows, KeptOf

LEMMA ProgressGoes ==
  ASSUME NEW c, NEW p, PagesOK(p), NEW seen, NEW token, NEW have,
         Progress(c, p, seen, token, have),
         NEW next, next = p[token].next, next # NoToken
  PROVE  Progress(c, p, seen \cup {next}, next, have \cup KeptOf(c, ToSet(p[token].rows)))
<1>1. PICK T : T = {FirstPage} \cup seen
  OBVIOUS
<1>2. /\ T \subseteq Reachable(p) /\ token \in T
      /\ \A t \in T \ {token} :
           /\ p[t].next \in T
           /\ \A r \in ToSet(p[t].rows) : Keeps(c, r) => r \in have
  BY <1>1 DEF Progress
<1>3. next \in Reachable(p)
  BY <1>2, ReachableIsClosed
<1>4. PICK more : more = have \cup KeptOf(c, ToSet(p[token].rows))
  OBVIOUS
<1>5. more \subseteq KeptRows(c, p)
  BY <1>4, PartOfPage
<1>6. \A t \in (T \cup {next}) \ {next} :
        /\ p[t].next \in T \cup {next}
        /\ \A r \in ToSet(p[t].rows) : Keeps(c, r) => r \in more
  BY <1>2, <1>4 DEF KeptOf
<1>7. {FirstPage} \cup (seen \cup {next}) = T \cup {next}
  BY <1>1
<1> QED
  BY <1>2, <1>3, <1>4, <1>5, <1>6, <1>7 DEF Progress

LEMMA ProgressEnds ==
  ASSUME NEW c, NEW p, PagesOK(p), NEW seen, NEW token, NEW have,
         Progress(c, p, seen, token, have), p[token].next = NoToken
  PROVE  KeptRows(c, p) \subseteq have \cup KeptOf(c, ToSet(p[token].rows))
<1>1. PICK T : T = {FirstPage} \cup seen
  OBVIOUS
<1>2. /\ T \subseteq Reachable(p) /\ token \in T
      /\ \A t \in T \ {token} :
           /\ p[t].next \in T
           /\ \A r \in ToSet(p[t].rows) : Keeps(c, r) => r \in have
  BY <1>1 DEF Progress
<1>3. T \in SUBSET DOMAIN p
  BY <1>2 DEF Reachable
<1>4. Closed(p, T)
  BY <1>2 DEF Closed
<1>5. Reachable(p) \subseteq T
  BY <1>1, <1>3, <1>4, ReachableIsLeast
<1>6. ASSUME NEW r \in KeptRows(c, p)
      PROVE  r \in have \cup KeptOf(c, ToSet(p[token].rows))
  <2>1. PICK t \in T : r \in ToSet(p[t].rows)
    BY <1>5, <1>6 DEF KeptRows, AllRows
  <2>2. Keeps(c, r)
    BY <1>6 DEF KeptRows
  <2> QED
    BY <1>2, <2>1, <2>2 DEF KeptOf
<1> QED
  BY <1>6

LEMMA RowsAreRows ==
  ASSUME NEW p, PagesOK(p)
  PROVE  AllRows(p) \subseteq ProviderRow
<1>1. ASSUME NEW t \in Reachable(p) PROVE ToSet(p[t].rows) \subseteq ProviderRow
  <2>1. p[t].rows \in Seq(ProviderRow)
    BY DEF Reachable, PagesOK
  <2> QED
    BY <2>1, ToSetIs
<1> QED
  BY <1>1 DEF AllRows

LEMMA ObjectsAre ==
  ASSUME NEW T, NEW rows \in Seq(T)
  PROVE  /\ Objects(rows) \in Seq(T)
         /\ ToSet(Objects(rows)) = KeptOf(config, ToSet(rows))
<1>1. CASE config.adapter = "openrouter"
  <2>1. Objects(rows) = rows
    BY <1>1 DEF Objects
  <2>2. \A r : r \in KeptOf(config, ToSet(rows)) <=> r \in ToSet(rows)
    BY <1>1 DEF KeptOf, Keeps
  <2> QED
    BY <2>1, <2>2
<1>2. CASE config.adapter # "openrouter"
  <2>1. PICK I : I = {n \in DOMAIN rows : rows[n].object}
    OBVIOUS
  <2>2. Objects(rows) = Picked(rows, I)
    BY <1>2, <2>1 DEF Objects
  <2>3. /\ Picked(rows, I) \in Seq(T)
        /\ ToSet(Picked(rows, I)) = {rows[n] : n \in I \cap DOMAIN rows}
    BY PickedIs
  <2>4. \A r : r \in {rows[n] : n \in I \cap DOMAIN rows} <=> r \in KeptOf(config, ToSet(rows))
    BY <1>2, <2>1 DEF KeptOf, Keeps, ToSet
  <2> QED
    BY <2>2, <2>3, <2>4
<1> QED
  BY <1>1, <1>2

LEMMA HeadAndTail ==
  ASSUME NEW T, NEW s \in Seq(T), s # <<>>
  PROVE  /\ Head(s) \in T /\ Tail(s) \in Seq(T)
         /\ ToSet(s) = {Head(s)} \cup ToSet(Tail(s))
<1>1. PICK t : t = Tail(s)
  OBVIOUS
<1>2. PICK m : m = Len(s)
  OBVIOUS
<1>3. /\ m \in Nat \ {0} /\ DOMAIN s = 1..m /\ Head(s) = s[1] /\ s[1] \in T
      /\ t \in Seq(T) /\ DOMAIN t = 1..m - 1 /\ \A i \in 1..m - 1 : t[i] = s[i + 1]
  BY <1>1, <1>2
<1>4. \A i \in 1..m : i = 1 \/ (i - 1 \in 1..m - 1 /\ s[i] = t[i - 1])
  BY <1>3
<1>5. ToSet(s) \subseteq {Head(s)} \cup ToSet(t)
  <2>1. \A i \in 1..m - 1 : t[i] \in ToSet(t)
    BY <1>3 DEF ToSet
  <2>2. \A i \in 1..m : s[i] \in {Head(s)} \cup ToSet(t)
    BY <1>3, <1>4, <2>1
  <2> QED
    BY <1>3, <2>2 DEF ToSet
<1>6. \A i \in 1..m - 1 : i + 1 \in 1..m /\ t[i] = s[i + 1]
  BY <1>3
<1>7. 1 \in 1..m
  BY <1>3
<1>8. {Head(s)} \cup ToSet(t) \subseteq ToSet(s)
  BY <1>3, <1>6, <1>7 DEF ToSet
<1> QED
  BY <1>1, <1>3, <1>5, <1>8

-----------------------------------------------------------------------------
\* Coverage.

\* The sources of which the models were read.
Walked(G) == {g.source : g \in G} \ {Accounts}

\* Read or still to be read is nothing but a source of the provider, and every
\* one of them while nothing was cut and every walk came to its end.
Covered(u, c, G, D, k) ==
  /\ Accounts \notin D
  /\ Walked(G) \cup D \subseteq AllSources(u, c)
  /\ ~k /\ (\A g \in G : g.complete) => AllSources(u, c) \subseteq Walked(G) \cup D

\* Before the accounts are known they are all there is to read.
Enumerating(c, G, D, k) ==
  c.adapter = "fireworks" /\ Enumerates(c) /\ D = {Accounts} /\ G = {} /\ ~k

\* A walk that ended has rows of its source, all of them if it was complete.
EntryOK(u, c, g) ==
  /\ ToSet(g.rows) \subseteq KeptRows(c, u[g.source])
  /\ g.complete => KeptRows(c, u[g.source]) \subseteq ToSet(g.rows)

LEMMA AccountsIsNoSource ==
  ASSUME NEW u, NEW c
  PROVE  Accounts \notin AllSources(u, c)
<1>1. \A a : Accounts # <<"models", a>> /\ Accounts # <<"deployments", a>>
  BY DEF Accounts
<1>2. Accounts # User /\ Accounts # Public
  BY DEF Accounts, User, Public
<1> QED
  BY <1>1, <1>2 DEF AllSources

\* The sources of Fireworks are the public models and those of the accounts.
LEMMA AllSourcesAre ==
  ASSUME NEW u, NEW c, c.adapter = "fireworks"
  PROVE  AllSources(u, c) = {Public} \cup SourcesOf(c, AllAccounts(u, c))
BY DEF AllSources, SourcesOf

LEMMA SourcesGrow ==
  ASSUME NEW c, NEW A, NEW B, A \subseteq B
  PROVE  SourcesOf(c, A) \subseteq SourcesOf(c, B)
BY DEF SourcesOf

LEMMA CoveredGoes ==
  ASSUME NEW u, NEW c, NEW G, NEW D, NEW k, Covered(u, c, G, D, k),
         NEW e, NEW E, D = {e.source} \cup E
  PROVE  Covered(u, c, G \cup {e}, E, k)
<1>1. e.source # Accounts /\ Accounts \notin E
  BY DEF Covered
<1>2. Walked(G \cup {e}) = Walked(G) \cup {e.source}
  BY <1>1 DEF Walked
<1>3. Walked(G \cup {e}) \cup E = Walked(G) \cup D
  BY <1>2
<1>4. (\A g \in G \cup {e} : g.complete) => \A g \in G : g.complete
  OBVIOUS
<1> QED
  BY <1>1, <1>3, <1>4 DEF Covered

\* The accounts found become the sources of the rest of the discovery.
LEMMA CoveredByAccounts ==
  ASSUME NEW u, NEW c, c.adapter = "fireworks", Enumerates(c),
         NEW e, e.source = Accounts, EntryOK(u, c, e),
         NEW ids, ids = {r.id : r \in ToSet(e.rows)} \cap AccountId,
         NEW kept \in SUBSET ids, NEW k, ~k => kept = ids
  PROVE  Covered(u, c, {e}, {Public} \cup SourcesOf(c, kept), k)
<1>1. AllAccounts(u, c) = {r.id : r \in {x \in AllRows(u[Accounts]) : x.object}} \cap AccountId
  BY DEF AllAccounts, SeenAccounts
<1>2. KeptRows(c, u[Accounts]) = {x \in AllRows(u[Accounts]) : x.object}
  BY DEF KeptRows, Keeps
<1>3. ids \subseteq AllAccounts(u, c)
  BY <1>1, <1>2 DEF EntryOK
<1>4. e.complete => AllAccounts(u, c) \subseteq ids
  BY <1>1, <1>2 DEF EntryOK
<1>5. kept \subseteq AllAccounts(u, c)
  BY <1>3
<1>6. ~k /\ e.complete => AllAccounts(u, c) = kept
  BY <1>3, <1>4
<1>7. Walked({e}) = {}
  BY DEF Walked
<1>8. AllSources(u, c) = {Public} \cup SourcesOf(c, AllAccounts(u, c))
  BY AllSourcesAre
<1>9. {Public} \cup SourcesOf(c, kept) \subseteq AllSources(u, c)
  BY <1>5, <1>8, SourcesGrow
<1>10. Accounts \notin {Public} \cup SourcesOf(c, kept)
  BY <1>9, AccountsIsNoSource
<1> QED
  BY <1>6, <1>7, <1>8, <1>9, <1>10 DEF Covered

\* The sources that a list of accounts leads to.
LEMMA SourceListIs ==
  ASSUME NEW c, NEW A, NEW ids \in Seq(A),
         NEW list, list = <<Public>> \o AccountSources(c, ids)
  PROVE  /\ list \in Seq({Public} \cup SourcesOf(c, A))
         /\ ToSet(list) = {Public} \cup SourcesOf(c, ToSet(ids))
         /\ list # <<>>
<1>1. PICK S : S = {Public} \cup SourcesOf(c, A)
  OBVIOUS
<1>2. PICK rest : rest = AccountSources(c, ids)
  OBVIOUS
<1>3. PICK x, one : x = Public /\ one = <<x>>
  OBVIOUS
<1>4. /\ rest \in Seq(SourcesOf(c, A))
      /\ ToSet(rest) = SourcesOf(c, ToSet(ids))
  BY <1>2, AccountSourcesAre
<1>5. SourcesOf(c, A) \subseteq S /\ x \in S
  BY <1>1, <1>3
<1>6. rest \in Seq(S)
  BY <1>4, <1>5
<1>7. one \in Seq(S) /\ ToSet(one) = {x}
  BY <1>3, <1>5, OneOf
<1>8. one \o rest \in Seq(S) /\ ToSet(one \o rest) = {x} \cup ToSet(rest)
  BY <1>6, <1>7, ToSetConcat
<1>9. list = one \o rest
  BY <1>2, <1>3
<1>10. ToSet(<<>>) = {}
  BY DEF ToSet
<1> QED
  BY <1>1, <1>3, <1>4, <1>8, <1>9, <1>10

-----------------------------------------------------------------------------
\* Offers.

\* A row is mapped to an offer if and only if a customer can be served with it.
LEMMA OfferedIsServed ==
  ASSUME NEW u, NEW c, c.adapter \in {"fireworks", "openrouter"},
         NEW s \in AllSources(u, c), NEW r \in ProviderRow, Keeps(c, r)
  PROVE  Mapped(s, r) = "offer" <=> Served(s, r)
<1>1. CASE c.adapter = "openrouter"
  <2>1. s = User
    BY <1>1 DEF AllSources
  <2>2. s[1] = "user" /\ s # Public
    BY <2>1 DEF User, Public
  <2> QED
    BY <2>1, <2>2 DEF Mapped, MapOffer, Checked, Served, ProviderRow
<1>2. CASE c.adapter = "fireworks"
  <2>1. r.object
    BY <1>2 DEF Keeps
  <2>2. s = Public \/ (\E a : s = <<"models", a>>) \/ (\E a : s = <<"deployments", a>>)
    BY <1>2 DEF AllSources
  <2>3. CASE s = Public
    <3>1. s # User /\ s[1] = "public"
      BY <2>3 DEF Public, User
    <3> QED
      BY <2>1, <2>3, <3>1 DEF Mapped, MapModel, Checked, Served, ProviderRow
  <2>4. CASE \E a : s = <<"models", a>>
    <3>1. s # User /\ s # Public /\ s[1] = "models"
      BY <2>4 DEF Public, User
    <3> QED
      BY <2>1, <3>1 DEF Mapped, MapModel, Checked, Served, ProviderRow
  <2>5. CASE \E a : s = <<"deployments", a>>
    <3>1. s # User /\ s # Public /\ s[1] = "deployments"
      BY <2>5 DEF Public, User
    <3> QED
      BY <2>1, <3>1 DEF Mapped, MapDeployment, Checked, Served, ProviderRow
  <2> QED
    BY <2>2, <2>3, <2>4, <2>5
<1> QED
  BY <1>1, <1>2

\* What the discovery knows of the row r of the walk g.
RowOf(g, r) == [id |-> r.id, is |-> Mapped(g.source, r), source |-> g.source]

LEMMA RowsAre ==
  ASSUME NEW E, got \in Seq(E), \A g \in ToSet(got) : g.rows \in Seq(ProviderRow)
  PROVE  /\ Rows \in Seq(UNION {{RowOf(g, r) : r \in ProviderRow} : g \in E})
         /\ \A x : x \in ToSet(Rows) <=>
              \E g \in ToSet(got) : /\ g.source # Accounts
                                    /\ \E r \in ToSet(g.rows) : x = RowOf(g, r)
<1>1. PICK T : T = UNION {{RowOf(g, r) : r \in ProviderRow} : g \in E}
  OBVIOUS
<1>2. PICK ss : ss = [i \in DOMAIN got |->
                       IF got[i].source = Accounts THEN <<>>
                       ELSE [k \in DOMAIN got[i].rows |-> RowOf(got[i], got[i].rows[k])]]
  OBVIOUS
<1>3. Rows = Joined(ss)
  BY <1>2 DEF Rows, RowOf
<1>4. /\ Len(got) \in Nat /\ DOMAIN got = 1..Len(got)
      /\ \A i \in 1..Len(got) : got[i] \in E /\ got[i] \in ToSet(got)
  BY DEF ToSet
<1>5. ASSUME NEW i \in 1..Len(got)
      PROVE  /\ ss[i] \in Seq(T)
             /\ \A x : x \in ToSet(ss[i]) <=>
                  got[i].source # Accounts /\ \E r \in ToSet(got[i].rows) : x = RowOf(got[i], r)
  <2>1. CASE got[i].source = Accounts
    <3>1. ss[i] = <<>>
      BY <1>2, <1>4, <2>1
    <3> QED
      BY <2>1, <3>1 DEF ToSet
  <2>2. CASE got[i].source # Accounts
    <3>1. PICK g, rows : g = got[i] /\ rows = g.rows
      OBVIOUS
    <3>2. ss[i] = [k \in DOMAIN rows |-> RowOf(g, rows[k])]
      BY <1>2, <1>4, <2>2, <3>1
    <3>3. rows \in Seq(ProviderRow) /\ g \in E
      BY <1>4, <3>1
    <3>4. /\ Len(rows) \in Nat /\ DOMAIN rows = 1..Len(rows)
          /\ \A k \in 1..Len(rows) : rows[k] \in ProviderRow
      BY <3>3
    <3>5. \A k \in 1..Len(rows) : ss[i][k] = RowOf(g, rows[k]) /\ ss[i][k] \in T
      BY <1>1, <3>2, <3>3, <3>4
    <3>6. ss[i] = [k \in 1..Len(rows) |-> ss[i][k]]
      BY <3>2, <3>4
    <3>7. ss[i] \in Seq(T)
      BY <3>4, <3>5, <3>6, ListOf
    <3>8. \A x : x \in ToSet(ss[i]) <=> \E k \in 1..Len(rows) : x = RowOf(g, rows[k])
      BY <3>5, <3>6 DEF ToSet
    <3>9. \A r : r \in ToSet(rows) <=> \E k \in 1..Len(rows) : r = rows[k]
      BY <3>4 DEF ToSet
    <3> QED
      BY <2>2, <3>1, <3>7, <3>8, <3>9
  <2> QED
    BY <2>1, <2>2
<1>6. ss \in Seq(Seq(T))
  <2>1. PICK U : U = Seq(T)
    OBVIOUS
  <2>2. ss = [i \in 1..Len(got) |-> ss[i]]
    BY <1>2, <1>4
  <2>3. \A i \in 1..Len(got) : ss[i] \in U
    BY <1>5, <2>1
  <2>4. ss \in Seq(U)
    BY <1>4, <2>2, <2>3, ListOf
  <2> QED
    BY <2>1, <2>4
<1>7. DOMAIN ss = 1..Len(got)
  BY <1>2, <1>4
<1>8. /\ Joined(ss) \in Seq(T)
      /\ ToSet(Joined(ss)) = UNION {ToSet(ss[n]) : n \in DOMAIN ss}
  BY <1>6, JoinedIs
<1>9. \A x : x \in ToSet(Joined(ss)) <=> \E i \in 1..Len(got) : x \in ToSet(ss[i])
  BY <1>7, <1>8
<1>10. \A g : g \in ToSet(got) <=> \E i \in 1..Len(got) : g = got[i]
  BY <1>4 DEF ToSet
<1>11. \A x : x \in ToSet(Joined(ss)) <=>
         \E i \in 1..Len(got) : /\ got[i].source # Accounts
                                /\ \E r \in ToSet(got[i].rows) : x = RowOf(got[i], r)
  <2>1. \A i \in 1..Len(got) : \A x : x \in ToSet(ss[i]) <=>
          got[i].source # Accounts /\ \E r \in ToSet(got[i].rows) : x = RowOf(got[i], r)
    BY <1>5
  <2> TAKE x
  <2>2. x \in ToSet(Joined(ss)) <=> \E i \in 1..Len(got) : x \in ToSet(ss[i])
    BY <1>9
  <2>3. \A i \in 1..Len(got) : x \in ToSet(ss[i]) <=>
          got[i].source # Accounts /\ \E r \in ToSet(got[i].rows) : x = RowOf(got[i], r)
    BY <2>1
  <2> QED
    BY <2>2, <2>3
<1>12. \A x : x \in ToSet(Joined(ss)) <=>
         \E g \in ToSet(got) : /\ g.source # Accounts
                               /\ \E r \in ToSet(g.rows) : x = RowOf(g, r)
  BY <1>10, <1>11
<1> QED
  BY <1>1, <1>3, <1>8, <1>12

\* The ids that are offered, in either adapter's way.
LEMMA OfferedIds ==
  ASSUME NEW T, NEW rows \in Seq(T)
  PROVE  LET ids == {x.id : x \in {y \in ToSet(rows) : y.is = "offer"}}
         IN  Ids(With("offer", rows)) = ids /\ Ids(OffersIn(rows)) = ids
<1>1. PICK I : I = {n \in DOMAIN rows : rows[n].is = "offer"}
  OBVIOUS
<1>2. PICK offers : offers = With("offer", rows)
  OBVIOUS
<1>3. offers \in Seq(T) /\ ToSet(offers) = {rows[n] : n \in I \cap DOMAIN rows}
  BY <1>1, <1>2, PickedIs DEF With
<1>4. \A x : x \in ToSet(offers) <=> x \in {y \in ToSet(rows) : y.is = "offer"}
  BY <1>1, <1>3 DEF ToSet
<1>5. ToSet(offers) = {y \in ToSet(rows) : y.is = "offer"}
  BY <1>4
<1>6. Ids(offers) = {x.id : x \in ToSet(offers)}
  BY IdsOfElements
<1>7. PICK once : once = Picked(offers, FirstsOf(offers))
  OBVIOUS
<1>8. ToSet(once) = {offers[n] : n \in FirstsOf(offers) \cap DOMAIN offers}
  BY <1>3, <1>7, PickedIs
<1>9. /\ FirstsOf(offers) \subseteq DOMAIN offers
      /\ {offers[n].id : n \in FirstsOf(offers)} = Ids(offers)
  BY <1>3, FirstsHaveAllIds
<1>10. Ids(once) = {x.id : x \in ToSet(once)}
  BY IdsOfElements
<1>11. \A i : i \in {x.id : x \in ToSet(once)} <=> i \in {offers[n].id : n \in FirstsOf(offers)}
  BY <1>8, <1>9
<1>12. Ids(once) = Ids(offers)
  BY <1>9, <1>10, <1>11
<1>13. OffersIn(rows) = once
  BY <1>2, <1>7 DEF OffersIn
<1> QED
  BY <1>2, <1>5, <1>6, <1>12, <1>13

\* The assumption on the provider, source by source.
LEMMA SourcesHavePages ==
  ASSUME NEW u \in Upstreams, NEW s \in DOMAIN u
  PROVE  PagesOK(u[s])
BY DiscoveryAssumption DEF PagesOK

LEMMA OffersAreServable ==
  ASSUME NEW u \in Upstreams, NEW c \in Configs, NEW G,
         \A g \in G : EntryOK(u, c, g), Walked(G) \subseteq AllSources(u, c)
  PROVE  /\ \A g \in G : \A r \in ToSet(g.rows) :
              g.source # Accounts /\ Mapped(g.source, r) = "offer" => r.id \in Servable(u, c)
         /\ AllSources(u, c) \subseteq Walked(G) /\ (\A g \in G : g.complete) =>
              \A id \in Servable(u, c) :
                \E g \in G : /\ g.source # Accounts
                             /\ \E r \in ToSet(g.rows) : Mapped(g.source, r) = "offer" /\ r.id = id
<1>1. \A s \in AllSources(u, c) : PagesOK(u[s])
  BY DiscoveryAssumption, SourcesHavePages
<1>2. c.adapter \in {"fireworks", "openrouter"}
  BY DiscoveryAssumption
<1>3. \A id : id \in Servable(u, c) <=>
        \E s \in AllSources(u, c) : \E r \in AllRows(u[s]) : Served(s, r) /\ id = r.id
  BY DEF Servable
<1>4. ASSUME NEW g \in G, NEW r \in ToSet(g.rows), g.source # Accounts,
             Mapped(g.source, r) = "offer"
      PROVE  r.id \in Servable(u, c)
  <2>1. g.source \in AllSources(u, c)
    BY <1>4 DEF Walked
  <2>2. r \in AllRows(u[g.source]) /\ Keeps(c, r)
    BY DEF EntryOK, KeptRows
  <2>3. r \in ProviderRow
    BY <1>1, <2>1, <2>2, RowsAreRows
  <2>4. Served(g.source, r)
    BY <1>2, <1>4, <2>1, <2>2, <2>3, OfferedIsServed
  <2> QED
    BY <1>3, <2>1, <2>2, <2>4
<1>5. ASSUME AllSources(u, c) \subseteq Walked(G), \A g \in G : g.complete,
             NEW id \in Servable(u, c)
      PROVE  \E g \in G : /\ g.source # Accounts
                          /\ \E r \in ToSet(g.rows) : Mapped(g.source, r) = "offer" /\ r.id = id
  <2>0. PICK s \in AllSources(u, c) : \E r \in AllRows(u[s]) : Served(s, r) /\ id = r.id
    BY <1>3
  <2>1. PICK r \in AllRows(u[s]) : Served(s, r) /\ id = r.id
    BY <2>0
  <2>2. PICK g \in G : g.source = s /\ s # Accounts
    BY <1>5 DEF Walked
  <2>3. Keeps(c, r)
    BY <2>1 DEF Served, Keeps
  <2>4. r \in ToSet(g.rows)
    BY <1>5, <2>2, <2>3 DEF EntryOK, KeptRows
  <2>5. r \in ProviderRow
    BY <1>1, <2>1, RowsAreRows
  <2>6. Mapped(s, r) = "offer"
    BY <1>2, <2>1, <2>3, <2>5, OfferedIsServed
  <2> QED
    BY <2>1, <2>2, <2>4, <2>6
<1> QED
  BY <1>4, <1>5

-----------------------------------------------------------------------------
\* The inductive invariant.

Entry(u) == [source : DOMAIN u, rows : Seq(ProviderRow), pages : Nat, complete : BOOLEAN]

DiscoveryTypes ==
  /\ page \in Upstreams /\ config \in Configs
  /\ left \in Int /\ cut \in BOOLEAN
  /\ walk.total \in Int /\ walk.pages \in Nat /\ walk.rows \in Seq(ProviderRow)
  /\ todo \in Seq(DOMAIN page)
  /\ got \in Seq(Entry(page))
  /\ pc = "walk" => todo # <<>>
  /\ pc = "normalize" => todo = <<>>

WalkOK ==
  pc = "walk" =>
    Progress(config, page[Head(todo)], walk.seen, walk.token, ToSet(walk.rows))

SourcesOK ==
  /\ \A g \in ToSet(got) : EntryOK(page, config, g)
  /\ \/ Enumerating(config, ToSet(got), ToSet(todo), cut)
     \/ Covered(page, config, ToSet(got), ToSet(todo), cut)

DiscoveryInv ==
  /\ DiscoveryTypes /\ WalkOK /\ SourcesOK
  /\ pc # "done" => result = NoResult
  /\ SuccessIsComplete

LEMMA NothingFound ==
  Ids(<<>>) = {} /\ ToSet(<<>>) = {}
BY DEF Ids, ToSet

LEMMA NoResultIsFine ==
  ASSUME result = NoResult
  PROVE  SuccessIsComplete
<1>1. result.offers = <<>> /\ result.status = "none"
  BY DEF NoResult
<1> QED
  BY <1>1, NothingFound DEF SuccessIsComplete

\* What a discovery starts with.
LEMMA FirstSourcesAre ==
  ASSUME NEW u \in Upstreams, NEW c \in Configs, NEW list, list = FirstSources(c)
  PROVE  /\ list \in Seq(DOMAIN u) /\ list # <<>>
         /\ Enumerating(c, {}, ToSet(list), FALSE) \/ Covered(u, c, {}, ToSet(list), FALSE)
<1>1. c.adapter \in {"fireworks", "openrouter"}
  BY DiscoveryAssumption
<1>2. AllSources(u, c) \cup (IF Enumerates(c) THEN {Accounts} ELSE {}) \subseteq DOMAIN u
  BY DiscoveryAssumption
<1>3. Walked({}) = {}
  BY DEF Walked
<1>4. CASE c.adapter = "openrouter"
  <2>1. PICK x : x = User
    OBVIOUS
  <2>2. list = <<x>>
    BY <1>4, <2>1 DEF FirstSources
  <2>3. AllSources(u, c) = {x}
    BY <1>4, <2>1 DEF AllSources
  <2>4. list \in Seq(DOMAIN u) /\ ToSet(list) = {x}
    BY <1>2, <2>2, <2>3, OneOf
  <2>5. Covered(u, c, {}, ToSet(list), FALSE)
    BY <1>3, <2>3, <2>4, AccountsIsNoSource DEF Covered
  <2>6. list # <<>>
    BY <2>4, NothingFound
  <2> QED
    BY <2>4, <2>5, <2>6
<1>5. CASE c.adapter = "fireworks" /\ Enumerates(c)
  <2>1. PICK x : x = Accounts
    OBVIOUS
  <2>2. list = <<x>>
    BY <1>5, <2>1 DEF FirstSources
  <2>3. list \in Seq(DOMAIN u) /\ ToSet(list) = {x}
    BY <1>2, <1>5, <2>1, <2>2, OneOf
  <2>4. list # <<>>
    BY <2>3, NothingFound
  <2> QED
    BY <1>5, <2>1, <2>3, <2>4 DEF Enumerating
<1>6. CASE c.adapter = "fireworks" /\ ~Enumerates(c)
  <2>1. PICK ids : ids = Given(c)
    OBVIOUS
  <2>2. ids \in Seq(ToSet(ids))
    <3>1. ids = <<>> \/ ids = <<c.account>>
      BY <2>1 DEF Given
    <3>2. CASE ids = <<>>
      BY <3>2
    <3>3. CASE ids = <<c.account>>
      BY <3>3, OneOf, ToSetIs
    <3> QED
      BY <3>1, <3>2, <3>3
  <2>3. list = <<Public>> \o AccountSources(c, ids)
    BY <1>6, <2>1 DEF FirstSources
  <2>4. AllSources(u, c) = {Public} \cup SourcesOf(c, ToSet(ids))
    <3>1. AllAccounts(u, c) = ToSet(ids)
      BY <1>6, <2>1 DEF AllAccounts
    <3> QED
      BY <1>6, <3>1, AllSourcesAre
  <2>5. list \in Seq(AllSources(u, c)) /\ ToSet(list) = AllSources(u, c) /\ list # <<>>
    BY <2>2, <2>3, <2>4, SourceListIs
  <2>6. list \in Seq(DOMAIN u)
    BY <1>2, <2>5
  <2>7. Covered(u, c, {}, ToSet(list), FALSE)
    BY <1>3, <2>5, AccountsIsNoSource DEF Covered
  <2> QED
    BY <2>5, <2>6, <2>7
<1> QED
  BY <1>1, <1>4, <1>5, <1>6

LEMMA InitDiscoveryInv ==
  ASSUME DiscoveryInit
  PROVE  DiscoveryInv
<1>1. page \in Upstreams /\ config \in Configs /\ todo = FirstSources(config)
  BY DEF DiscoveryInit
<1>2. /\ todo \in Seq(DOMAIN page) /\ todo # <<>>
      /\ \/ Enumerating(config, {}, ToSet(todo), FALSE)
         \/ Covered(page, config, {}, ToSet(todo), FALSE)
  BY <1>1, FirstSourcesAre
<1>3. /\ pc = "walk" /\ walk = NoWalk /\ left = MaxRows /\ got = <<>> /\ cut = FALSE
      /\ result = NoResult
  BY DEF DiscoveryInit
<1>4. /\ walk.total = 0 /\ walk.pages = 0 /\ walk.rows = <<>> /\ walk.seen = {}
      /\ walk.token = FirstPage
  BY <1>3 DEF NoWalk
<1>5. DiscoveryTypes
  <2>0. MaxRows \in Nat
    BY DiscoveryAssumption
  <2>1. left \in Int
    BY <1>3, <2>0
  <2>2. got \in Seq(Entry(page))
    BY <1>3
  <2>3. walk.total \in Int /\ walk.pages \in Nat /\ walk.rows \in Seq(ProviderRow)
    BY <1>4
  <2>4. cut \in BOOLEAN /\ pc # "normalize"
    BY <1>3
  <2> QED
    BY <1>1, <1>2, <2>1, <2>2, <2>3, <2>4 DEF DiscoveryTypes
<1>6. WalkOK
  <2>1. Head(todo) \in DOMAIN page
    BY <1>2, HeadAndTail
  <2>2. Progress(config, page[Head(todo)], {}, FirstPage, {})
    BY <1>1, <2>1, SourcesHavePages, ProgressStarts
  <2> QED
    BY <1>4, <2>2, NothingFound DEF WalkOK
<1>7. SourcesOK
  BY <1>2, <1>3, NothingFound DEF SourcesOK
<1> QED
  BY <1>3, <1>5, <1>6, <1>7, NoResultIsFine DEF DiscoveryInv

-----------------------------------------------------------------------------
\* The end of a walk.

LEMMA WalkEnds ==
  ASSUME DiscoveryInv, pc = "walk",
         NEW rows \in Seq(ProviderRow), NEW pages \in Nat, NEW total \in Int,
         NEW complete \in BOOLEAN,
         ToSet(rows) \subseteq KeptRows(config, page[Head(todo)]),
         complete => KeptRows(config, page[Head(todo)]) \subseteq ToSet(rows),
         EndWalk(rows, pages, total, complete), UNCHANGED <<page, config, late, result>>
  PROVE  DiscoveryInv'
<1>1. /\ page \in Upstreams /\ config \in Configs /\ left \in Int /\ cut \in BOOLEAN
      /\ todo \in Seq(DOMAIN page) /\ todo # <<>> /\ got \in Seq(Entry(page))
  BY DEF DiscoveryInv, DiscoveryTypes
<1>2. PICK source : source = Head(todo)
  OBVIOUS
<1>3. /\ source \in DOMAIN page /\ Tail(todo) \in Seq(DOMAIN page)
      /\ ToSet(todo) = {source} \cup ToSet(Tail(todo))
  BY <1>1, <1>2, HeadAndTail
<1>4. PICK e : e = [source |-> source, rows |-> rows, pages |-> pages, complete |-> complete]
  OBVIOUS
<1>5. /\ e \in Entry(page) /\ e.source = source /\ e.rows = rows /\ e.complete = complete
  BY <1>3, <1>4 DEF Entry
<1>6. EntryOK(page, config, e)
  BY <1>2, <1>5 DEF EntryOK
<1>7. PICK ids : ids = AccountIds(rows)
  OBVIOUS
<1>8. PICK kept : kept = SubSeq(ids, 1, IF Len(ids) < MaxAccounts THEN Len(ids) ELSE MaxAccounts)
  OBVIOUS
<1>9. PICK more : more = IF source = Accounts THEN <<Public>> \o AccountSources(config, kept)
                                              ELSE Tail(todo)
  OBVIOUS
<1>10. /\ got' = Append(got, e) /\ left' = left - total
       /\ cut' = (cut \/ (source = Accounts /\ Len(ids) > MaxAccounts))
       /\ walk' = NoWalk /\ todo' = more
       /\ pc' = IF more = <<>> THEN "normalize" ELSE "walk"
  BY <1>2, <1>4, <1>7, <1>8, <1>9 DEF EndWalk
<1>11. page' = page /\ config' = config /\ result' = result
  OBVIOUS
<1>12. got' \in Seq(Entry(page)) /\ ToSet(got') = ToSet(got) \cup {e}
  BY <1>1, <1>5, <1>10, ToSetAppend
<1>13. \A g \in ToSet(got') : EntryOK(page, config, g)
  BY <1>6, <1>12 DEF DiscoveryInv, SourcesOK
<1>14. /\ more \in Seq(DOMAIN page)
       /\ Covered(page, config, ToSet(got'), ToSet(more), cut')
  <2>1. CASE Enumerating(config, ToSet(got), ToSet(todo), cut)
    <3>1. source = Accounts /\ ToSet(got') = {e} /\ ~cut
      BY <1>3, <1>12, <2>1 DEF Enumerating
    <3>2. config.adapter = "fireworks" /\ Enumerates(config)
      BY <2>1 DEF Enumerating
    <3>3. /\ ids \in Seq(Ids(rows)) /\ ToSet(ids) = Ids(rows) \cap AccountId
      BY <1>7, AccountIdsAre
    <3>4. Ids(rows) = {r.id : r \in ToSet(e.rows)}
      BY <1>5, IdsOfElements
    <3>5. Len(ids) \in Nat /\ MaxAccounts \in Nat
      <4>1. MaxAccounts \in Nat
        BY DiscoveryAssumption
      <4>2. PICK S : S = Ids(rows)
        OBVIOUS
      <4>3. Len(ids) \in Nat
        BY <3>3, <4>2, LenProperties
      <4> QED
        BY <4>1, <4>3
    <3>6. PICK n : n = IF Len(ids) < MaxAccounts THEN Len(ids) ELSE MaxAccounts
      OBVIOUS
    <3>7. /\ n \in Int /\ n <= Len(ids)
          /\ ~(Len(ids) > MaxAccounts) => n = Len(ids)
      BY <3>5, <3>6
    <3>8. ids \in Seq(ToSet(ids))
      BY <3>3, ToSetIs
    <3>9. /\ kept \in Seq(ToSet(ids)) /\ ToSet(kept) \subseteq ToSet(ids)
          /\ n = Len(ids) => kept = ids
      <4>1. kept = SubSeq(ids, 1, n)
        BY <1>8, <3>6
      <4>2. PICK T : T = ToSet(ids)
        OBVIOUS
      <4>3. ids \in Seq(T)
        BY <3>8, <4>2
      <4> QED
        BY <3>7, <4>1, <4>2, <4>3, ToSetPrefix
    <3>10. ~cut' => ToSet(kept) = ToSet(ids)
      BY <1>10, <3>1, <3>7, <3>9
    <3>11. Covered(page, config, {e}, {Public} \cup SourcesOf(config, ToSet(kept)), cut')
      BY <1>5, <1>6, <3>1, <3>2, <3>3, <3>4, <3>9, <3>10, CoveredByAccounts
    <3>12. kept \in Seq(ToSet(kept))
      BY <3>9, ToSetIs
    <3>13. /\ more \in Seq({Public} \cup SourcesOf(config, ToSet(kept)))
           /\ ToSet(more) = {Public} \cup SourcesOf(config, ToSet(kept))
      BY <1>9, <3>1, <3>12, SourceListIs
    <3>14. ToSet(more) \subseteq DOMAIN page
      BY <1>1, <3>11, <3>13, DiscoveryAssumption DEF Covered
    <3>15. more \in Seq(DOMAIN page)
      BY <3>13, <3>14
    <3> QED
      BY <3>1, <3>11, <3>13, <3>15
  <2>2. CASE Covered(page, config, ToSet(got), ToSet(todo), cut)
    <3>1. source # Accounts
      BY <1>3, <2>2 DEF Covered
    <3>2. more = Tail(todo) /\ cut' = cut
      BY <1>1, <1>9, <1>10, <3>1
    <3>3. Covered(page, config, ToSet(got) \cup {e}, ToSet(more), cut)
      BY <1>3, <1>5, <2>2, <3>2, CoveredGoes
    <3> QED
      BY <1>3, <1>12, <3>2, <3>3
  <2> QED
    BY <2>1, <2>2 DEF DiscoveryInv, SourcesOK
<1>15. walk' = NoWalk /\ todo' = more
  BY <1>10
<1>16. /\ walk'.total = 0 /\ walk'.pages = 0 /\ walk'.rows = <<>> /\ walk'.seen = {}
       /\ walk'.token = FirstPage
  BY <1>15 DEF NoWalk
<1>17. DiscoveryTypes'
  <2>1. left' \in Int /\ cut' \in BOOLEAN
    BY <1>1, <1>10
  <2>2. walk'.total \in Int /\ walk'.pages \in Nat /\ walk'.rows \in Seq(ProviderRow)
    BY <1>16
  <2>3. (pc' = "walk" => todo' # <<>>) /\ (pc' = "normalize" => todo' = <<>>)
    BY <1>10
  <2> QED
    BY <1>1, <1>11, <1>12, <1>14, <1>15, <2>1, <2>2, <2>3 DEF DiscoveryTypes
<1>18. WalkOK'
  <2> SUFFICES ASSUME pc' = "walk"
               PROVE  Progress(config, page[Head(more)], {}, FirstPage, {})
    BY <1>11, <1>15, <1>16, NothingFound DEF WalkOK
  <2>1. more # <<>>
    BY <1>10
  <2>2. Head(more) \in DOMAIN page
    BY <1>14, <2>1, HeadAndTail
  <2> QED
    BY <1>1, <2>2, SourcesHavePages, ProgressStarts
<1>19. SourcesOK'
  BY <1>11, <1>13, <1>14, <1>15 DEF SourcesOK
<1>20. result' = NoResult
  BY <1>11 DEF DiscoveryInv
<1>21. SuccessIsComplete'
  BY <1>11 DEF DiscoveryInv, SuccessIsComplete
<1> QED
  BY <1>17, <1>18, <1>19, <1>20, <1>21 DEF DiscoveryInv

-----------------------------------------------------------------------------
\* The actions.

LEMMA WalkFailsCorrect ==
  ASSUME DiscoveryInv, WalkFails
  PROVE  DiscoveryInv'
<1>1. PICK rows, pages, total : rows = walk.rows /\ pages = walk.pages /\ total = walk.total
  OBVIOUS
<1>2. /\ pc = "walk" /\ EndWalk(rows, pages, total, FALSE)
      /\ UNCHANGED <<page, config, late, result>>
  BY <1>1 DEF WalkFails
<1>3. rows \in Seq(ProviderRow) /\ pages \in Nat /\ total \in Int
  BY <1>1 DEF DiscoveryInv, DiscoveryTypes
<1>4. ToSet(rows) \subseteq KeptRows(config, page[Head(todo)])
  BY <1>1, <1>2 DEF DiscoveryInv, WalkOK, Progress
<1> QED
  BY <1>2, <1>3, <1>4, WalkEnds

LEMMA WalkPageCorrect ==
  ASSUME DiscoveryInv, WalkPage
  PROVE  DiscoveryInv'
<1>1. /\ page \in Upstreams /\ config \in Configs /\ left \in Int
      /\ todo \in Seq(DOMAIN page) /\ todo # <<>>
      /\ walk.total \in Int /\ walk.pages \in Nat /\ walk.rows \in Seq(ProviderRow)
  BY Zenon DEF DiscoveryInv, DiscoveryTypes, WalkPage
<1>2. PICK p, token, seen, have : /\ p = page[Head(todo)] /\ token = walk.token
                                  /\ seen = walk.seen /\ have = ToSet(walk.rows)
  OBVIOUS
<1>3. PagesOK(p)
  BY SMTT(30), <1>1, <1>2, HeadAndTail, SourcesHavePages
<1>4. Progress(config, p, seen, token, have)
  BY Zenon, <1>2 DEF DiscoveryInv, WalkOK, WalkPage
<1>5. token \in DOMAIN p
  BY <1>4 DEF Progress, Reachable
<1>6. PICK here : here = p[token]
  OBVIOUS
<1>7. here.rows \in Seq(ProviderRow)
  BY <1>3, <1>5, <1>6 DEF PagesOK
<1>8. PICK n : n = IF Len(here.rows) < Budget THEN Len(here.rows) ELSE Budget
  OBVIOUS
<1>9. Len(here.rows) \in Nat /\ Budget \in Int
  BY <1>1, <1>2, <1>6, <1>7 DEF Budget
<1>10. n \in Int /\ n <= Len(here.rows) /\ (~(Len(here.rows) > Budget) => n = Len(here.rows))
  BY <1>8, <1>9
<1>11. PICK part, some : part = SubSeq(here.rows, 1, n) /\ some = Objects(part)
  OBVIOUS
<1>12. /\ part \in Seq(ProviderRow) /\ ToSet(part) \subseteq ToSet(here.rows)
       /\ n = Len(here.rows) => part = here.rows
  BY <1>7, <1>10, <1>11, ToSetPrefix
<1>13. some \in Seq(ProviderRow) /\ ToSet(some) = KeptOf(config, ToSet(part))
  BY <1>11, <1>12, ObjectsAre
<1>14. PICK rows, total, pages : /\ rows = walk.rows \o some /\ total = walk.total + n
                                 /\ pages = walk.pages + 1
  OBVIOUS
<1>15. rows \in Seq(ProviderRow) /\ ToSet(rows) = have \cup KeptOf(config, ToSet(part))
  BY <1>1, <1>2, <1>13, <1>14, ToSetConcat
<1>16. total \in Int /\ pages \in Nat
  BY <1>1, <1>10, <1>14
<1>17. ToSet(rows) \subseteq KeptRows(config, p)
  BY <1>4, <1>6, <1>12, <1>15, PartOfPage
<1>18. PICK next : next = here.next
  OBVIOUS
<1>19. ~OverLimit(here.rows, next) => part = here.rows
  BY SMTT(30), <1>10, <1>12 DEF OverLimit
<1>20. pc = "walk" /\ UNCHANGED <<page, config, late, result>>
  BY ZenonT(60) DEF WalkPage
<1>21. \/ OverLimit(here.rows, next) /\ EndWalk(rows, pages, total, FALSE)
       \/ ~OverLimit(here.rows, next) /\ next = NoToken /\ EndWalk(rows, pages, total, TRUE)
       \/ /\ ~OverLimit(here.rows, next) /\ next # NoToken
          /\ walk' = [token |-> next, seen |-> seen \cup {next}, rows |-> rows,
                      pages |-> pages, total |-> total]
          /\ UNCHANGED <<todo, left, got, cut, pc>>
  BY ZenonT(40), <1>2, <1>6, <1>8, <1>11, <1>14, <1>18 DEF WalkPage
<1>22. CASE EndWalk(rows, pages, total, FALSE)
  BY <1>2, <1>15, <1>16, <1>17, <1>20, <1>22, WalkEnds
<1>23. CASE ~OverLimit(here.rows, next) /\ next = NoToken /\ EndWalk(rows, pages, total, TRUE)
  <2>1. KeptRows(config, p) \subseteq ToSet(rows)
    BY <1>3, <1>4, <1>6, <1>15, <1>18, <1>19, <1>23, ProgressEnds
  <2> QED
    BY <1>2, <1>15, <1>16, <1>17, <1>20, <1>23, <2>1, WalkEnds
<1>24. CASE /\ ~OverLimit(here.rows, next) /\ next # NoToken
            /\ walk' = [token |-> next, seen |-> seen \cup {next}, rows |-> rows,
                        pages |-> pages, total |-> total]
            /\ UNCHANGED <<todo, left, got, cut, pc>>
  <2>1. Progress(config, p, seen \cup {next}, next, ToSet(rows))
    <3>1. next = p[token].next /\ next # NoToken
      BY <1>6, <1>18, <1>24
    <3>2. Progress(config, p, seen \cup {next}, next,
                   have \cup KeptOf(config, ToSet(p[token].rows)))
      BY <1>3, <1>4, <3>1, ProgressGoes
    <3>3. ToSet(rows) = have \cup KeptOf(config, ToSet(p[token].rows))
      BY <1>6, <1>15, <1>19, <1>24
    <3> QED
      BY <3>2, <3>3
  <2>2. /\ walk'.token = next /\ walk'.seen = seen \cup {next} /\ walk'.rows = rows
        /\ walk'.pages = pages /\ walk'.total = total
    BY <1>24
  <2>3. /\ page' = page /\ config' = config /\ result' = result /\ todo' = todo
        /\ left' = left /\ got' = got /\ cut' = cut /\ pc' = pc
    BY <1>20, <1>24
  <2>4. DiscoveryTypes'
    BY <1>15, <1>16, <2>2, <2>3 DEF DiscoveryInv, DiscoveryTypes
  <2>5. WalkOK'
    BY <1>2, <2>1, <2>2, <2>3 DEF WalkOK
  <2>6. SourcesOK'
    BY <2>3 DEF DiscoveryInv, SourcesOK
  <2> QED
    BY <2>3, <2>4, <2>5, <2>6 DEF DiscoveryInv, SuccessIsComplete
<1> QED
  BY Zenon, <1>21, <1>22, <1>23, <1>24

LEMMA DeadlineCorrect ==
  ASSUME DiscoveryInv, DeadlinePasses
  PROVE  DiscoveryInv'
<1>1. /\ page' = page /\ config' = config /\ result' = result /\ todo' = todo
      /\ left' = left /\ got' = got /\ cut' = cut /\ pc' = pc /\ walk' = walk
  BY DEF DeadlinePasses
<1>2. DiscoveryTypes'
  BY <1>1 DEF DiscoveryInv, DiscoveryTypes
<1>3. WalkOK'
  BY <1>1 DEF DiscoveryInv, WalkOK
<1>4. SourcesOK'
  BY <1>1 DEF DiscoveryInv, SourcesOK
<1> QED
  BY <1>1, <1>2, <1>3, <1>4 DEF DiscoveryInv, SuccessIsComplete

LEMMA Concluded ==
  ASSUME DiscoveryInv, pc = "normalize", NEW rows, NEW timedOut \in BOOLEAN,
         Conclude(rows, timedOut),
         rows = Rows \/ (timedOut /\ \E n \in 0..Len(Rows) : rows = SubSeq(Rows, 1, n))
  PROVE  DiscoveryInv'
<1>1. /\ page \in Upstreams /\ config \in Configs /\ cut \in BOOLEAN
      /\ todo = <<>> /\ got \in Seq(Entry(page))
  BY DEF DiscoveryInv, DiscoveryTypes
<1>2. PICK G : G = ToSet(got)
  OBVIOUS
<1>3. \A g \in G : g \in Entry(page) /\ EntryOK(page, config, g)
  BY <1>1, <1>2, ToSetIs DEF DiscoveryInv, SourcesOK
<1>4. ToSet(todo) = {}
  BY <1>1, NothingFound
<1>5. /\ Walked(G) \subseteq AllSources(page, config)
      /\ ~cut /\ (\A g \in G : g.complete) => AllSources(page, config) \subseteq Walked(G)
  <2>1. ~Enumerating(config, G, ToSet(todo), cut)
    BY <1>4 DEF Enumerating
  <2>2. Covered(page, config, G, ToSet(todo), cut)
    BY <1>2, <2>1 DEF DiscoveryInv, SourcesOK
  <2> QED
    BY <1>4, <2>2 DEF Covered
<1>6. \A g \in G : g.rows \in Seq(ProviderRow)
  BY <1>3 DEF Entry
<1>7. PICK E, T : E = Entry(page) /\ T = UNION {{RowOf(g, r) : r \in ProviderRow} : g \in E}
  OBVIOUS
<1>8. PICK all : all = Rows
  OBVIOUS
<1>9. /\ all \in Seq(T)
      /\ \A x : x \in ToSet(all) <=>
           \E g \in G : g.source # Accounts /\ \E r \in ToSet(g.rows) : x = RowOf(g, r)
  BY <1>1, <1>2, <1>6, <1>7, <1>8, RowsAre
<1>10. rows \in Seq(T) /\ ToSet(rows) \subseteq ToSet(all) /\ (~timedOut => rows = all)
  <2>1. CASE rows = Rows
    BY <1>8, <1>9, <2>1
  <2>2. CASE timedOut /\ \E n \in 0..Len(Rows) : rows = SubSeq(Rows, 1, n)
    <3>1. PICK n \in 0..Len(all) : rows = SubSeq(all, 1, n)
      BY <1>8, <2>2
    <3>2. n \in Int /\ n <= Len(all)
      BY <1>9
    <3> QED
      BY <1>9, <2>2, <3>1, <3>2, ToSetPrefix
  <2> QED
    BY <2>1, <2>2
<1>11. PICK ids : ids = {x.id : x \in {y \in ToSet(rows) : y.is = "offer"}}
  OBVIOUS
<1>12. Ids(With("offer", rows)) = ids /\ Ids(OffersIn(rows)) = ids
  BY <1>10, <1>11, OfferedIds
<1>13. \A g, r : RowOf(g, r).id = r.id /\ RowOf(g, r).is = Mapped(g.source, r)
  BY DEF RowOf
<1>14. ids \subseteq Servable(page, config)
  <2>1. \A g \in G : \A r \in ToSet(g.rows) :
          g.source # Accounts /\ Mapped(g.source, r) = "offer" => r.id \in Servable(page, config)
    BY <1>1, <1>3, <1>5, OffersAreServable
  <2> QED
    BY <1>9, <1>10, <1>11, <1>13, <2>1
<1>15. ASSUME ~timedOut, ~cut, ~Incomplete
       PROVE  Servable(page, config) \subseteq ids
  <2>1. \A g \in G : g.complete
    BY <1>2, <1>15 DEF Incomplete, ToSet
  <2>2. \A id \in Servable(page, config) :
          \E g \in G : /\ g.source # Accounts
                       /\ \E r \in ToSet(g.rows) : Mapped(g.source, r) = "offer" /\ r.id = id
    BY <1>1, <1>3, <1>5, <1>15, <2>1, OffersAreServable
  <2>3. ASSUME NEW id \in Servable(page, config) PROVE id \in ids
    <3>1. PICK g \in G : /\ g.source # Accounts
                        /\ \E r \in ToSet(g.rows) : Mapped(g.source, r) = "offer" /\ r.id = id
      BY <2>2
    <3>2. PICK r \in ToSet(g.rows) : Mapped(g.source, r) = "offer" /\ r.id = id
      BY <3>1
    <3>3. PICK x : x = RowOf(g, r)
      OBVIOUS
    <3>4. x \in ToSet(rows)
      BY <1>9, <1>10, <1>15, <3>1, <3>3
    <3>5. x.is = "offer" /\ x.id = id
      BY <1>13, <3>2, <3>3
    <3> QED
      BY <1>11, <3>4, <3>5
  <2> QED
    BY <2>3
<1>16. PICK status : status = IF config.adapter = "openrouter" /\ Incomplete THEN "failed"
                                                                           ELSE StatusOf(timedOut)
  OBVIOUS
<1>17. PICK offers : offers = IF status = "failed" THEN <<>>
                             ELSE IF config.adapter = "openrouter" THEN With("offer", rows)
                             ELSE OffersIn(rows)
  OBVIOUS
<1>18. result'.status = status /\ result'.offers = offers
  BY <1>16, <1>17 DEF Conclude
<1>19. /\ page' = page /\ config' = config /\ todo' = todo /\ left' = left
       /\ got' = got /\ cut' = cut /\ walk' = walk /\ pc' = "done"
  BY DEF Conclude
<1>20. status = "success" => ~timedOut /\ ~cut /\ ~Incomplete
  BY <1>16 DEF StatusOf
<1>21. (status = "failed" => Ids(offers) = {}) /\ (status # "failed" => Ids(offers) = ids)
  BY <1>12, <1>17, NothingFound
<1>22. Ids(offers) \subseteq Servable(page, config)
  BY <1>14, <1>21
<1>23. status = "success" => Ids(offers) = Servable(page, config)
  BY <1>14, <1>15, <1>20, <1>21
<1>24. SuccessIsComplete'
  BY <1>18, <1>19, <1>22, <1>23 DEF SuccessIsComplete
<1>25. DiscoveryTypes' /\ WalkOK'
  BY <1>19 DEF DiscoveryInv, DiscoveryTypes, WalkOK
<1>26. SourcesOK'
  BY <1>19 DEF DiscoveryInv, SourcesOK
<1> QED
  BY <1>19, <1>24, <1>25, <1>26 DEF DiscoveryInv

LEMMA NormalizeCorrect ==
  ASSUME DiscoveryInv, Normalize \/ NormalizeLate
  PROVE  DiscoveryInv'
<1>1. CASE Normalize
  <2>1. PICK rows : rows = Rows
    OBVIOUS
  <2>2. pc = "normalize" /\ Conclude(rows, FALSE)
    BY <1>1, <2>1 DEF Normalize
  <2> QED
    BY <2>1, <2>2, Concluded
<1>2. CASE NormalizeLate
  <2>1. PICK rows \in {SubSeq(Rows, 1, n) : n \in 0..Len(Rows)} : Conclude(rows, TRUE)
    BY <1>2 DEF NormalizeLate
  <2>2. pc = "normalize"
    BY <1>2 DEF NormalizeLate
  <2>3. \E n \in 0..Len(Rows) : rows = SubSeq(Rows, 1, n)
    BY <2>1
  <2> QED
    BY <2>1, <2>2, <2>3, Concluded
<1> QED
  BY <1>1, <1>2

LEMMA DiscoveryStep ==
  ASSUME DiscoveryInv, [DiscoveryNext]_discoveryVars
  PROVE  DiscoveryInv'
<1>1. CASE UNCHANGED discoveryVars
  <2>1. /\ page' = page /\ config' = config /\ result' = result /\ todo' = todo
        /\ left' = left /\ got' = got /\ cut' = cut /\ pc' = pc /\ walk' = walk
    BY <1>1 DEF discoveryVars
  <2>2. DiscoveryTypes' /\ WalkOK'
    BY <2>1 DEF DiscoveryInv, DiscoveryTypes, WalkOK
  <2>3. SourcesOK'
    BY <2>1 DEF DiscoveryInv, SourcesOK
  <2> QED
    BY <2>1, <2>2, <2>3 DEF DiscoveryInv, SuccessIsComplete
<1> QED
  BY <1>1, WalkFailsCorrect, WalkPageCorrect, DeadlineCorrect, NormalizeCorrect
     DEF DiscoveryNext

\* A success of a discovery is the whole truth about the provider, and no
\* result says more than that (benchmarking/providers): for every provider,
\* with any graph of pages, every configuration and every limit.
THEOREM SuccessIsAlwaysComplete == DiscoverySpec => []SuccessIsComplete
<1>1. DiscoveryInit => DiscoveryInv
  BY InitDiscoveryInv
<1>2. DiscoveryInv /\ [DiscoveryNext]_discoveryVars => DiscoveryInv'
  BY DiscoveryStep
<1>3. DiscoveryInv => SuccessIsComplete
  BY DEF DiscoveryInv
<1> QED
  BY <1>1, <1>2, <1>3, PTL DEF DiscoverySpec
=============================================================================
