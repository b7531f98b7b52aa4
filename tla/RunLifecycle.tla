---------------------------- MODULE RunLifecycle ----------------------------
(***************************************************************************)
(* Driver runs of the sessions plane on several replicas over one          *)
(* Postgres: the sessions row with its lease (runs/sessions.py), the       *)
(* append-only event log (runs/events.py), execute_run                     *)
(* (sessions_service.py), the lease reaper (app/background.py), graceful   *)
(* drain and the SSE clients (routes/sessions.py).                         *)
(*                                                                         *)
(* Every SQL statement is one atomic step and every coroutine may be       *)
(* suspended between two of them.  publish() is INSERT event, then UPDATE  *)
(* lease: a writer is at "event" before the first, at "lease" before the   *)
(* second.  finish() is UPDATE status, then publish() of a terminal kind.  *)
(* The seq of an event is MAX(seq) + 1: its position in the log.  (The     *)
(* 8-fold retry on a seq conflict is taken to succeed.)  The tasks of a    *)
(* run are dispatched by one gather and publish beside each other: Worker  *)
(* are the coroutines of one driver.                                       *)
(*                                                                         *)
(* lease counts down the ticks to lease_expires: 0 says expired.  The      *)
(* renewal writes ts + lease_ttl with the ts publish() read on entry; due  *)
(* is what is left of that by now.  quiet and torn are history variables:  *)
(* the ticks since the newest ts of a run's events (since its creation,    *)
(* before the first), and what went wrong: <<r, "finish">> when finish()   *)
(* of r was cut between its status UPDATE and its event INSERT,            *)
(* <<r, "renew">> when the newest event of r was left without its renewal, *)
(* <<r, "order">> when a renewal for an older event of r moved the lease   *)
(* back; the last two until the newest event's renewal is written.         *)
(***************************************************************************)
EXTENDS Integers, Sequences, FiniteSets

CONSTANTS Run, Replica, Client, Worker,
          NoRun,
          Ttl,        \* run_timeout = lease_ttl, in ticks
          MaxPublish, \* the ticks a publish() takes at most
          MaxSpans,   \* bound on the events a driver publishes
          MaxFaults   \* bound on crashes, deploys, failed statements, drops

ASSUME RunAssumption ==
  /\ Ttl \in Nat \ {0} /\ MaxSpans \in Nat /\ MaxFaults \in Nat
  /\ MaxPublish \in 0..(Ttl - 1)
  /\ NoRun \notin Run

VARIABLES sess,    \* sess[r]: the sessions row
          log,     \* log[r]: the events of r, in seq order
          task,    \* task[r]: the coroutine that creates and executes r
          due,     \* due[r]: the lease its publish() is about to write
          span,    \* span[r][w]: the publish() of a coroutine of r's driver
          mode,    \* mode[p]: the process
          sweep,   \* sweep[s]: the reaper and the drain of each process
          client,  \* client[c]: an SSE client of some run
          faults, quiet, torn

vars == <<sess, log, task, due, span, mode, sweep, client, faults, quiet, torn>>

Terminal == {"run_done", "run_failed"}
Over == {"done", "failed"}
Sweeper == Replica \X {"reaper", "drain"}

NoRow == [status |-> "none", lease |-> 0]
NoTask == [pc |-> "none", kind |-> "none", rep |-> "none", spans |-> 0]
Resting == [pc |-> "idle", run |-> NoRun, todo |-> {}, held |-> 0]
Unsaid == [w \in Worker |-> [pc |-> "idle", due |-> Ttl]]
Away == [pc |-> "away", run |-> NoRun, via |-> "tail", last |-> 0]

Init ==
  /\ sess = [r \in Run |-> NoRow]
  /\ log = [r \in Run |-> <<>>]
  /\ task = [r \in Run |-> NoTask]
  /\ due = [r \in Run |-> Ttl]
  /\ span = [r \in Run |-> Unsaid]
  /\ mode = [p \in Replica |-> "up"]
  /\ sweep = [s \in Sweeper |-> Resting]
  /\ client = [c \in Client |-> Away]
  /\ faults = 0
  /\ quiet = [r \in Run |-> 0]
  /\ torn = {}

Live(p) == mode[p] # "down"
Fault == faults < MaxFaults /\ faults' = faults + 1

\* The SQL statements.
SetStatus(r, s) == sess' = [sess EXCEPT ![r] = [status |-> s, lease |-> @.lease]]
Insert(r, kind, age) ==
  /\ log' = [log EXCEPT ![r] = Append(@, kind)]
  /\ quiet' = [quiet EXCEPT ![r] = IF age < @ THEN age ELSE @]

Renew(r, left) == sess' = [sess EXCEPT ![r] = [status |-> @.status, lease |-> left]]

\* Where a coroutine, a sweeper and a client go next; publish() reads the clock
\* before its INSERT and keeps what it read for the UPDATE.
Goto(r, pc, kind) ==
  /\ task' = [task EXCEPT ![r] = [pc |-> pc, kind |-> kind, rep |-> @.rep, spans |-> @.spans]]
  /\ due' = [due EXCEPT ![r] = IF pc = "lease" THEN @ ELSE Ttl]
SpanTo(r, w, pc) ==
  span' = [span EXCEPT ![r][w] = [pc |-> pc, due |-> IF pc = "lease" THEN @.due ELSE Ttl]]
SweepTo(s, pc, run, todo) ==
  sweep' = [sweep EXCEPT ![s] = [pc |-> pc, run |-> run, todo |-> todo,
                                 held |-> IF pc = "idle" THEN 0 ELSE @.held]]
ClientTo(c, pc, last) ==
  client' = [client EXCEPT ![c] = [pc |-> pc, run |-> @.run, via |-> @.via, last |-> last]]

\* The task of r is between the two statements of finish().
Announcing(r) == task[r].pc = "event" /\ task[r].kind \in Terminal

\* The coroutines of r's driver that are inside publish().
Busy(r) == {w \in Worker : span[r][w].pc # "idle"}

\* Whether a renewal with d ticks left is the one of r's newest event.
Newest(r, d) == d + quiet[r] >= Ttl

-----------------------------------------------------------------------------
\* create_session + execute_run.

\* store.create: the row starts with a lease; publish(run_created) follows.
Create(r, p) ==
  /\ task[r].pc = "none" /\ mode[p] = "up"
  /\ sess' = [sess EXCEPT ![r] = [status |-> "running", lease |-> Ttl]]
  /\ task' = [task EXCEPT ![r] = [pc |-> "event", kind |-> "run_created",
                                  rep |-> p, spans |-> 0]]
  /\ due' = [due EXCEPT ![r] = Ttl]
  /\ quiet' = [quiet EXCEPT ![r] = 0]
  /\ UNCHANGED <<log, span, mode, sweep, client, faults, torn>>

TaskInsert(r) ==
  /\ task[r].pc = "event"
  /\ Insert(r, task[r].kind, Ttl - due[r])
  /\ Goto(r, "lease", task[r].kind)
  /\ UNCHANGED <<sess, span, mode, sweep, client, faults, torn>>

\* Where the coroutine goes on after publish() returned.
After(kind) == CASE kind = "run_created" -> "run"
                 [] kind = "run_done" -> "post"
                 [] kind = "run_failed" -> "end"

TaskRenew(r) ==
  /\ task[r].pc = "lease"
  /\ Renew(r, due[r])
  /\ Goto(r, After(task[r].kind), task[r].kind)
  /\ UNCHANGED <<log, span, mode, sweep, client, faults, quiet, torn>>

\* A coroutine of the driver publishes a span or an answer delta.
DriverSpan(r, w) ==
  /\ task[r].pc = "run" /\ task[r].spans < MaxSpans /\ span[r][w].pc = "idle"
  /\ task' = [task EXCEPT ![r] = [pc |-> "run", kind |-> @.kind, rep |-> @.rep,
                                  spans |-> @.spans + 1]]
  /\ SpanTo(r, w, "event")
  /\ UNCHANGED <<sess, log, due, mode, sweep, client, faults, quiet, torn>>

SpanInsert(r, w) ==
  /\ span[r][w].pc = "event"
  /\ Insert(r, "span", Ttl - span[r][w].due)
  /\ SpanTo(r, w, "lease")
  /\ UNCHANGED <<sess, task, due, mode, sweep, client, faults, torn>>

\* Mutant: the lease is not renewed by progress.
SpanNoRenew(r, w) ==
  /\ span[r][w].pc = "lease"
  /\ SpanTo(r, w, "idle")
  /\ UNCHANGED <<sess, log, task, due, mode, sweep, client, faults, quiet, torn>>

\* The renewal is written whatever the row holds by now.
SpanRenew(r, w) ==
  /\ span[r][w].pc = "lease"
  /\ Renew(r, span[r][w].due)
  /\ torn' = IF Newest(r, span[r][w].due) THEN torn \ {<<r, "renew">>, <<r, "order">>}
             ELSE torn \cup {<<x, "order">> : x \in {y \in {r} : span[y][w].due < sess[y].lease}}
  /\ SpanTo(r, w, "idle")
  /\ UNCHANGED <<log, task, due, mode, sweep, client, faults, quiet>>

\* _emit, or the gather, swallows a publish() that raised: the driver goes on.
SpanLost(r, w) ==
  /\ span[r][w].pc # "idle" /\ Fault
  /\ torn' = torn \cup {<<x, "renew">> : x \in
       {y \in {r} : span[y][w].pc = "lease" /\ Newest(y, span[y][w].due)}}
  /\ SpanTo(r, w, "idle")
  /\ UNCHANGED <<sess, log, task, due, mode, sweep, client, quiet>>

\* Mutant: finish(done) marks the row and publishes nothing.
DriverDoneSilent(r) ==
  /\ task[r].pc = "run" /\ Busy(r) = {}
  /\ SetStatus(r, "done")
  /\ Goto(r, "post", "run_done")
  /\ UNCHANGED <<log, span, mode, sweep, client, faults, quiet, torn>>

\* driver.run returned, the gather having waited for every task: finish(done).
DriverDone(r) ==
  /\ task[r].pc = "run" /\ Busy(r) = {}
  /\ SetStatus(r, "done")
  /\ Goto(r, "event", "run_done")
  /\ UNCHANGED <<log, span, mode, sweep, client, faults, quiet, torn>>

\* What may raise inside the try: the driver, the publish() of a delta that one
\* coroutine streams while no other runs, a statement of finish(done), the
\* session row or the card written after it.
MayRaise(r) ==
  \/ task[r].pc = "run" /\ Busy(r) = {} /\ UNCHANGED faults
  \/ task[r].pc = "run" /\ (\E w \in Worker : Busy(r) = {w}) /\ Fault
  \/ task[r].pc = "post" /\ Fault
  \/ task[r].pc \in {"event", "lease"} /\ task[r].kind = "run_done" /\ Fault

\* except Exception: finish(failed).
TaskRaises(r) ==
  /\ MayRaise(r)
  /\ SetStatus(r, "failed")
  /\ Goto(r, "event", "run_failed")
  /\ span' = [span EXCEPT ![r] = Unsaid]
  /\ UNCHANGED <<log, mode, sweep, client, quiet, torn>>

\* A statement of publish(run_created) or of finish(failed) raised: nothing is
\* left to catch it.  (For finish(failed) to run, something raised before.)
TaskDies(r) ==
  /\ task[r].pc \in {"event", "lease", "run", "post"} /\ Fault
  /\ \A v, w \in Busy(r) : v = w
  /\ torn' = torn \cup {<<x, "finish">> : x \in {y \in {r} : Announcing(y)}}
  /\ Goto(r, "end", task[r].kind)
  /\ span' = [span EXCEPT ![r] = Unsaid]
  /\ UNCHANGED <<sess, log, mode, sweep, client, quiet>>

\* The card, document and recall sinks are through.
TaskEnds(r) ==
  /\ task[r].pc = "post"
  /\ Goto(r, "end", task[r].kind)
  /\ UNCHANGED <<sess, log, span, mode, sweep, client, faults, quiet, torn>>

-----------------------------------------------------------------------------
\* The reaper of p, and its drain.

\* Mutant: staleness is read off the latest event, with no fallback for a run
\* that has none.
ExpiredPublished ==
  {r \in Run : sess[r].status = "running" /\ sess[r].lease = 0 /\ log[r] # <<>>}

Expired == {r \in Run : sess[r].status = "running" /\ sess[r].lease = 0}

\* Mutant: reclaim_expired_leases selects the runs and leaves their leases.
ReclaimSelects(p) ==
  /\ Live(p) /\ sweep[<<p, "reaper">>].pc = "idle" /\ Expired # {}
  /\ SweepTo(<<p, "reaper">>, "next", NoRun, Expired)
  /\ UNCHANGED <<sess, log, task, due, span, mode, client, faults, quiet, torn>>

\* reclaim_expired_leases: one UPDATE ... RETURNING.
Reclaim(p) ==
  /\ Live(p) /\ sweep[<<p, "reaper">>].pc = "idle" /\ Expired # {}
  /\ sess' = [r \in Run |-> IF r \in Expired THEN [status |-> "running", lease |-> Ttl]
                                             ELSE sess[r]]
  /\ SweepTo(<<p, "reaper">>, "next", NoRun, Expired)
  /\ UNCHANGED <<log, task, due, span, mode, client, faults, quiet, torn>>

\* SIGTERM: no new runs from here on; drain waits for the live ones.
DrainStart(p) ==
  /\ mode[p] = "up" /\ Fault
  /\ mode' = [mode EXCEPT ![p] = "draining"]
  /\ UNCHANGED <<sess, log, task, due, span, sweep, client, quiet, torn>>

\* _live_run_ids: the tasks between create_task and their done callback.
LiveRuns(p) ==
  {r \in Run : /\ task[r].rep = p /\ task[r].pc \notin {"none", "end"}
               /\ task[r].kind = "run_created" => task[r].pc = "run"}

\* drain_seconds elapsed with runs left: fail them one by one.
DrainSweep(p) ==
  /\ mode[p] = "draining" /\ sweep[<<p, "drain">>].pc = "idle"
  /\ mode' = [mode EXCEPT ![p] = "sweeping"]
  /\ SweepTo(<<p, "drain">>, "next", NoRun, LiveRuns(p))
  /\ UNCHANGED <<sess, log, task, due, span, client, faults, quiet, torn>>

SweepStatus(s) ==
  /\ sweep[s].pc = "next"
  /\ \E r \in sweep[s].todo :
       /\ SetStatus(r, "failed")
       /\ SweepTo(s, "event", r, sweep[s].todo \ {r})
  /\ UNCHANGED <<log, task, due, span, mode, client, faults, quiet, torn>>

SweepInsert(s) ==
  /\ sweep[s].pc = "event"
  /\ Insert(sweep[s].run, "run_failed", 0)
  /\ SweepTo(s, "lease", sweep[s].run, sweep[s].todo)
  /\ UNCHANGED <<sess, task, due, span, mode, client, faults, torn>>

SweepAnnouncing(s, r) == sweep[s].pc = "event" /\ sweep[s].run = r

SweepRenew(s) ==
  /\ sweep[s].pc = "lease"
  /\ Renew(sweep[s].run, Ttl)
  /\ SweepTo(s, "next", NoRun, sweep[s].todo)
  /\ UNCHANGED <<log, task, due, span, mode, client, faults, quiet, torn>>

SweepDone(s) ==
  /\ sweep[s].pc = "next" /\ sweep[s].todo = {}
  /\ SweepTo(s, "idle", NoRun, {})
  /\ UNCHANGED <<sess, log, task, due, span, mode, client, faults, quiet, torn>>

\* A statement of finish() raised.  The reaper drops the rest of its tick;
\* drain goes on with the next straggler.
SweepFails(s) ==
  /\ Fault
  /\ \E left \in SUBSET sweep[s].todo :
       /\ \/ sweep[s].pc \in {"event", "lease"} /\ left = sweep[s].todo
          \/ sweep[s].pc = "next" /\ \E r \in sweep[s].todo : left = sweep[s].todo \ {r}
       /\ IF s[2] = "reaper" THEN SweepTo(s, "idle", NoRun, {})
                             ELSE SweepTo(s, "next", NoRun, left)
  /\ torn' = torn \cup {<<r, "finish">> : r \in {x \in Run : SweepAnnouncing(s, x)}}
  /\ UNCHANGED <<sess, log, task, due, span, mode, client, quiet>>

-----------------------------------------------------------------------------
\* Processes and time.

\* The process of p is gone, with everything it was doing.
Stop(p) ==
  /\ mode' = [mode EXCEPT ![p] = "down"]
  /\ task' = [r \in Run |-> IF task[r].rep # p THEN task[r] ELSE
                [pc |-> "end", kind |-> task[r].kind, rep |-> p, spans |-> task[r].spans]]
  /\ span' = [r \in Run |-> IF task[r].rep # p THEN span[r] ELSE Unsaid]
  /\ sweep' = [s \in Sweeper |-> IF s[1] = p THEN Resting ELSE sweep[s]]
  /\ torn' = torn \cup {<<r, "finish">> : r \in
       {x \in Run : \/ task[x].rep = p /\ Announcing(x)
                    \/ \E s \in Sweeper : s[1] = p /\ SweepAnnouncing(s, x)}}
  /\ UNCHANGED <<sess, log, due, client, quiet>>

Crash(p) == Live(p) /\ Fault /\ Stop(p)

\* drain() returned (or every run ended in time): the process exits.
Exit(p) ==
  /\ \/ mode[p] = "sweeping" /\ sweep[<<p, "drain">>].pc = "idle"
     \/ mode[p] = "draining" /\ LiveRuns(p) = {}
  /\ Stop(p) /\ UNCHANGED faults

Restart(p) ==
  /\ mode[p] = "down"
  /\ mode' = [mode EXCEPT ![p] = "up"]
  /\ UNCHANGED <<sess, log, task, due, span, sweep, client, faults, quiet, torn>>

\* The run is inside publish().
Publishing(r) == task[r].pc \in {"event", "lease"}

\* A publish() takes MaxPublish ticks at most; a sweep may take any time, and
\* held says how long.  The lease of a run that is over is not read any more.
Tick ==
  /\ \A r \in Run : Publishing(r) => due[r] > Ttl - MaxPublish
  /\ \A r \in Run, w \in Worker : w \in Busy(r) => span[r][w].due > Ttl - MaxPublish
  /\ due' = [r \in Run |-> IF Publishing(r) THEN due[r] - 1 ELSE due[r]]
  /\ span' = [r \in Run |-> [w \in Worker |->
       [pc |-> span[r][w].pc,
        due |-> IF w \in Busy(r) THEN span[r][w].due - 1 ELSE span[r][w].due]]]
  /\ sess' = [r \in Run |-> [status |-> sess[r].status,
       lease |-> IF sess[r].status = "running" /\ sess[r].lease > 0
                 THEN sess[r].lease - 1 ELSE sess[r].lease]]
  /\ quiet' = [r \in Run |-> IF sess[r].status = "running" /\ quiet[r] < Ttl
                            THEN quiet[r] + 1 ELSE quiet[r]]
  /\ sweep' = [s \in Sweeper |->
       [pc |-> sweep[s].pc, run |-> sweep[s].run, todo |-> sweep[s].todo,
        held |-> IF s[2] = "reaper" /\ sweep[s].pc # "idle" /\ sweep[s].held < Ttl
                 THEN sweep[s].held + 1 ELSE sweep[s].held]]
  /\ UNCHANGED <<log, task, mode, client, faults, torn>>

-----------------------------------------------------------------------------
\* SSE clients.

\* GET /events from the beginning.
Connect(c, r) ==
  /\ client[c].pc = "away" /\ sess[r].status # "none"
  /\ client' = [client EXCEPT ![c] = [pc |-> "tail", run |-> r, via |-> "tail",
                                      last |-> 0]]
  /\ UNCHANGED <<sess, log, task, due, span, mode, sweep, faults, quiet, torn>>

\* GET /v1/sessions/{run_id}: the row, then, with another statement, last_seq.
\* A snapshot of a finished run needs no tail.
SnapshotRow(c, r) ==
  /\ client[c].pc = "away" /\ sess[r].status # "none"
  /\ client' = [client EXCEPT ![c] =
                  [pc |-> IF sess[r].status \in Over THEN "over" ELSE "read",
                   run |-> r, via |-> "snapshot", last |-> 0]]
  /\ UNCHANGED <<sess, log, task, due, span, mode, sweep, faults, quiet, torn>>

SnapshotSeq(c) ==
  /\ client[c].pc = "read"
  /\ ClientTo(c, "tail", Len(log[client[c].run]))
  /\ UNCHANGED <<sess, log, task, due, span, mode, sweep, faults, quiet, torn>>

\* Mutant: the tail goes on from MAX(seq) instead of from its own cursor.
DeliverSkips(c) ==
  /\ client[c].pc = "tail" /\ client[c].last < Len(log[client[c].run])
  /\ ClientTo(c, IF log[client[c].run][client[c].last + 1] \in Terminal
                 THEN "over" ELSE "tail", Len(log[client[c].run]))
  /\ UNCHANGED <<sess, log, task, due, span, mode, sweep, faults, quiet, torn>>

\* subscribe(): the next event after last, on a wake or on the repoll; the
\* stream ends after a terminal one.
Deliver(c) ==
  /\ client[c].pc = "tail" /\ client[c].last < Len(log[client[c].run])
  /\ ClientTo(c, IF log[client[c].run][client[c].last + 1] \in Terminal
                 THEN "over" ELSE "tail", client[c].last + 1)
  /\ UNCHANGED <<sess, log, task, due, span, mode, sweep, faults, quiet, torn>>

\* stream_events: no event for sse_heartbeat_seconds.  wait_for cancels the
\* pending __anext__, which ends the subscribe() generator: after the
\* heartbeat comment the next __anext__ raises StopAsyncIteration and the
\* response ends.
Heartbeat(c) ==
  /\ client[c].pc = "tail" /\ client[c].last >= Len(log[client[c].run])
  /\ ClientTo(c, "closed", client[c].last)
  /\ UNCHANGED <<sess, log, task, due, span, mode, sweep, faults, quiet, torn>>

\* The connection drops.
Drop(c) ==
  /\ client[c].pc = "tail" /\ Fault
  /\ ClientTo(c, "dropped", client[c].last)
  /\ UNCHANGED <<sess, log, task, due, span, mode, sweep, quiet, torn>>

\* EventSource reconnects with Last-Event-ID.
Reconnect(c) ==
  /\ client[c].pc \in {"closed", "dropped"}
  /\ ClientTo(c, "tail", client[c].last)
  /\ UNCHANGED <<sess, log, task, due, span, mode, sweep, faults, quiet, torn>>

-----------------------------------------------------------------------------
TaskStep(r) ==
  \/ \E p \in Replica : Create(r, p)
  \/ TaskInsert(r) \/ TaskRenew(r) \/ DriverDone(r) \/ TaskRaises(r)
  \/ TaskDies(r) \/ TaskEnds(r)
  \/ \E w \in Worker : \/ DriverSpan(r, w) \/ SpanInsert(r, w)
                        \/ SpanRenew(r, w) \/ SpanLost(r, w)

SweepStep(s) == SweepStatus(s) \/ SweepInsert(s) \/ SweepRenew(s) \/ SweepDone(s)

ProcessStep(p) ==
  \/ Reclaim(p) \/ DrainStart(p) \/ DrainSweep(p) \/ Crash(p) \/ Exit(p) \/ Restart(p)

ClientStep(c) ==
  \/ \E r \in Run : Connect(c, r) \/ SnapshotRow(c, r)
  \/ SnapshotSeq(c) \/ Deliver(c) \/ Heartbeat(c) \/ Drop(c) \/ Reconnect(c)

Next ==
  \/ \E r \in Run : TaskStep(r)
  \/ \E s \in Sweeper : SweepStep(s) \/ SweepFails(s)
  \/ \E p \in Replica : ProcessStep(p)
  \/ \E c \in Client : ClientStep(c)
  \/ Tick

Spec == Init /\ [][Next]_vars

\* Time passes, reapers tick, statements end (the pool and the connection have
\* timeouts), a stopped process is restarted, clients read and reconnect.
\* Drivers promise nothing.
Fairness ==
  /\ WF_vars(Tick)
  /\ \A p \in Replica : WF_vars(Reclaim(p)) /\ WF_vars(Restart(p))
  /\ \A r \in Run : WF_vars(TaskInsert(r) \/ TaskRenew(r))
  /\ \A r \in Run, w \in Worker : WF_vars(SpanInsert(r, w) \/ SpanRenew(r, w))
  /\ \A s \in Sweeper : WF_vars(SweepStep(s))
  /\ \A c \in Client : WF_vars(SnapshotSeq(c) \/ Deliver(c) \/ Reconnect(c))

FairSpec == Spec /\ Fairness

-----------------------------------------------------------------------------
\* Types: a lease never outlasts Ttl, and statuses, event kinds and program
\* counters are the ones of the code.
TypeOK ==
  /\ sess \in [Run -> [status : {"none", "running"} \cup Over, lease : 0..Ttl]]
  /\ log \in [Run -> Seq({"run_created", "span"} \cup Terminal)]
  /\ task \in [Run -> [pc : {"none", "event", "lease", "run", "post", "end"},
                       kind : {"none", "run_created"} \cup Terminal,
                       rep : Replica \cup {"none"}, spans : 0..MaxSpans]]
  /\ due \in [Run -> (Ttl - MaxPublish)..Ttl]
  /\ span \in [Run -> [Worker -> [pc : {"idle", "event", "lease"},
                                  due : (Ttl - MaxPublish)..Ttl]]]
  /\ mode \in [Replica -> {"up", "draining", "sweeping", "down"}]
  /\ sweep \in [Sweeper -> [pc : {"idle", "next", "event", "lease"},
                            run : Run \cup {NoRun}, todo : SUBSET Run, held : 0..Ttl]]
  /\ client \in [Client -> [pc : {"away", "read", "tail", "closed", "dropped", "over"},
                            run : Run \cup {NoRun}, via : {"tail", "snapshot"},
                            last : Nat]]
  /\ faults \in 0..MaxFaults
  /\ quiet \in [Run -> 0..Ttl]
  /\ torn \subseteq Run \X {"finish", "renew", "order"}

Ended(r) == \E k \in DOMAIN log[r] : log[r][k] \in Terminal
Alive(r) == task[r].pc \notin {"none", "end"}

\* The renewal of r's newest event is still to be written.
Renewing(r) ==
  \/ task[r].pc = "lease" /\ Newest(r, due[r])
  \/ \E w \in Worker : span[r][w].pc = "lease" /\ Newest(r, span[r][w].due)

\* Lease and reaper: a run whose task is alive is reaped only after run_timeout
\* without an event.  Three exceptions: the publish() of its newest event is
\* between its statements, or failed there, or a renewal for an older event
\* landed after the newest one's; then the silence is shorter by what a
\* publish() takes at most.
LiveRunReapedOnlyWhenSilent ==
  \A r \in Expired : Alive(r) =>
    \/ quiet[r] = Ttl
    \/ Renewing(r)
    \/ <<r, "renew">> \in torn
    \/ <<r, "order">> \in torn /\ quiet[r] >= Ttl - MaxPublish

Holds(p, r) == r \in sweep[<<p, "reaper">>].todo \cup {sweep[<<p, "reaper">>].run}

\* reclaim_expired_leases: "two reapers can't both reclaim the same run" - unless
\* one of them has been at its list for nearly a whole lease, or a publish()
\* that was under way at the reclaim put an older lease back.
NoDoubleReap ==
  \A r \in Run, p, q \in Replica : Holds(p, r) /\ Holds(q, r) =>
    \/ p = q
    \/ sweep[<<p, "reaper">>].held >= Ttl - MaxPublish
    \/ sweep[<<q, "reaper">>].held >= Ttl - MaxPublish

\* finish(): a run that is over has its terminal event in the log, or somebody
\* is about to write it, unless a finish() was cut off between its two
\* statements.
TerminalAnnounced ==
  \A r \in Run : sess[r].status \in Over =>
    \/ Ended(r)
    \/ Announcing(r)
    \/ \E s \in Sweeper : SweepAnnouncing(s, r)
    \/ <<r, "finish">> \in torn

\* reaper: no run stays `running` forever - not when its process crashes or
\* exits at any statement, its driver hangs, or statements of reapers fail.
EveryRunEnds == \A r \in Run : sess[r].status = "running" ~> sess[r].status \in Over

\* subscribe(): a client that tails a run from the beginning, through
\* heartbeats, drops and reconnects with Last-Event-ID, gets the terminal
\* event once there is one.
TailLearnsEnd ==
  \A c \in Client, r \in Run :
    client[c].run = r /\ client[c].via = "tail" /\ Ended(r) ~> client[c].pc = "over"

\* routes/sessions.py: "snapshot + tail covers every event exactly once".  A
\* client whose snapshot said `running` has the terminal event still ahead.
SnapshotPlusTail ==
  \A c \in Client : client[c].pc = "tail" =>
    \A k \in 1..client[c].last : log[client[c].run][k] \notin Terminal

\* RunStore: "no event for run_timeout -> reclaimed".  While statements do not
\* fail, a live run is reaped for nothing less, but for the publish() that is
\* between its statements.
ReapedOnlyAfterTimeout ==
  \A r \in Expired : Alive(r) => quiet[r] = Ttl \/ Renewing(r) \/ faults > 0

\* finish(): "silence is never the signal": a run that is over gets its
\* terminal event.
NeverSilent == \A r \in Run : sess[r].status \in Over ~> Ended(r)
=============================================================================
