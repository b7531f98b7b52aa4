----------------------------- MODULE RunProofs -----------------------------
(***************************************************************************)
(* The lease and finish() discipline of driver runs, for any number of     *)
(* runs, coroutines, replicas and clients, any lease and any number of     *)
(* faults.                                                                 *)
(***************************************************************************)
EXTENDS RunLifecycle, FiniteSetTheorems, SequenceTheorems, TLAPS

\* What coroutines and sweepers look like between two statements.
RunShape(r) ==
  /\ Publishing(r) => task[r].kind # "none"
  /\ task[r].pc = "none" => sess[r].status = "none"
  /\ Alive(r) => sess[r].status # "none"
  /\ Publishing(r) => task[r].kind = "run_created" \/ sess[r].status \in Over
  /\ Busy(r) # {} => task[r].pc = "run"

\* The shape of a sweeper at rest or at work.
SweepShape(s) ==
  /\ sweep[s].pc \in {"event", "lease"} =>
       sweep[s].run \in Run /\ sess[sweep[s].run].status \in Over
  /\ sweep[s].pc \in {"idle", "next"} => sweep[s].run = NoRun
  /\ sweep[s].pc = "idle" => sweep[s].todo = {}
  /\ \A r \in sweep[s].todo : sess[r].status # "none"

Shape == (\A r \in Run : RunShape(r)) /\ (\A s \in Sweeper : SweepShape(s))

\* A live run's lease runs out no earlier than Ttl ticks after its newest event,
\* or the renewal is still to come.  A renewal that came out of order leaves
\* MaxPublish ticks less, a lost one says nothing.
LeaseOk(r) ==
  sess[r].status = "running" /\ Alive(r) =>
    /\ Publishing(r) => Newest(r, due[r])
    /\ <<r, "renew">> \notin torn =>
         Renewing(r) \/ sess[r].lease + quiet[r] >= Ttl - MaxPublish
    /\ <<r, "renew">> \notin torn /\ <<r, "order">> \notin torn =>
         Renewing(r) \/ sess[r].lease + quiet[r] >= Ttl

LeaseInv == \A r \in Run : LeaseOk(r)

\* A run that a reaper has held for a while has that much less of its lease left,
\* or is over already.
HeldInv ==
  \A r \in Run, p \in Replica : Holds(p, r) =>
    \/ sess[r].status \in Over
    \/ sess[r].lease + sweep[<<p, "reaper">>].held >= Ttl - MaxPublish

\* The inductive invariant.
IInv == TypeOK /\ Shape /\ LeaseInv /\ HeldInv /\ NoDoubleReap /\ TerminalAnnounced

\* The invariant holds before the first run.
LEMMA InitIInv == Init => IInv
<1> SUFFICES ASSUME Init PROVE IInv OBVIOUS
<1> USE RunAssumption DEF Init, NoRow, NoTask, Resting, Away, Unsaid
<1>1. TypeOK BY DEF TypeOK, Over, Terminal
<1>2. Shape BY DEF Shape, RunShape, SweepShape, Publishing, Alive, Over, Busy
<1>3. LeaseInv BY DEF LeaseInv, LeaseOk
<1>4. \A r \in Run, p \in Replica : ~Holds(p, r)
  BY DEF Holds, Sweeper
<1>5. HeldInv /\ NoDoubleReap BY <1>4 DEF HeldInv, NoDoubleReap, Holds
<1>6. TerminalAnnounced BY DEF TerminalAnnounced, Over
<1> QED BY <1>1, <1>2, <1>3, <1>5, <1>6 DEF IInv

\* Clients only read.
LEMMA ClientFrame ==
  ASSUME NEW c \in Client, ClientStep(c)
  PROVE  UNCHANGED <<sess, log, task, due, span, mode, sweep, quiet, torn>>
BY
   DEF ClientStep, Connect, SnapshotRow, SnapshotSeq, Deliver, Heartbeat, Drop,
       Reconnect

\* SweepFails: the sweeper rests, or goes on with a part of its list.
LEMMA SweepFailsEffect ==
  ASSUME NEW s \in Sweeper, SweepFails(s)
  PROVE  \/ SweepTo(s, "idle", NoRun, {})
         \/ \E left \in SUBSET sweep[s].todo : SweepTo(s, "next", NoRun, left)
BY DEF SweepFails

\* publish(): events stay, and a terminal one ends the stream.
LEMMA InsertEffect ==
  ASSUME TypeOK, NEW r \in Run, NEW kind \in {"run_created", "span"} \cup Terminal,
         NEW age, Insert(r, kind, age)
  PROVE  /\ \A x \in Run : Ended(x) => Ended(x)'
         /\ kind \in Terminal => Ended(r)'
<1>1. /\ log[r] \in Seq({"run_created", "span"} \cup Terminal)
      /\ log' = [log EXCEPT ![r] = Append(log[r], kind)]
  BY DEF TypeOK, Insert
<1>2. log'[r] = Append(log[r], kind) /\ \A x \in Run \ {r} : log'[x] = log[x]
  BY <1>1 DEF TypeOK
<1>3. /\ DOMAIN log'[r] = 1..(Len(log[r]) + 1) /\ DOMAIN log[r] = 1..Len(log[r])
      /\ log'[r][Len(log[r]) + 1] = kind
      /\ \A k \in DOMAIN log[r] : log'[r][k] = log[r][k]
      /\ Len(log[r]) \in Nat
  BY <1>1, <1>2
<1>4. \A x \in Run : Ended(x) => Ended(x)'
  BY <1>2, <1>3 DEF Ended
<1>5. kind \in Terminal => Ended(r)'
  BY <1>3 DEF Ended
<1> QED BY <1>4, <1>5

\* A coroutine that moves on keeps its type, and the lease it will write its.
LEMMA GotoType ==
  ASSUME TypeOK, NEW r \in Run,
         NEW pc \in {"none", "event", "lease", "run", "post", "end"},
         NEW kind \in {"none", "run_created"} \cup Terminal, Goto(r, pc, kind)
  PROVE  /\ task' \in [Run -> [pc : {"none", "event", "lease", "run", "post", "end"},
                                kind : {"none", "run_created"} \cup Terminal,
                                rep : Replica \cup {"none"}, spans : 0..MaxSpans]]
         /\ due' \in [Run -> (Ttl - MaxPublish)..Ttl]
<1>1. Ttl \in (Ttl - MaxPublish)..Ttl BY RunAssumption
<1> QED BY <1>1 DEF Goto, TypeOK

\* So does a publish() of the driver.
LEMMA SpanToType ==
  ASSUME TypeOK, NEW r \in Run, NEW w \in Worker, NEW pc \in {"idle", "event", "lease"},
         SpanTo(r, w, pc)
  PROVE  /\ span' \in [Run -> [Worker -> [pc : {"idle", "event", "lease"},
                                          due : (Ttl - MaxPublish)..Ttl]]]
         /\ span'[r][w] = [pc |-> pc, due |-> IF pc = "lease" THEN span[r][w].due ELSE Ttl]
         /\ \A v \in Worker \ {w} : span'[r][v] = span[r][v]
         /\ \A x \in Run \ {r} : span'[x] = span[x]
<1>1. Ttl \in (Ttl - MaxPublish)..Ttl BY RunAssumption
<1>2. PICK new : new = [pc |-> pc, due |-> IF pc = "lease" THEN span[r][w].due ELSE Ttl]
  OBVIOUS
<1>3. span' = [span EXCEPT ![r] = [span[r] EXCEPT ![w] = new]]
  BY <1>2 DEF SpanTo
<1>4. new \in [pc : {"idle", "event", "lease"}, due : (Ttl - MaxPublish)..Ttl]
  BY <1>1, <1>2 DEF TypeOK
<1>5. span[r] \in [Worker -> [pc : {"idle", "event", "lease"}, due : (Ttl - MaxPublish)..Ttl]]
  BY DEF TypeOK
<1>6. PICK row : row = [span[r] EXCEPT ![w] = new] OBVIOUS
<1>7. /\ row \in [Worker -> [pc : {"idle", "event", "lease"}, due : (Ttl - MaxPublish)..Ttl]]
      /\ row[w] = new /\ \A v \in Worker \ {w} : row[v] = span[r][v]
  BY <1>4, <1>5, <1>6
<1> QED BY <1>2, <1>3, <1>6, <1>7 DEF TypeOK

\* A driver that is gone says nothing any more.
LEMMA UnsaidType ==
  Unsaid \in [Worker -> [pc : {"idle", "event", "lease"}, due : (Ttl - MaxPublish)..Ttl]]
BY RunAssumption DEF Unsaid

\* Every step keeps the types.
LEMMA StepTypeOK == IInv /\ [Next]_vars => TypeOK'
<1> SUFFICES ASSUME IInv, [Next]_vars PROVE TypeOK'
  OBVIOUS
<1> USE RunAssumption
<1>a. TypeOK /\ Shape BY DEF IInv
<1>1. ASSUME NEW r \in Run, NEW p \in Replica, Create(r, p) PROVE TypeOK'
  <2>1. Ttl \in (Ttl - MaxPublish)..Ttl /\ 0 \in 0..Ttl OBVIOUS
  <2> QED BY <1>a, <1>1, <2>1 DEF Create, TypeOK, Terminal
<1>2. ASSUME NEW r \in Run, TaskInsert(r) PROVE TypeOK'
  <2>1. task[r].kind \in {"run_created", "span"} \cup Terminal
    BY <1>a, <1>2 DEF TaskInsert, TypeOK, Shape, RunShape, Publishing
  <2>2. Goto(r, "lease", task[r].kind) BY <1>2 DEF TaskInsert
  <2>3. log' \in [Run -> Seq({"run_created", "span"} \cup Terminal)]
    BY <1>a, <1>2, <2>1 DEF TaskInsert, Insert, TypeOK
  <2>4. Ttl - due[r] \in 0..Ttl BY <1>a DEF TypeOK
  <2>5. quiet' \in [Run -> 0..Ttl]
    BY <1>a, <1>2, <2>4 DEF TaskInsert, Insert, TypeOK
  <2> QED BY <1>a, <1>2, <2>1, <2>2, <2>3, <2>5, GotoType DEF TaskInsert, TypeOK
<1>3. ASSUME NEW r \in Run, TaskRenew(r) PROVE TypeOK'
  <2>1. task[r].kind \in {"run_created"} \cup Terminal
    BY <1>a, <1>3 DEF TaskRenew, TypeOK, Shape, RunShape, Publishing
  <2>2. After(task[r].kind) \in {"run", "post", "end"} BY <2>1 DEF After, Terminal
  <2>3. Goto(r, After(task[r].kind), task[r].kind) BY <1>3 DEF TaskRenew
  <2>4. due[r] \in 0..Ttl BY <1>a DEF TypeOK
  <2>5. sess' \in [Run -> [status : {"none", "running"} \cup Over, lease : 0..Ttl]]
    BY <1>a, <1>3, <2>4 DEF TaskRenew, Renew, TypeOK
  <2>6. PICK pc \in {"none", "event", "lease", "run", "post", "end"},
             kind \in {"none", "run_created"} \cup Terminal : Goto(r, pc, kind)
    BY <2>1, <2>2, <2>3
  <2>7. /\ task' \in [Run -> [pc : {"none", "event", "lease", "run", "post", "end"},
                               kind : {"none", "run_created"} \cup Terminal,
                               rep : Replica \cup {"none"}, spans : 0..MaxSpans]]
        /\ due' \in [Run -> (Ttl - MaxPublish)..Ttl]
    BY <1>a, <2>6, GotoType
  <2> QED BY <1>a, <1>3, <2>5, <2>7 DEF TaskRenew, TypeOK
<1>4. ASSUME NEW r \in Run, NEW w \in Worker, DriverSpan(r, w) PROVE TypeOK'
  <2>1. SpanTo(r, w, "event") BY <1>4 DEF DriverSpan
  <2>2. task' \in [Run -> [pc : {"none", "event", "lease", "run", "post", "end"},
                           kind : {"none", "run_created"} \cup Terminal,
                           rep : Replica \cup {"none"}, spans : 0..MaxSpans]]
    BY <1>a, <1>4 DEF DriverSpan, TypeOK
  <2> QED BY <1>a, <1>4, <2>1, <2>2, SpanToType DEF DriverSpan, TypeOK
<1>5. ASSUME NEW r \in Run, DriverDone(r) PROVE TypeOK'
  <2>1. Goto(r, "event", "run_done") /\ "run_done" \in Terminal
    BY <1>5 DEF DriverDone, Terminal
  <2>2. sess' \in [Run -> [status : {"none", "running"} \cup Over, lease : 0..Ttl]]
    BY <1>a, <1>5 DEF DriverDone, SetStatus, TypeOK, Over
  <2> QED BY <1>a, <1>5, <2>1, <2>2, GotoType DEF DriverDone, TypeOK
<1>6. ASSUME NEW r \in Run, TaskRaises(r) PROVE TypeOK'
  <2>1. Goto(r, "event", "run_failed") /\ "run_failed" \in Terminal
    BY <1>6 DEF TaskRaises, Terminal
  <2>2. sess' \in [Run -> [status : {"none", "running"} \cup Over, lease : 0..Ttl]]
    BY <1>a, <1>6 DEF TaskRaises, SetStatus, TypeOK, Over
  <2>3. faults' \in 0..MaxFaults BY <1>a, <1>6 DEF TaskRaises, MayRaise, Fault, TypeOK
  <2>4. span' \in [Run -> [Worker -> [pc : {"idle", "event", "lease"},
                                      due : (Ttl - MaxPublish)..Ttl]]]
    BY <1>a, <1>6, UnsaidType DEF TaskRaises, TypeOK
  <2> QED BY <1>a, <1>6, <2>1, <2>2, <2>3, <2>4, GotoType DEF TaskRaises, TypeOK
<1>7. ASSUME NEW r \in Run, NEW w \in Worker, SpanLost(r, w) PROVE TypeOK'
  <2>1. SpanTo(r, w, "idle") BY <1>7 DEF SpanLost
  <2>2. torn' \subseteq Run \X {"finish", "renew", "order"} BY <1>a, <1>7 DEF SpanLost, TypeOK
  <2>3. faults' \in 0..MaxFaults BY <1>a, <1>7 DEF SpanLost, Fault, TypeOK
  <2> QED BY <1>a, <1>7, <2>1, <2>2, <2>3, SpanToType DEF SpanLost, TypeOK
<1>30. ASSUME NEW r \in Run, NEW w \in Worker, SpanInsert(r, w) PROVE TypeOK'
  <2>1. SpanTo(r, w, "lease") BY <1>30 DEF SpanInsert
  <2>2. log' \in [Run -> Seq({"run_created", "span"} \cup Terminal)]
    BY <1>a, <1>30 DEF SpanInsert, Insert, TypeOK
  <2>3. Ttl - span[r][w].due \in 0..Ttl BY <1>a DEF TypeOK
  <2>4. quiet' \in [Run -> 0..Ttl] BY <1>a, <1>30, <2>3 DEF SpanInsert, Insert, TypeOK
  <2> QED BY <1>a, <1>30, <2>1, <2>2, <2>4, SpanToType DEF SpanInsert, TypeOK
<1>31. ASSUME NEW r \in Run, NEW w \in Worker, SpanRenew(r, w) PROVE TypeOK'
  <2>1. SpanTo(r, w, "idle") BY <1>31 DEF SpanRenew
  <2>2. torn' \subseteq Run \X {"finish", "renew", "order"}
    BY <1>a, <1>31 DEF SpanRenew, TypeOK
  <2>3. span[r][w].due \in 0..Ttl BY <1>a DEF TypeOK
  <2>4. sess' \in [Run -> [status : {"none", "running"} \cup Over, lease : 0..Ttl]]
    BY <1>a, <1>31, <2>3 DEF SpanRenew, Renew, TypeOK
  <2> QED BY <1>a, <1>31, <2>1, <2>2, <2>4, SpanToType DEF SpanRenew, TypeOK
<1>8. ASSUME NEW r \in Run, TaskDies(r) PROVE TypeOK'
  <2>1. task[r].kind \in {"none", "run_created"} \cup Terminal
    BY <1>a DEF TypeOK
  <2>2. Goto(r, "end", task[r].kind) BY <1>8 DEF TaskDies
  <2>3. torn' \subseteq Run \X {"finish", "renew", "order"} BY <1>a, <1>8 DEF TaskDies, TypeOK
  <2>4. faults' \in 0..MaxFaults BY <1>a, <1>8 DEF TaskDies, Fault, TypeOK
  <2>5. span' \in [Run -> [Worker -> [pc : {"idle", "event", "lease"},
                                      due : (Ttl - MaxPublish)..Ttl]]]
    BY <1>a, <1>8, UnsaidType DEF TaskDies, TypeOK
  <2> QED BY <1>a, <1>8, <2>1, <2>2, <2>3, <2>4, <2>5, GotoType DEF TaskDies, TypeOK
<1>9. ASSUME NEW r \in Run, TaskEnds(r) PROVE TypeOK'
  <2>1. task[r].kind \in {"none", "run_created"} \cup Terminal
    BY <1>a DEF TypeOK
  <2> QED BY <1>a, <1>9, <2>1, GotoType DEF TaskEnds, TypeOK
<1>10. ASSUME NEW s \in Sweeper, SweepStatus(s) PROVE TypeOK'
  BY <1>a, <1>10
     DEF SweepStatus, SetStatus, Goto, SweepTo, TypeOK, Shape, Over, Terminal, Sweeper
<1>11. ASSUME NEW s \in Sweeper, SweepInsert(s) PROVE TypeOK'
  <2>1. sweep[s].run \in Run BY <1>a, <1>11 DEF SweepInsert, Shape, SweepShape
  <2>2. log' \in [Run -> Seq({"run_created", "span"} \cup Terminal)]
    BY <1>a, <1>11, <2>1 DEF SweepInsert, Insert, TypeOK, Terminal
  <2>3. quiet' \in [Run -> 0..Ttl]
    BY <1>a, <1>11, <2>1 DEF SweepInsert, Insert, TypeOK
  <2>4. sweep' \in [Sweeper -> [pc : {"idle", "next", "event", "lease"},
                               run : Run \cup {NoRun}, todo : SUBSET Run,
                               held : 0..Ttl]]
    BY <1>a, <1>11 DEF SweepInsert, SweepTo, TypeOK
  <2> QED BY <1>a, <1>11, <2>2, <2>3, <2>4 DEF SweepInsert, TypeOK
<1>12. ASSUME NEW s \in Sweeper, SweepRenew(s) PROVE TypeOK'
  <2>1. sweep[s].run \in Run BY <1>a, <1>12 DEF SweepRenew, Shape, SweepShape
  <2>2. sess' \in [Run -> [status : {"none", "running"} \cup Over, lease : 0..Ttl]]
    BY <1>a, <1>12, <2>1 DEF SweepRenew, Renew, TypeOK
  <2>3. sweep' \in [Sweeper -> [pc : {"idle", "next", "event", "lease"},
                               run : Run \cup {NoRun}, todo : SUBSET Run,
                               held : 0..Ttl]]
    BY <1>a, <1>12 DEF SweepRenew, SweepTo, TypeOK
  <2> QED BY <1>a, <1>12, <2>2, <2>3 DEF SweepRenew, TypeOK
<1>13. ASSUME NEW s \in Sweeper, SweepDone(s) PROVE TypeOK'
  BY <1>a, <1>13 DEF SweepDone, SweepTo, TypeOK, Shape, Over, Terminal, Sweeper
<1>14. ASSUME NEW s \in Sweeper, SweepFails(s) PROVE TypeOK'
  <2>1. sweep' \in [Sweeper -> [pc : {"idle", "next", "event", "lease"},
                               run : Run \cup {NoRun}, todo : SUBSET Run,
                               held : 0..Ttl]]
    <3>1. CASE SweepTo(s, "idle", NoRun, {})
      BY <1>a, <3>1 DEF SweepTo, TypeOK
    <3>2. ASSUME NEW left \in SUBSET sweep[s].todo, SweepTo(s, "next", NoRun, left)
           PROVE  sweep' \in [Sweeper -> [pc : {"idle", "next", "event", "lease"},
                                          run : Run \cup {NoRun}, todo : SUBSET Run,
                               held : 0..Ttl]]
      BY <1>a, <3>2 DEF SweepTo, TypeOK
    <3> QED BY <1>14, <3>1, <3>2, SweepFailsEffect
  <2>2. torn' \subseteq Run \X {"finish", "renew", "order"}
    BY <1>a, <1>14 DEF SweepFails, TypeOK, Shape
  <2> QED BY <1>a, <2>1, <2>2, <1>14 DEF SweepFails, Fault, TypeOK
<1>15. ASSUME NEW p \in Replica, Reclaim(p) PROVE TypeOK'
  <2>1. sess' \in [Run -> [status : {"none", "running"} \cup Over, lease : 0..Ttl]]
    BY <1>a, <1>15 DEF Reclaim, TypeOK
  <2>2. Expired \in SUBSET Run /\ <<p, "reaper">> \in Sweeper BY DEF Expired, Sweeper
  <2>3. sweep' \in [Sweeper -> [pc : {"idle", "next", "event", "lease"},
                               run : Run \cup {NoRun}, todo : SUBSET Run,
                               held : 0..Ttl]]
    BY <1>a, <1>15, <2>2 DEF Reclaim, SweepTo, TypeOK
  <2> QED BY <1>a, <1>15, <2>1, <2>3 DEF Reclaim, TypeOK
<1>16. ASSUME NEW p \in Replica, DrainStart(p) PROVE TypeOK'
  BY <1>a, <1>16 DEF DrainStart, Fault, TypeOK, Shape, Over, Terminal, Sweeper
<1>17. ASSUME NEW p \in Replica, DrainSweep(p) PROVE TypeOK'
  BY <1>a, <1>17
     DEF DrainSweep, LiveRuns, SweepTo, TypeOK, Shape, Over, Terminal, Sweeper
<1>18. ASSUME NEW p \in Replica, Crash(p) PROVE TypeOK'
  <2>1. span' \in [Run -> [Worker -> [pc : {"idle", "event", "lease"},
                                      due : (Ttl - MaxPublish)..Ttl]]]
    BY <1>a, <1>18, UnsaidType DEF Crash, Stop, TypeOK
  <2>2. task' \in [Run -> [pc : {"none", "event", "lease", "run", "post", "end"},
                           kind : {"none", "run_created"} \cup Terminal,
                           rep : Replica \cup {"none"}, spans : 0..MaxSpans]]
    BY <1>a, <1>18 DEF Crash, Stop, TypeOK
  <2>3. sweep' \in [Sweeper -> [pc : {"idle", "next", "event", "lease"},
                               run : Run \cup {NoRun}, todo : SUBSET Run,
                               held : 0..Ttl]]
    BY <1>a, <1>18 DEF Crash, Stop, Resting, TypeOK
  <2>4. torn' \subseteq Run \X {"finish", "renew", "order"}
    BY <1>a, <1>18 DEF Crash, Stop, TypeOK
  <2>5. faults' \in 0..MaxFaults BY <1>a, <1>18 DEF Crash, Fault, TypeOK
  <2> QED BY <1>a, <1>18, <2>1, <2>2, <2>3, <2>4, <2>5 DEF Crash, Stop, TypeOK
<1>19. ASSUME NEW p \in Replica, Exit(p) PROVE TypeOK'
  <2>1. span' \in [Run -> [Worker -> [pc : {"idle", "event", "lease"},
                                      due : (Ttl - MaxPublish)..Ttl]]]
    BY <1>a, <1>19, UnsaidType DEF Exit, Stop, TypeOK
  <2>2. task' \in [Run -> [pc : {"none", "event", "lease", "run", "post", "end"},
                           kind : {"none", "run_created"} \cup Terminal,
                           rep : Replica \cup {"none"}, spans : 0..MaxSpans]]
    BY <1>a, <1>19 DEF Exit, Stop, TypeOK
  <2>3. sweep' \in [Sweeper -> [pc : {"idle", "next", "event", "lease"},
                               run : Run \cup {NoRun}, todo : SUBSET Run,
                               held : 0..Ttl]]
    BY <1>a, <1>19 DEF Exit, Stop, Resting, TypeOK
  <2>4. torn' \subseteq Run \X {"finish", "renew", "order"}
    BY <1>a, <1>19 DEF Exit, Stop, TypeOK
  <2>5. faults' \in 0..MaxFaults BY <1>a, <1>19 DEF Exit, Fault, TypeOK
  <2> QED BY <1>a, <1>19, <2>1, <2>2, <2>3, <2>4, <2>5 DEF Exit, Stop, TypeOK
<1>20. ASSUME NEW p \in Replica, Restart(p) PROVE TypeOK'
  BY <1>a, <1>20 DEF Restart, TypeOK, Shape, Over, Terminal, Sweeper
<1>21. ASSUME NEW c \in Client, NEW r \in Run, Connect(c, r) PROVE TypeOK'
  BY <1>a, <1>21 DEF Connect, TypeOK, Shape, Over, Terminal, Sweeper
<1>22. ASSUME NEW c \in Client, NEW r \in Run, SnapshotRow(c, r) PROVE TypeOK'
  BY <1>a, <1>22 DEF SnapshotRow, TypeOK, Shape, Over, Terminal, Sweeper
<1>23. ASSUME NEW c \in Client, SnapshotSeq(c) PROVE TypeOK'
  BY SMTT(30), <1>a, <1>23 DEF SnapshotSeq, ClientTo, TypeOK, Shape, Over, Terminal, Sweeper
<1>24. ASSUME NEW c \in Client, Deliver(c) PROVE TypeOK'
  BY SMTT(30), <1>a, <1>24 DEF Deliver, ClientTo, TypeOK, Shape, Over, Terminal, Sweeper
<1>25. ASSUME NEW c \in Client, Heartbeat(c) PROVE TypeOK'
  BY <1>a, <1>25 DEF Heartbeat, ClientTo, TypeOK, Shape, Over, Terminal, Sweeper
<1>26. ASSUME NEW c \in Client, Drop(c) PROVE TypeOK'
  BY SMTT(30), <1>a, <1>26 DEF Drop, Fault, ClientTo, TypeOK, Shape, Over, Terminal, Sweeper
<1>27. ASSUME NEW c \in Client, Reconnect(c) PROVE TypeOK'
  BY <1>a, <1>27 DEF Reconnect, ClientTo, TypeOK, Shape, Over, Terminal, Sweeper
<1>28. ASSUME Tick PROVE TypeOK'
  <2>1. sess' \in [Run -> [status : {"none", "running"} \cup Over, lease : 0..Ttl]]
    BY <1>a, <1>28 DEF Tick, TypeOK
  <2>2. due' \in [Run -> (Ttl - MaxPublish)..Ttl]
    BY <1>a, <1>28 DEF Tick, TypeOK
  <2>3. span' \in [Run -> [Worker -> [pc : {"idle", "event", "lease"},
                                      due : (Ttl - MaxPublish)..Ttl]]]
    <3>1. ASSUME NEW r \in Run, NEW w \in Worker
          PROVE  (IF w \in Busy(r) THEN span[r][w].due - 1 ELSE span[r][w].due)
                   \in (Ttl - MaxPublish)..Ttl
      BY <1>a, <1>28 DEF Tick, TypeOK
    <3> QED BY <1>a, <1>28, <3>1 DEF Tick, TypeOK
  <2>4. quiet' \in [Run -> 0..Ttl]
    BY <1>a, <1>28 DEF Tick, TypeOK
  <2>5. sweep' \in [Sweeper -> [pc : {"idle", "next", "event", "lease"},
                               run : Run \cup {NoRun}, todo : SUBSET Run,
                               held : 0..Ttl]]
    BY <1>a, <1>28 DEF Tick, TypeOK
  <2> QED BY <1>a, <1>28, <2>1, <2>2, <2>3, <2>4, <2>5 DEF Tick, TypeOK
<1>29. ASSUME UNCHANGED vars PROVE TypeOK'
  BY <1>a, <1>29 DEF vars, TypeOK, Shape, Over, Terminal, Sweeper
<1> QED
  BY <1>1, <1>2, <1>3, <1>4, <1>5, <1>6, <1>7, <1>8, <1>9, <1>10, <1>11, <1>12, <1>13, <1>14,
     <1>15, <1>16, <1>17, <1>18, <1>19, <1>20, <1>21, <1>22, <1>23, <1>24, <1>25, <1>26,
     <1>27, <1>28, <1>29, <1>30, <1>31
     DEF Next, TaskStep, SweepStep, ProcessStep, ClientStep

\* What the two UPDATEs do to the rows.
LEMMA SetStatusEffect ==
  ASSUME TypeOK, NEW r \in Run, NEW v, SetStatus(r, v)
  PROVE  \A y \in Run : /\ sess'[y].status = IF y = r THEN v ELSE sess[y].status
                        /\ sess'[y].lease = sess[y].lease
BY DEF SetStatus, TypeOK

LEMMA RenewEffect ==
  ASSUME TypeOK, NEW r \in Run, NEW left, Renew(r, left)
  PROVE  \A y \in Run : /\ sess'[y].status = sess[y].status
                        /\ sess'[y].lease = IF y = r THEN left ELSE sess[y].lease
BY DEF Renew, TypeOK

\* A sweep touches rows that exist, and ends none that is not over or running.
LEMMA SweepSess ==
  ASSUME TypeOK, Shape, NEW s \in Sweeper, SweepStep(s) \/ SweepFails(s), NEW x \in Run
  PROVE  \/ sess'[x].status = sess[x].status
         \/ sess[x].status # "none" /\ sess'[x].status = "failed"
<1>1. ASSUME SweepStatus(s)
      PROVE  \/ sess'[x].status = sess[x].status
             \/ sess[x].status # "none" /\ sess'[x].status = "failed"
  <2>1. PICK r \in sweep[s].todo : SetStatus(r, "failed") BY <1>1 DEF SweepStatus
  <2>2. r \in Run /\ sess[r].status # "none" BY DEF TypeOK, Shape, SweepShape
  <2> QED BY <2>1, <2>2, SetStatusEffect
<1>2. ASSUME SweepRenew(s) PROVE sess'[x].status = sess[x].status
  <2>1. sweep[s].run \in Run BY <1>2 DEF SweepRenew, Shape, SweepShape
  <2> QED BY <1>2, <2>1, RenewEffect DEF SweepRenew
<1>3. ASSUME SweepInsert(s) \/ SweepDone(s) \/ SweepFails(s) PROVE sess' = sess
  BY <1>3 DEF SweepInsert, SweepDone, SweepFails
<1> QED BY <1>1, <1>2, <1>3 DEF SweepStep

\* A row once written stays; one that is over stays over.
LEMMA StepStatus ==
  ASSUME IInv, [Next]_vars, NEW x \in Run
  PROVE  /\ sess[x].status # "none" => sess'[x].status # "none"
         /\ sess[x].status \in Over => sess'[x].status \in Over
<1> USE RunAssumption DEF Over
<1>a. TypeOK /\ Shape BY DEF IInv
<1>1. ASSUME NEW r \in Run, NEW p \in Replica, Create(r, p)
      PROVE  /\ sess[x].status # "none" => sess'[x].status # "none"
             /\ sess[x].status \in Over => sess'[x].status \in Over
  BY <1>a, <1>1 DEF Create, TypeOK, Shape, RunShape
<1>2. ASSUME NEW r \in Run,
             \/ TaskInsert(r) \/ TaskRenew(r) \/ DriverDone(r) \/ TaskRaises(r)
             \/ TaskDies(r) \/ TaskEnds(r)
             \/ \E w \in Worker : \/ DriverSpan(r, w) \/ SpanInsert(r, w)
                                   \/ SpanRenew(r, w) \/ SpanLost(r, w)
      PROVE  /\ sess[x].status # "none" => sess'[x].status # "none"
             /\ sess[x].status \in Over => sess'[x].status \in Over
  <2>1. \/ sess' = sess \/ SetStatus(r, "done") \/ SetStatus(r, "failed")
        \/ Renew(r, due[r]) \/ \E w \in Worker : Renew(r, span[r][w].due)
    BY <1>2 DEF TaskInsert, TaskRenew, DriverDone, TaskRaises, TaskDies, TaskEnds,
       DriverSpan, SpanInsert, SpanRenew, SpanLost
  <2> QED BY <1>a, <2>1, SetStatusEffect, RenewEffect
<1>3. ASSUME NEW s \in Sweeper, SweepStep(s) \/ SweepFails(s)
      PROVE  /\ sess[x].status # "none" => sess'[x].status # "none"
             /\ sess[x].status \in Over => sess'[x].status \in Over
  BY <1>a, <1>3, SweepSess
<1>4. ASSUME NEW p \in Replica, ProcessStep(p)
      PROVE  /\ sess[x].status # "none" => sess'[x].status # "none"
             /\ sess[x].status \in Over => sess'[x].status \in Over
  <2>1. CASE Reclaim(p) BY <1>a, <2>1 DEF TypeOK, Reclaim, Expired
  <2>2. CASE ~Reclaim(p)
    <3>1. sess' = sess
      BY <1>4, <2>2 DEF ProcessStep, DrainStart, DrainSweep, Crash, Exit, Restart, Stop
    <3> QED BY <3>1
  <2> QED BY <2>1, <2>2
<1>5. ASSUME NEW c \in Client, ClientStep(c) PROVE sess' = sess
  BY <1>5, ClientFrame
<1>6. ASSUME Tick
      PROVE  /\ sess[x].status # "none" => sess'[x].status # "none"
             /\ sess[x].status \in Over => sess'[x].status \in Over
  BY <1>a, <1>6 DEF Tick, TypeOK
<1>7. ASSUME UNCHANGED vars PROVE sess' = sess BY <1>7 DEF vars
<1> QED BY <1>1, <1>2, <1>3, <1>4, <1>5, <1>6, <1>7 DEF Next, TaskStep

\* What a step of r's coroutines leaves alone of another run, and of its shape.
LEMMA RunShapeFrame ==
  ASSUME NEW x \in Run, RunShape(x), task'[x] = task[x], span'[x] = span[x],
         sess[x].status # "none" => sess'[x].status # "none",
         sess[x].status \in Over => sess'[x].status \in Over,
         task[x].pc = "none" => sess'[x].status = sess[x].status
  PROVE  RunShape(x)'
<1>1. /\ Publishing(x)' = Publishing(x) /\ Alive(x)' = Alive(x) /\ Busy(x)' = Busy(x)
  BY DEF Publishing, Alive, Busy
<1> QED BY <1>1 DEF RunShape

\* Every step keeps the shape of a run's coroutines.
LEMMA StepRunShape == IInv /\ [Next]_vars => \A x \in Run : RunShape(x)'
<1> SUFFICES ASSUME IInv, [Next]_vars, NEW x \in Run PROVE RunShape(x)'
  OBVIOUS
<1> USE RunAssumption
<1>a. TypeOK /\ Shape /\ RunShape(x) BY DEF IInv, Shape
<1>b. /\ sess[x].status # "none" => sess'[x].status # "none"
      /\ sess[x].status \in Over => sess'[x].status \in Over
  BY StepStatus
<1>1. ASSUME NEW r \in Run, NEW p \in Replica, Create(r, p) PROVE RunShape(x)'
  <2>1. CASE x = r
    <3>1. span'[r] = span[r] /\ Busy(r) = {}
      BY <1>a, <1>1, <2>1 DEF Create, RunShape
    <3>2. task'[r].pc = "event" /\ task'[r].kind = "run_created" /\ sess'[r].status = "running"
      BY <1>a, <1>1 DEF Create, TypeOK
    <3> QED BY <2>1, <3>1, <3>2 DEF RunShape, Publishing, Alive, Busy
  <2>2. CASE x # r
    BY <1>a, <1>b, <1>1, <2>2, RunShapeFrame DEF Create, TypeOK
  <2> QED BY <2>1, <2>2
<1>2. ASSUME NEW r \in Run, TaskInsert(r) PROVE RunShape(x)'
  <2>1. CASE x = r
    BY <1>a, <1>b, <1>2, <2>1
       DEF TaskInsert, Goto, TypeOK, RunShape, Publishing, Alive, Busy
  <2>2. CASE x # r
    BY <1>a, <1>b, <1>2, <2>2, RunShapeFrame DEF TaskInsert, Goto, TypeOK
  <2> QED BY <2>1, <2>2
<1>3. ASSUME NEW r \in Run, TaskRenew(r) PROVE RunShape(x)'
  <2>1. CASE x = r
    BY <1>a, <1>b, <1>3, <2>1
       DEF TaskRenew, Goto, TypeOK, RunShape, Publishing, Alive, Busy, Renew, After, Terminal
  <2>2. CASE x # r
    BY <1>a, <1>b, <1>3, <2>2, RunShapeFrame DEF TaskRenew, Goto, Renew, TypeOK
  <2> QED BY <2>1, <2>2
<1>4. ASSUME NEW r \in Run, DriverDone(r) PROVE RunShape(x)'
  <2>1. CASE x = r
    BY <1>a, <1>b, <1>4, <2>1
       DEF DriverDone, Goto, TypeOK, RunShape, Publishing, Alive, Busy, SetStatus, Over
  <2>2. CASE x # r
    BY <1>a, <1>b, <1>4, <2>2, RunShapeFrame DEF DriverDone, Goto, SetStatus, TypeOK
  <2> QED BY <2>1, <2>2
<1>5. ASSUME NEW r \in Run, TaskRaises(r) PROVE RunShape(x)'
  <2>1. CASE x = r
    BY <1>a, <1>b, <1>5, <2>1
       DEF TaskRaises, Goto, TypeOK, RunShape, Publishing, Alive, Busy, SetStatus, Over, Unsaid
  <2>2. CASE x # r
    BY <1>a, <1>b, <1>5, <2>2, RunShapeFrame DEF TaskRaises, Goto, SetStatus, TypeOK
  <2> QED BY <2>1, <2>2
<1>6. ASSUME NEW r \in Run, TaskDies(r) PROVE RunShape(x)'
  <2>1. CASE x = r
    BY <1>a, <1>b, <1>6, <2>1
       DEF TaskDies, Goto, TypeOK, RunShape, Publishing, Alive, Busy, Unsaid
  <2>2. CASE x # r
    BY <1>a, <1>b, <1>6, <2>2, RunShapeFrame DEF TaskDies, Goto, TypeOK
  <2> QED BY <2>1, <2>2
<1>7. ASSUME NEW r \in Run, TaskEnds(r) PROVE RunShape(x)'
  <2>1. CASE x = r
    BY <1>a, <1>b, <1>7, <2>1
       DEF TaskEnds, Goto, TypeOK, RunShape, Publishing, Alive, Busy
  <2>2. CASE x # r
    BY <1>a, <1>b, <1>7, <2>2, RunShapeFrame DEF TaskEnds, Goto, TypeOK
  <2> QED BY <2>1, <2>2
<1>8. ASSUME NEW r \in Run, NEW w \in Worker, DriverSpan(r, w) PROVE RunShape(x)'
  <2>1. SpanTo(r, w, "event") BY <1>8 DEF DriverSpan
  <2>2. CASE x = r
    <3>1. w \in Busy(r) => task[r].pc = "run" BY <1>a, <2>2 DEF RunShape
    <3>2. task[r].pc = "run" BY <1>8, <3>1 DEF DriverSpan, Busy
    <3>3. task'[r].pc = "run" BY <1>a, <1>8, <3>2 DEF DriverSpan, TypeOK
    <3> QED BY <1>a, <1>b, <2>2, <3>2, <3>3 DEF RunShape, Publishing, Alive
  <2>3. CASE x # r
    <3>1. span'[x] = span[x] BY <1>a, <2>1, <2>3, SpanToType
    <3> QED BY <1>a, <1>b, <1>8, <2>3, <3>1, RunShapeFrame DEF DriverSpan, TypeOK
  <2> QED BY <2>2, <2>3
<1>9. ASSUME NEW r \in Run, NEW w \in Worker, SpanInsert(r, w) PROVE RunShape(x)'
  <2>1. SpanTo(r, w, "lease") BY <1>9 DEF SpanInsert
  <2>2. CASE x = r
    <3>1. w \in Busy(r) => task[r].pc = "run" BY <1>a, <2>2 DEF RunShape
    <3>2. task[r].pc = "run" BY <1>9, <3>1 DEF SpanInsert, Busy
    <3>3. task'[r].pc = "run" BY <1>a, <1>9, <3>2 DEF SpanInsert, TypeOK
    <3> QED BY <1>a, <1>b, <2>2, <3>2, <3>3 DEF RunShape, Publishing, Alive
  <2>3. CASE x # r
    <3>1. span'[x] = span[x] BY <1>a, <2>1, <2>3, SpanToType
    <3> QED BY <1>a, <1>b, <1>9, <2>3, <3>1, RunShapeFrame DEF SpanInsert, TypeOK
  <2> QED BY <2>2, <2>3
<1>10. ASSUME NEW r \in Run, NEW w \in Worker, SpanRenew(r, w) PROVE RunShape(x)'
  <2>1. SpanTo(r, w, "idle") BY <1>10 DEF SpanRenew
  <2>2. CASE x = r
    <3>1. w \in Busy(r) => task[r].pc = "run" BY <1>a, <2>2 DEF RunShape
    <3>2. task[r].pc = "run" BY <1>10, <3>1 DEF SpanRenew, Busy
    <3>3. task'[r].pc = "run" BY <1>a, <1>10, <3>2 DEF SpanRenew, TypeOK
    <3> QED BY <1>a, <1>b, <2>2, <3>2, <3>3 DEF RunShape, Publishing, Alive
  <2>3. CASE x # r
    <3>1. span'[x] = span[x] BY <1>a, <2>1, <2>3, SpanToType
    <3> QED BY <1>a, <1>b, <1>10, <2>3, <3>1, RunShapeFrame DEF SpanRenew, Renew, TypeOK
  <2> QED BY <2>2, <2>3
<1>11. ASSUME NEW r \in Run, NEW w \in Worker, SpanLost(r, w) PROVE RunShape(x)'
  <2>1. SpanTo(r, w, "idle") BY <1>11 DEF SpanLost
  <2>2. CASE x = r
    <3>1. w \in Busy(r) => task[r].pc = "run" BY <1>a, <2>2 DEF RunShape
    <3>2. task[r].pc = "run" BY <1>11, <3>1 DEF SpanLost, Busy
    <3>3. task'[r].pc = "run" BY <1>a, <1>11, <3>2 DEF SpanLost, TypeOK
    <3> QED BY <1>a, <1>b, <2>2, <3>2, <3>3 DEF RunShape, Publishing, Alive
  <2>3. CASE x # r
    <3>1. span'[x] = span[x] BY <1>a, <2>1, <2>3, SpanToType
    <3> QED BY <1>a, <1>b, <1>11, <2>3, <3>1, RunShapeFrame DEF SpanLost, TypeOK
  <2> QED BY <2>2, <2>3
<1>12. ASSUME NEW s \in Sweeper, SweepStep(s) \/ SweepFails(s) PROVE RunShape(x)'
  <2>1. UNCHANGED <<task, span>>
    BY <1>12 DEF SweepStep, SweepStatus, SweepInsert, SweepRenew, SweepDone, SweepFails
  <2>2. task[x].pc = "none" => sess'[x].status = sess[x].status
    BY <1>a, <1>12, SweepSess DEF RunShape
  <2> QED BY <1>a, <1>b, <2>1, <2>2, RunShapeFrame
<1>13. ASSUME NEW p \in Replica, Reclaim(p) PROVE RunShape(x)'
  <2>1. UNCHANGED <<task, span>> BY <1>13 DEF Reclaim
  <2>2. task[x].pc = "none" => sess'[x].status = sess[x].status
    BY <1>a, <1>13 DEF Reclaim, Expired, RunShape
  <2> QED BY <1>a, <1>b, <2>1, <2>2, RunShapeFrame
<1>14. ASSUME NEW p \in Replica, DrainStart(p) \/ DrainSweep(p) \/ Restart(p)
       PROVE  RunShape(x)'
  <2>1. UNCHANGED <<sess, task, span>> BY <1>14 DEF DrainStart, DrainSweep, Restart
  <2> QED BY <1>a, <2>1, RunShapeFrame
<1>15. ASSUME NEW p \in Replica, Crash(p) \/ Exit(p) PROVE RunShape(x)'
  <2>1. sess' = sess BY <1>15 DEF Crash, Exit, Stop
  <2>2. CASE task[x].rep = p
    <3>1. task'[x].pc = "end" /\ span'[x] = Unsaid
      BY <1>15, <2>2 DEF Crash, Exit, Stop
    <3> QED BY <3>1 DEF RunShape, Publishing, Alive, Busy, Unsaid
  <2>3. CASE task[x].rep # p
    <3>1. task'[x] = task[x] /\ span'[x] = span[x]
      BY <1>15, <2>3 DEF Crash, Exit, Stop
    <3> QED BY <1>a, <2>1, <3>1, RunShapeFrame
  <2> QED BY <2>2, <2>3
<1>16. ASSUME NEW c \in Client, ClientStep(c) PROVE RunShape(x)'
  BY <1>a, <1>16, ClientFrame, RunShapeFrame
<1>17. ASSUME Tick PROVE RunShape(x)'
  <2>1. task' = task /\ sess'[x].status = sess[x].status BY <1>17 DEF Tick
  <2>2. \A w \in Worker : span'[x][w].pc = span[x][w].pc BY <1>17 DEF Tick
  <2> QED BY <1>a, <2>1, <2>2 DEF RunShape, Publishing, Alive, Busy
<1>18. ASSUME UNCHANGED vars PROVE RunShape(x)'
  BY <1>a, <1>18, RunShapeFrame DEF vars
<1> QED
  BY <1>1, <1>2, <1>3, <1>4, <1>5, <1>6, <1>7, <1>8, <1>9, <1>10, <1>11, <1>12, <1>13, <1>14,
     <1>15, <1>16, <1>17, <1>18
     DEF Next, TaskStep, ProcessStep

\* Every step keeps the shape of a sweeper.
LEMMA StepSweepShape == IInv /\ [Next]_vars => \A t \in Sweeper : SweepShape(t)'
<1> SUFFICES ASSUME IInv, [Next]_vars, NEW t \in Sweeper PROVE SweepShape(t)'
  OBVIOUS
<1> USE RunAssumption
<1>a. TypeOK /\ SweepShape(t) BY DEF IInv, Shape
<1>b. \A x \in Run : /\ sess[x].status # "none" => sess'[x].status # "none"
                     /\ sess[x].status \in Over => sess'[x].status \in Over
  BY StepStatus
<1>c. sweep[t].todo \subseteq Run BY <1>a DEF TypeOK
<1>d. ASSUME UNCHANGED <<sweep[t].pc, sweep[t].run, sweep[t].todo>> PROVE SweepShape(t)'
  BY <1>a, <1>b, <1>c, <1>d DEF SweepShape
<1>1. ASSUME NEW r \in Run, TaskStep(r) PROVE SweepShape(t)'
  <2>1. sweep' = sweep
    BY <1>1 DEF TaskStep, Create, TaskInsert, TaskRenew, DriverDone, TaskRaises, TaskDies,
       TaskEnds, DriverSpan, SpanInsert, SpanRenew, SpanLost
  <2> QED BY <1>d, <2>1
<1>2. ASSUME NEW s \in Sweeper, SweepStatus(s) PROVE SweepShape(t)'
  <2>1. PICK r \in sweep[s].todo : SetStatus(r, "failed")
                                  /\ SweepTo(s, "event", r, sweep[s].todo \ {r})
    BY <1>2 DEF SweepStatus
  <2>2. CASE t = s
    <3>1. /\ sweep'[s].pc = "event" /\ sweep'[s].run = r /\ r \in Run
          /\ sweep'[s].todo = sweep[s].todo \ {r}
      BY <1>a, <2>1, <1>c, <2>2 DEF SweepTo, TypeOK
    <3>2. sess'[r].status \in Over BY <1>a, <2>1, <3>1 DEF SetStatus, TypeOK, Over
    <3> QED BY <1>a, <1>b, <1>c, <2>2, <3>1, <3>2 DEF SweepShape
  <2>3. CASE t # s
    <3>1. sweep'[t] = sweep[t] BY <1>a, <2>1, <2>3 DEF SweepTo, TypeOK
    <3> QED BY <1>d, <3>1
  <2> QED BY <2>2, <2>3
<1>3. ASSUME NEW s \in Sweeper, SweepInsert(s) PROVE SweepShape(t)'
  <2>1. SweepTo(s, "lease", sweep[s].run, sweep[s].todo) BY <1>3 DEF SweepInsert
  <2>2. CASE t = s
    <3>1. /\ sweep'[s].pc = "lease" /\ sweep'[s].run = sweep[s].run
          /\ sweep'[s].todo = sweep[s].todo /\ sweep[s].pc = "event"
      BY <1>a, <1>3, <2>1 DEF SweepInsert, SweepTo, TypeOK
    <3> QED BY <1>a, <1>b, <1>c, <2>2, <3>1 DEF SweepShape
  <2>3. CASE t # s
    <3>1. sweep'[t] = sweep[t] BY <1>a, <2>1, <2>3 DEF SweepTo, TypeOK
    <3> QED BY <1>d, <3>1
  <2> QED BY <2>2, <2>3
<1>e. ASSUME NEW s \in Sweeper, NEW pc \in {"idle", "next"}, NEW left \in SUBSET sweep[s].todo,
             SweepTo(s, pc, NoRun, left), pc = "idle" => left = {}
      PROVE  SweepShape(t)'
  <2>1. CASE t = s
    <3>1. sweep'[s].pc = pc /\ sweep'[s].run = NoRun /\ sweep'[s].todo = left
      BY <1>a, <1>e DEF SweepTo, TypeOK
    <3> QED BY <1>a, <1>b, <1>c, <1>e, <2>1, <3>1 DEF SweepShape
  <2>2. CASE t # s
    <3>1. sweep'[t] = sweep[t] BY <1>a, <1>e, <2>2 DEF SweepTo, TypeOK
    <3> QED BY <1>d, <3>1
  <2> QED BY <2>1, <2>2
<1>4. ASSUME NEW s \in Sweeper, SweepRenew(s) PROVE SweepShape(t)'
  BY <1>4, <1>e DEF SweepRenew
<1>5. ASSUME NEW s \in Sweeper, SweepDone(s) PROVE SweepShape(t)'
  BY <1>5, <1>e DEF SweepDone
<1>6. ASSUME NEW s \in Sweeper, SweepFails(s) PROVE SweepShape(t)'
  BY <1>6, <1>e, SweepFailsEffect
<1>7. ASSUME NEW p \in Replica, Reclaim(p) PROVE SweepShape(t)'
  <2>1. SweepTo(<<p, "reaper">>, "next", NoRun, Expired) BY <1>7 DEF Reclaim
  <2>2. CASE t = <<p, "reaper">>
    <3>1. sweep'[t].pc = "next" /\ sweep'[t].run = NoRun /\ sweep'[t].todo = Expired
      BY <1>a, <2>1, <2>2 DEF SweepTo, TypeOK
    <3>2. \A r \in Expired : sess[r].status # "none" /\ r \in Run BY DEF Expired
    <3> QED BY <1>b, <3>1, <3>2 DEF SweepShape
  <2>3. CASE t # <<p, "reaper">>
    <3>1. sweep'[t] = sweep[t] BY <1>a, <2>1, <2>3 DEF SweepTo, TypeOK
    <3> QED BY <1>d, <3>1
  <2> QED BY <2>2, <2>3
<1>8. ASSUME NEW p \in Replica, DrainSweep(p) PROVE SweepShape(t)'
  <2>1. SweepTo(<<p, "drain">>, "next", NoRun, LiveRuns(p)) BY <1>8 DEF DrainSweep
  <2>2. CASE t = <<p, "drain">>
    <3>1. sweep'[t].pc = "next" /\ sweep'[t].run = NoRun /\ sweep'[t].todo = LiveRuns(p)
      BY <1>a, <2>1, <2>2 DEF SweepTo, TypeOK
    <3>2. \A r \in Run : RunShape(r) BY DEF IInv, Shape
    <3>3. \A r \in LiveRuns(p) : sess[r].status # "none" /\ r \in Run
      BY <3>2 DEF LiveRuns, RunShape, Alive
    <3> QED BY <1>b, <3>1, <3>3 DEF SweepShape
  <2>3. CASE t # <<p, "drain">>
    <3>1. sweep'[t] = sweep[t] BY <1>a, <2>1, <2>3 DEF SweepTo, TypeOK
    <3> QED BY <1>d, <3>1
  <2> QED BY <2>2, <2>3
<1>9. ASSUME NEW p \in Replica, DrainStart(p) \/ Restart(p) PROVE SweepShape(t)'
  BY <1>9, <1>d DEF DrainStart, Restart
<1>10. ASSUME NEW p \in Replica, Crash(p) \/ Exit(p) PROVE SweepShape(t)'
  <2>1. CASE t[1] = p
    BY <1>10, <2>1 DEF Crash, Exit, Stop, Resting, SweepShape
  <2>2. CASE t[1] # p
    BY <1>10, <1>d, <2>2 DEF Crash, Exit, Stop
  <2> QED BY <2>1, <2>2
<1>11. ASSUME NEW c \in Client, ClientStep(c) PROVE SweepShape(t)'
  BY <1>11, <1>d, ClientFrame
<1>12. ASSUME Tick PROVE SweepShape(t)'
  BY <1>12, <1>d DEF Tick
<1>13. ASSUME UNCHANGED vars PROVE SweepShape(t)'
  BY <1>13, <1>d DEF vars
<1> QED
  BY <1>1, <1>2, <1>3, <1>4, <1>5, <1>6, <1>7, <1>8, <1>9, <1>10, <1>11, <1>12, <1>13
     DEF Next, SweepStep, ProcessStep

\* Every step keeps both.
LEMMA StepShape == IInv /\ [Next]_vars => Shape'
BY StepRunShape, StepSweepShape DEF Shape

\* The lease of a run that no statement touches.
LEMMA LeaseFrame ==
  ASSUME NEW x \in Run, LeaseOk(x), task'[x] = task[x], span'[x] = span[x],
         due'[x] = due[x], quiet'[x] = quiet[x],
         sess'[x] = sess[x] \/ sess'[x].status # "running",
         <<x, "renew">> \in torn => <<x, "renew">> \in torn',
         <<x, "order">> \in torn => <<x, "order">> \in torn'
  PROVE  LeaseOk(x)'
<1>1. Publishing(x)' = Publishing(x) /\ Alive(x)' = Alive(x) BY DEF Publishing, Alive
<1>2. Newest(x, due[x])' <=> Newest(x, due[x]) BY DEF Newest
<1>3. Renewing(x) => Renewing(x)' BY DEF Renewing, Newest
<1> QED BY <1>1, <1>2, <1>3 DEF LeaseOk

\* Every step keeps the lease of live runs ahead of their silence.
LEMMA StepLease == IInv /\ [Next]_vars => LeaseInv'
<1> SUFFICES ASSUME IInv, [Next]_vars, NEW x \in Run PROVE LeaseOk(x)'
  BY DEF LeaseInv
<1> USE RunAssumption
<1>a. TypeOK /\ Shape /\ RunShape(x) /\ LeaseOk(x) BY DEF IInv, Shape, LeaseInv
<1>t. /\ quiet[x] \in 0..Ttl /\ due[x] \in (Ttl - MaxPublish)..Ttl /\ sess[x].lease \in 0..Ttl
      /\ \A w \in Worker : span[x][w].due \in (Ttl - MaxPublish)..Ttl
  BY <1>a DEF TypeOK
<1>1. ASSUME NEW r \in Run, NEW p \in Replica, Create(r, p) PROVE LeaseOk(x)'
  <2>1. CASE x = r
    <3>1. sess'[r].lease = Ttl /\ quiet'[r] = 0 /\ due'[r] = Ttl
      BY <1>a, <1>1 DEF Create, TypeOK
    <3> QED BY <2>1, <3>1 DEF LeaseOk, Newest
  <2>2. CASE x # r
    BY <1>a, <1>1, <2>2, LeaseFrame DEF Create, TypeOK
  <2> QED BY <2>1, <2>2
<1>2. ASSUME NEW r \in Run, TaskInsert(r) PROVE LeaseOk(x)'
  <2>1. CASE x = r
    <3> SUFFICES ASSUME sess[x].status = "running", Alive(x)
                 PROVE  Renewing(x)' /\ Newest(x, due[x])'
      <4>1. sess' = sess /\ (Alive(x)' => Alive(x))
        BY <1>2, <2>1 DEF TaskInsert, Alive
      <4> QED BY <4>1 DEF LeaseOk
    <3>1. due[x] + quiet[x] >= Ttl
      BY <1>a, <1>2, <2>1 DEF LeaseOk, TaskInsert, Publishing, Newest
    <3>2. quiet'[x] = IF Ttl - due[x] < quiet[x] THEN Ttl - due[x] ELSE quiet[x]
      BY <1>a, <1>2, <2>1 DEF TaskInsert, Insert, TypeOK
    <3>3. task'[x].pc = "lease" /\ due'[x] = due[x]
      BY <1>a, <1>2, <2>1 DEF TaskInsert, Goto, TypeOK
    <3> QED BY <1>t, <3>1, <3>2, <3>3 DEF Renewing, Newest
  <2>2. CASE x # r
    BY <1>a, <1>2, <2>2, LeaseFrame DEF TaskInsert, Insert, Goto, TypeOK
  <2> QED BY <2>1, <2>2
<1>3. ASSUME NEW r \in Run, TaskRenew(r) PROVE LeaseOk(x)'
  <2>1. CASE x = r
    <3> SUFFICES ASSUME sess'[x].status = "running", Alive(x)'
                 PROVE  /\ ~Publishing(x)' /\ sess'[x].lease + quiet'[x] >= Ttl
                        /\ sess'[x].lease + quiet'[x] >= Ttl - MaxPublish
      BY DEF LeaseOk
    <3>1. sess'[x].lease = due[x] /\ sess[x].status = "running" /\ quiet' = quiet
      BY <1>a, <1>3, <2>1, RenewEffect DEF TaskRenew
    <3>2. task[x].pc = "lease" /\ task'[x].pc = After(task[x].kind)
      BY <1>a, <1>3, <2>1 DEF TaskRenew, Goto, TypeOK
    <3>3. task[x].kind = "run_created"
      BY <1>a, <3>1, <3>2 DEF RunShape, Publishing, Over
    <3>4. due[x] + quiet[x] >= Ttl
      BY <1>a, <3>1, <3>2 DEF LeaseOk, Publishing, Newest, Alive
    <3>5. task'[x].pc = "run" BY <3>2, <3>3 DEF After
    <3> QED BY <1>t, <3>1, <3>4, <3>5 DEF Publishing
  <2>2. CASE x # r
    <3>1. sess'[x] = sess[x] BY <1>a, <1>3, <2>2 DEF TaskRenew, Renew, TypeOK
    <3> QED BY <1>a, <1>3, <2>2, <3>1, LeaseFrame DEF TaskRenew, Goto, TypeOK
  <2> QED BY <2>1, <2>2
<1>4. ASSUME NEW r \in Run, DriverDone(r) \/ TaskRaises(r) PROVE LeaseOk(x)'
  <2>1. SetStatus(r, "done") \/ SetStatus(r, "failed") BY <1>4 DEF DriverDone, TaskRaises
  <2>2. CASE x = r
    <3>1. sess'[x].status # "running" BY <1>a, <2>1, <2>2, SetStatusEffect
    <3> QED BY <3>1 DEF LeaseOk
  <2>3. CASE x # r
    <3>1. sess'[x] = sess[x] BY <1>a, <2>1, <2>3 DEF SetStatus, TypeOK
    <3>2. task'[x] = task[x] /\ span'[x] = span[x] /\ due'[x] = due[x]
          /\ quiet' = quiet /\ torn' = torn
      BY <1>a, <1>4, <2>3 DEF DriverDone, TaskRaises, Goto, TypeOK
    <3> QED BY <1>a, <3>1, <3>2, LeaseFrame
  <2> QED BY <2>2, <2>3
<1>5. ASSUME NEW r \in Run, TaskDies(r) \/ TaskEnds(r) PROVE LeaseOk(x)'
  <2>1. CASE x = r
    <3>1. task'[x].pc = "end" BY <1>a, <1>5, <2>1 DEF TaskDies, TaskEnds, Goto, TypeOK
    <3> QED BY <3>1 DEF LeaseOk, Alive
  <2>2. CASE x # r
    <3>1. task'[x] = task[x] /\ span'[x] = span[x] /\ due'[x] = due[x]
          /\ sess' = sess /\ quiet' = quiet /\ torn \subseteq torn'
      BY <1>a, <1>5, <2>2 DEF TaskDies, TaskEnds, Goto, TypeOK
    <3> QED BY <1>a, <3>1, LeaseFrame
  <2> QED BY <2>1, <2>2
<1>6. ASSUME NEW r \in Run, NEW w \in Worker, DriverSpan(r, w) PROVE LeaseOk(x)'
  <2>1. SpanTo(r, w, "event") BY <1>6 DEF DriverSpan
  <2>2. CASE x = r
    <3>1. task[x].pc = "run" /\ task'[x].pc = "run" /\ span[x][w].pc = "idle"
      BY <1>a, <1>6, <2>2 DEF DriverSpan, TypeOK
    <3>2. \A v \in Worker : span[x][v].pc = "lease" => span'[x][v] = span[x][v]
      BY <1>a, <2>1, <2>2, <3>1, SpanToType
    <3>3. sess' = sess /\ due' = due /\ quiet' = quiet /\ torn' = torn
      BY <1>6 DEF DriverSpan
    <3>4. Renewing(x) => Renewing(x)' BY <3>1, <3>2, <3>3 DEF Renewing, Newest
    <3> QED BY <1>a, <3>1, <3>3, <3>4 DEF LeaseOk, Alive, Publishing
  <2>3. CASE x # r
    <3>1. span'[x] = span[x] BY <1>a, <2>1, <2>3, SpanToType
    <3> QED BY <1>a, <1>6, <2>3, <3>1, LeaseFrame DEF DriverSpan, TypeOK
  <2> QED BY <2>2, <2>3
<1>7. ASSUME NEW r \in Run, NEW w \in Worker, SpanInsert(r, w) PROVE LeaseOk(x)'
  <2>1. SpanTo(r, w, "lease") BY <1>7 DEF SpanInsert
  <2>2. CASE x = r
    <3>0. /\ span'[r][w] = [pc |-> "lease", due |-> span[r][w].due]
          /\ \A v \in Worker \ {w} : span'[r][v] = span[r][v]
      BY <1>a, <2>1, SpanToType
    <3>1. /\ span'[x][w].pc = "lease" /\ span'[x][w].due = span[x][w].due
          /\ \A v \in Worker \ {w} : span'[x][v] = span[x][v]
      BY <2>2, <3>0
    <3>2. /\ sess' = sess /\ due' = due /\ task' = task /\ torn' = torn
          /\ span[x][w].pc = "event"
      BY <1>7, <2>2 DEF SpanInsert
    <3>3. ~Publishing(x) BY <1>a, <3>2 DEF RunShape, Publishing, Busy
    <3>4. quiet'[x] = IF Ttl - span[x][w].due < quiet[x] THEN Ttl - span[x][w].due
                                                         ELSE quiet[x]
      BY <1>a, <1>7, <2>2 DEF SpanInsert, Insert, TypeOK
    <3>5. CASE Ttl - span[x][w].due < quiet[x]
      <4>1. Renewing(x)' BY <1>t, <3>1, <3>4, <3>5 DEF Renewing, Newest
      <4> QED BY <3>2, <3>3, <4>1 DEF LeaseOk, Publishing
    <3>6. CASE ~(Ttl - span[x][w].due < quiet[x])
      <4>1. quiet'[x] = quiet[x] BY <3>4, <3>6
      <4>2. Renewing(x) => Renewing(x)'
        BY <3>1, <3>2, <4>1 DEF Renewing, Newest
      <4> QED BY <1>a, <3>2, <3>3, <4>1, <4>2 DEF LeaseOk, Publishing, Alive
    <3> QED BY <3>5, <3>6
  <2>3. CASE x # r
    <3>1. span'[x] = span[x] BY <1>a, <2>1, <2>3, SpanToType
    <3> QED BY <1>a, <1>7, <2>3, <3>1, LeaseFrame DEF SpanInsert, Insert, TypeOK
  <2> QED BY <2>2, <2>3
<1>8. ASSUME NEW r \in Run, NEW w \in Worker, SpanRenew(r, w) PROVE LeaseOk(x)'
  <2>1. SpanTo(r, w, "idle") BY <1>8 DEF SpanRenew
  <2>2. CASE x = r
    <3>0. /\ span'[r][w] = [pc |-> "idle", due |-> Ttl]
          /\ \A v \in Worker \ {w} : span'[r][v] = span[r][v]
      BY <1>a, <2>1, SpanToType
    <3>1. /\ span'[x][w].pc = "idle"
          /\ \A v \in Worker \ {w} : span'[x][v] = span[x][v]
      BY <2>2, <3>0
    <3>2. /\ due' = due /\ task' = task /\ quiet' = quiet
          /\ span[x][w].pc = "lease"
      BY <1>8, <2>2 DEF SpanRenew
    <3>3. ~Publishing(x) BY <1>a, <3>2 DEF RunShape, Publishing, Busy
    <3>4. sess'[x].lease = span[x][w].due /\ sess'[x].status = sess[x].status
      BY <1>a, <1>8, <2>2, RenewEffect DEF SpanRenew
    <3>5. CASE Newest(x, span[x][w].due)
      <4>1. sess'[x].lease + quiet'[x] >= Ttl BY <3>2, <3>4, <3>5 DEF Newest
      <4> QED BY <1>t, <3>2, <3>3, <3>4, <4>1 DEF LeaseOk, Publishing
    <3>6. CASE ~Newest(x, span[x][w].due)
      <4>1. sess'[x].lease + quiet'[x] >= Ttl - MaxPublish BY <1>t, <3>2, <3>4
      <4>2. torn \subseteq torn' /\ (span[x][w].due < sess[x].lease => <<x, "order">> \in torn')
        BY <1>8, <2>2, <3>6 DEF SpanRenew
      <4>3. Renewing(x) => Renewing(x)'
        BY <3>1, <3>2, <3>3, <3>6 DEF Renewing, Publishing, Newest
      <4>4. sess[x].lease + quiet[x] >= Ttl => span[x][w].due < sess[x].lease
        BY <1>t, <3>6 DEF Newest
      <4> QED BY <1>a, <3>2, <3>3, <3>4, <4>1, <4>2, <4>3, <4>4 DEF LeaseOk, Publishing, Alive
    <3> QED BY <3>5, <3>6
  <2>3. CASE x # r
    <3>1. span'[x] = span[x] BY <1>a, <2>1, <2>3, SpanToType
    <3>2. sess'[x] = sess[x] BY <1>a, <1>8, <2>3 DEF SpanRenew, Renew, TypeOK
    <3>3. \A k : <<x, k>> \in torn => <<x, k>> \in torn' BY <1>8, <2>3 DEF SpanRenew
    <3> QED BY <1>a, <1>8, <2>3, <3>1, <3>2, <3>3, LeaseFrame DEF SpanRenew
  <2> QED BY <2>2, <2>3
<1>9. ASSUME NEW r \in Run, NEW w \in Worker, SpanLost(r, w) PROVE LeaseOk(x)'
  <2>1. SpanTo(r, w, "idle") BY <1>9 DEF SpanLost
  <2>2. CASE x = r
    <3>0. /\ span'[r][w] = [pc |-> "idle", due |-> Ttl]
          /\ \A v \in Worker \ {w} : span'[r][v] = span[r][v]
      BY <1>a, <2>1, SpanToType
    <3>1. /\ span'[x][w].pc = "idle"
          /\ \A v \in Worker \ {w} : span'[x][v] = span[x][v]
      BY <2>2, <3>0
    <3>2. /\ sess' = sess /\ due' = due /\ task' = task /\ quiet' = quiet
          /\ torn \subseteq torn'
          /\ span[x][w].pc = "lease" /\ Newest(x, span[x][w].due) => <<x, "renew">> \in torn'
      BY <1>9, <2>2 DEF SpanLost
    <3>3. CASE span[x][w].pc = "lease" /\ Newest(x, span[x][w].due)
      <4>1. ~Publishing(x) BY <1>a, <3>3 DEF RunShape, Publishing, Busy
      <4> QED BY <3>2, <3>3, <4>1 DEF LeaseOk, Publishing
    <3>4. CASE ~(span[x][w].pc = "lease" /\ Newest(x, span[x][w].due))
      <4>1. Renewing(x) => Renewing(x)' BY <3>1, <3>2, <3>4 DEF Renewing, Newest
      <4> QED BY <1>a, <3>2, <4>1 DEF LeaseOk, Publishing, Alive, Newest
    <3> QED BY <3>3, <3>4
  <2>3. CASE x # r
    <3>1. span'[x] = span[x] BY <1>a, <2>1, <2>3, SpanToType
    <3>2. torn \subseteq torn' BY <1>9 DEF SpanLost
    <3> QED BY <1>a, <1>9, <3>1, <3>2, LeaseFrame DEF SpanLost
  <2> QED BY <2>2, <2>3
<1>10. ASSUME NEW s \in Sweeper, SweepStatus(s) PROVE LeaseOk(x)'
  <2>1. PICK r \in sweep[s].todo : SetStatus(r, "failed") BY <1>10 DEF SweepStatus
  <2>2. r \in Run BY <1>a DEF TypeOK
  <2>3. sess'[x] = sess[x] \/ sess'[x].status # "running"
    BY <1>a, <2>1, <2>2 DEF SetStatus, TypeOK
  <2> QED BY <1>a, <1>10, <2>3, LeaseFrame DEF SweepStatus
<1>11. ASSUME NEW s \in Sweeper, SweepInsert(s) PROVE LeaseOk(x)'
  <2>1. sweep[s].run \in Run /\ sess[sweep[s].run].status # "running" /\ sess' = sess
    BY <1>a, <1>11 DEF SweepInsert, Shape, SweepShape, Over
  <2>2. CASE x = sweep[s].run BY <2>1, <2>2 DEF LeaseOk
  <2>3. CASE x # sweep[s].run
    BY <1>a, <1>11, <2>1, <2>3, LeaseFrame DEF SweepInsert, Insert, TypeOK
  <2> QED BY <2>2, <2>3
<1>12. ASSUME NEW s \in Sweeper, SweepRenew(s) PROVE LeaseOk(x)'
  <2>1. sweep[s].run \in Run /\ sess[sweep[s].run].status # "running"
    BY <1>a, <1>12 DEF SweepRenew, Shape, SweepShape, Over
  <2>2. CASE x = sweep[s].run
    BY <1>a, <1>12, <2>1, <2>2, RenewEffect DEF SweepRenew, LeaseOk
  <2>3. CASE x # sweep[s].run
    <3>1. sess'[x] = sess[x] BY <1>a, <1>12, <2>1, <2>3 DEF SweepRenew, Renew, TypeOK
    <3> QED BY <1>a, <1>12, <3>1, LeaseFrame DEF SweepRenew
  <2> QED BY <2>2, <2>3
<1>13. ASSUME NEW s \in Sweeper, SweepDone(s) \/ SweepFails(s) PROVE LeaseOk(x)'
  <2>1. UNCHANGED <<sess, task, due, span, quiet>> /\ torn \subseteq torn'
    BY <1>13 DEF SweepDone, SweepFails
  <2> QED BY <1>a, <2>1, LeaseFrame
<1>14. ASSUME NEW p \in Replica, Reclaim(p) PROVE LeaseOk(x)'
  <2>1. UNCHANGED <<task, due, span, quiet, torn>> BY <1>14 DEF Reclaim
  <2>2. CASE x \in Expired
    <3>1. sess'[x].lease = Ttl /\ sess[x].status = "running"
      BY <1>14, <2>2 DEF Reclaim, Expired
    <3>2. Newest(x, due[x])' <=> Newest(x, due[x]) BY <2>1 DEF Newest
    <3> QED BY <1>a, <1>t, <2>1, <3>1, <3>2 DEF LeaseOk, Publishing, Alive
  <2>3. CASE x \notin Expired
    BY <1>a, <1>14, <2>1, <2>3, LeaseFrame DEF Reclaim
  <2> QED BY <2>2, <2>3
<1>15. ASSUME NEW p \in Replica, DrainStart(p) \/ DrainSweep(p) \/ Restart(p) PROVE LeaseOk(x)'
  <2>1. UNCHANGED <<sess, task, due, span, quiet, torn>>
    BY <1>15 DEF DrainStart, DrainSweep, Restart
  <2> QED BY <1>a, <2>1, LeaseFrame
<1>16. ASSUME NEW p \in Replica, Crash(p) \/ Exit(p) PROVE LeaseOk(x)'
  <2>1. UNCHANGED <<sess, due, quiet>> /\ torn \subseteq torn'
    BY <1>16 DEF Crash, Exit, Stop
  <2>2. CASE task[x].rep = p
    <3>1. task'[x].pc = "end" BY <1>16, <2>2 DEF Crash, Exit, Stop
    <3> QED BY <3>1 DEF LeaseOk, Alive
  <2>3. CASE task[x].rep # p
    <3>1. task'[x] = task[x] /\ span'[x] = span[x] BY <1>16, <2>3 DEF Crash, Exit, Stop
    <3> QED BY <1>a, <2>1, <3>1, LeaseFrame
  <2> QED BY <2>2, <2>3
<1>17. ASSUME NEW c \in Client, ClientStep(c) PROVE LeaseOk(x)'
  BY <1>a, <1>17, ClientFrame, LeaseFrame
<1>18. ASSUME Tick PROVE LeaseOk(x)'
  <2> SUFFICES ASSUME sess[x].status = "running", Alive(x) PROVE LeaseOk(x)'
    BY <1>18 DEF LeaseOk, Tick, Alive
  <2>1. task' = task /\ torn' = torn BY <1>18 DEF Tick
  <2>2. /\ quiet'[x] = IF quiet[x] < Ttl THEN quiet[x] + 1 ELSE quiet[x]
        /\ sess'[x].lease = IF sess[x].lease > 0 THEN sess[x].lease - 1 ELSE sess[x].lease
        /\ due'[x] = IF Publishing(x) THEN due[x] - 1 ELSE due[x]
    BY <1>18 DEF Tick
  <2>3. \A w \in Worker : /\ span'[x][w].pc = span[x][w].pc
                          /\ span'[x][w].due = IF span[x][w].pc # "idle"
                                               THEN span[x][w].due - 1 ELSE span[x][w].due
    BY <1>18 DEF Tick, Busy
  <2>4. Publishing(x) /\ Newest(x, due[x]) => Newest(x, due[x])' /\ Publishing(x)'
    <3>1. Publishing(x) => due[x] > Ttl - MaxPublish BY <1>18 DEF Tick
    <3> QED BY <1>t, <2>1, <2>2, <3>1 DEF Newest, Publishing
  <2>5. Renewing(x) => Renewing(x)'
    <3>1. CASE task[x].pc = "lease" /\ Newest(x, due[x])
      BY <2>1, <2>4, <3>1 DEF Renewing, Publishing
    <3>2. ASSUME NEW w \in Worker, span[x][w].pc = "lease", Newest(x, span[x][w].due)
          PROVE  Renewing(x)'
      <4>1. span[x][w].due > Ttl - MaxPublish BY <1>18, <3>2 DEF Tick, Busy
      <4>2. span'[x][w].pc = "lease" /\ span'[x][w].due = span[x][w].due - 1
        BY <2>3, <3>2
      <4>3. span'[x][w].due + quiet'[x] >= Ttl
        BY <1>t, <2>2, <3>2, <4>1, <4>2 DEF Newest
      <4> QED BY <4>2, <4>3 DEF Renewing, Newest
    <3> QED BY <3>1, <3>2 DEF Renewing
  <2>6. /\ sess[x].lease + quiet[x] >= Ttl => sess'[x].lease + quiet'[x] >= Ttl
        /\ sess[x].lease + quiet[x] >= Ttl - MaxPublish
             => sess'[x].lease + quiet'[x] >= Ttl - MaxPublish
    BY <1>t, <2>2
  <2>7. Publishing(x)' = Publishing(x) BY <2>1 DEF Publishing
  <2> QED BY <1>a, <2>1, <2>4, <2>5, <2>6, <2>7 DEF LeaseOk
<1>19. ASSUME UNCHANGED vars PROVE LeaseOk(x)'
  BY <1>a, <1>19, LeaseFrame DEF vars
<1> QED
  BY <1>1, <1>2, <1>3, <1>4, <1>5, <1>6, <1>7, <1>8, <1>9, <1>10, <1>11, <1>12, <1>13, <1>14,
     <1>15, <1>16, <1>17, <1>18, <1>19
     DEF Next, TaskStep, SweepStep, ProcessStep

\* Every step keeps the promise of a terminal event.
LEMMA StepAnnounced == IInv /\ [Next]_vars => TerminalAnnounced'
<1> SUFFICES ASSUME IInv, [Next]_vars PROVE TerminalAnnounced'
  OBVIOUS
<1> USE RunAssumption
<1>a. TypeOK /\ Shape /\ TerminalAnnounced BY DEF IInv
<1>1. ASSUME NEW r \in Run, NEW p \in Replica, Create(r, p) PROVE TerminalAnnounced'
  BY ZenonT(40), <1>a, <1>1
     DEF Create, TypeOK, Shape, Ended, Over, Terminal, Announcing, SweepAnnouncing,
         TerminalAnnounced, Sweeper
<1>2. ASSUME NEW r \in Run, TaskInsert(r) PROVE TerminalAnnounced'
  <2> SUFFICES ASSUME NEW x \in Run, sess'[x].status \in Over
               PROVE  \/ Ended(x)'
                      \/ Announcing(x)'
                      \/ \E t \in Sweeper : SweepAnnouncing(t, x)'
                      \/ <<x, "finish">> \in torn'
    BY DEF TerminalAnnounced
  <2>1. sess[x].status \in Over BY <1>2 DEF TaskInsert
  <2>2. /\ \A y \in Run : Ended(y) => Ended(y)'
        /\ task[r].kind \in Terminal => Ended(r)'
    BY <1>a, <1>2, InsertEffect DEF TaskInsert, TypeOK, Shape, RunShape, Publishing
  <2>3. x # r => task'[x] = task[x]
    BY <1>a, <1>2 DEF TaskInsert, Goto, TypeOK
  <2> QED BY <1>a, <1>2, <2>1, <2>2, <2>3
          DEF TaskInsert, TerminalAnnounced, Announcing, SweepAnnouncing
<1>3. ASSUME NEW r \in Run, TaskRenew(r) PROVE TerminalAnnounced'
  <2> SUFFICES ASSUME NEW x \in Run, sess'[x].status \in Over
               PROVE  \/ Ended(x)'
                      \/ Announcing(x)'
                      \/ \E t \in Sweeper : SweepAnnouncing(t, x)'
                      \/ <<x, "finish">> \in torn'
    BY DEF TerminalAnnounced
  <2>1. /\ sess[x].status \in Over /\ log' = log /\ sweep' = sweep /\ torn' = torn
        /\ Announcing(x) => x # r /\ task'[x] = task[x]
    BY <1>a, <1>3 DEF TaskRenew, Renew, Goto, TypeOK, Announcing
  <2> QED BY <1>a, <2>1 DEF TerminalAnnounced, Ended, Announcing, SweepAnnouncing
<1>4. ASSUME NEW r \in Run, NEW w \in Worker, DriverSpan(r, w) PROVE TerminalAnnounced'
  <2>1. UNCHANGED <<sess, log, sweep, torn>> BY <1>4 DEF DriverSpan
  <2>2. \A y \in Run : Announcing(y) => Announcing(y)'
    BY <1>a, <1>4 DEF DriverSpan, Announcing, TypeOK
  <2> QED BY <1>a, <2>1, <2>2 DEF TerminalAnnounced, Ended, SweepAnnouncing
<1>5. ASSUME NEW r \in Run, DriverDone(r) PROVE TerminalAnnounced'
  BY ZenonT(40), <1>a, <1>5
     DEF DriverDone, SetStatus, Goto, SweepTo, TypeOK, Shape, Ended, Over, Terminal,
         Announcing, SweepAnnouncing, TerminalAnnounced, Sweeper
<1>6. ASSUME NEW r \in Run, TaskRaises(r) PROVE TerminalAnnounced'
  <2> SUFFICES ASSUME NEW x \in Run, sess'[x].status \in Over
               PROVE  \/ Ended(x)'
                      \/ Announcing(x)'
                      \/ \E t \in Sweeper : SweepAnnouncing(t, x)'
                      \/ <<x, "finish">> \in torn'
    BY DEF TerminalAnnounced
  <2>1. CASE x = r
    BY <1>a, <1>6, <2>1 DEF TaskRaises, Goto, TypeOK, Terminal, Announcing
  <2>2. CASE x # r
    <3>1. task'[x] = task[x] /\ sess'[x] = sess[x] /\ Ended(x)' = Ended(x)
      BY <1>a, <1>6, <2>2 DEF TaskRaises, Goto, SetStatus, TypeOK, Ended
    <3> QED BY <1>a, <1>6, <3>1
       DEF TaskRaises, TerminalAnnounced, Announcing, SweepAnnouncing
  <2> QED BY <2>1, <2>2
<1>7. ASSUME NEW r \in Run, NEW w \in Worker, SpanLost(r, w) PROVE TerminalAnnounced'
  <2>1. UNCHANGED <<sess, log, task, sweep>> /\ torn \subseteq torn' BY <1>7 DEF SpanLost
  <2> QED BY <1>a, <2>1 DEF TerminalAnnounced, Ended, Announcing, SweepAnnouncing
<1>24. ASSUME NEW r \in Run, NEW w \in Worker, SpanInsert(r, w) PROVE TerminalAnnounced'
  <2>1. UNCHANGED <<sess, task, sweep, torn>> BY <1>24 DEF SpanInsert
  <2>2. \A y \in Run : Ended(y) => Ended(y)' BY <1>a, <1>24, InsertEffect DEF SpanInsert
  <2> QED BY <1>a, <2>1, <2>2 DEF TerminalAnnounced, Announcing, SweepAnnouncing
<1>25. ASSUME NEW r \in Run, NEW w \in Worker, SpanRenew(r, w) PROVE TerminalAnnounced'
  <2>1. UNCHANGED <<log, task, sweep>> BY <1>25 DEF SpanRenew
  <2>2. \A y \in Run : sess'[y].status = sess[y].status
    BY <1>a, <1>25, RenewEffect DEF SpanRenew
  <2>3. \A y \in Run : <<y, "finish">> \in torn => <<y, "finish">> \in torn'
    BY <1>25 DEF SpanRenew
  <2> QED BY <1>a, <2>1, <2>2, <2>3 DEF TerminalAnnounced, Ended, Announcing, SweepAnnouncing
<1>8. ASSUME NEW r \in Run, TaskDies(r) PROVE TerminalAnnounced'
  BY ZenonT(40), <1>a, <1>8
     DEF TaskDies, Announcing, Fault, Goto, TypeOK, Shape, Ended, Over, Terminal,
         Announcing, SweepAnnouncing, TerminalAnnounced, Sweeper
<1>9. ASSUME NEW r \in Run, TaskEnds(r) PROVE TerminalAnnounced'
  BY ZenonT(40), <1>a, <1>9
     DEF TaskEnds, Goto, TypeOK, Shape, Ended, Over, Terminal, Announcing,
         SweepAnnouncing, TerminalAnnounced, Sweeper
<1>10. ASSUME NEW s \in Sweeper, SweepStatus(s) PROVE TerminalAnnounced'
  <2> SUFFICES ASSUME NEW x \in Run, sess'[x].status \in Over
               PROVE  \/ Ended(x)'
                      \/ Announcing(x)'
                      \/ \E t \in Sweeper : SweepAnnouncing(t, x)'
                      \/ <<x, "finish">> \in torn'
    BY DEF TerminalAnnounced
  <2>1. PICK r \in sweep[s].todo : SetStatus(r, "failed")
                                  /\ SweepTo(s, "event", r, sweep[s].todo \ {r})
    BY <1>10 DEF SweepStatus
  <2>2. sweep'[s].pc = "event" /\ sweep'[s].run = r /\ r \in Run
    BY <1>a, <2>1 DEF SweepTo, TypeOK
  <2>3. \A t \in Sweeper \ {s} : sweep'[t] = sweep[t]
    BY <1>a, <2>1 DEF SweepTo, TypeOK
  <2>4. CASE x # r
    <3>1. sess'[x] = sess[x] /\ Ended(x)' = Ended(x)
      BY <1>a, <1>10, <2>1, <2>4 DEF SweepStatus, SetStatus, TypeOK, Ended
    <3> QED BY <1>a, <1>10, <2>3, <3>1
       DEF SweepStatus, TerminalAnnounced, Announcing, SweepAnnouncing
  <2> QED BY <2>2, <2>4 DEF SweepAnnouncing
<1>11. ASSUME NEW s \in Sweeper, SweepInsert(s) PROVE TerminalAnnounced'
  <2> SUFFICES ASSUME NEW x \in Run, sess'[x].status \in Over
               PROVE  \/ Ended(x)'
                      \/ Announcing(x)'
                      \/ \E t \in Sweeper : SweepAnnouncing(t, x)'
                      \/ <<x, "finish">> \in torn'
    BY DEF TerminalAnnounced
  <2>1. sess[x].status \in Over /\ task' = task /\ torn' = torn BY <1>11 DEF SweepInsert
  <2>2. PICK r \in Run : r = sweep[s].run /\ Insert(r, "run_failed", 0)
    BY <1>a, <1>11 DEF SweepInsert, Shape, SweepShape
  <2>3. (\A y \in Run : Ended(y) => Ended(y)') /\ Ended(r)'
    <3>1. "run_failed" \in Terminal BY DEF Terminal
    <3> QED BY <1>a, <2>2, <3>1, InsertEffect
  <2>4. \A t \in Sweeper \ {s} : sweep'[t] = sweep[t]
    BY <1>a, <1>11 DEF SweepInsert, SweepTo, TypeOK
  <2>5. \/ Ended(x) \/ Announcing(x) \/ <<x, "finish">> \in torn
        \/ \E t \in Sweeper : SweepAnnouncing(t, x)
    BY <1>a, <2>1 DEF TerminalAnnounced
  <2>6. CASE \E t \in Sweeper : SweepAnnouncing(t, x)
    BY <2>2, <2>3, <2>4, <2>6 DEF SweepAnnouncing
  <2> QED BY <2>1, <2>3, <2>5, <2>6 DEF Announcing
<1>12. ASSUME NEW s \in Sweeper, SweepRenew(s) PROVE TerminalAnnounced'
  <2>1. UNCHANGED <<log, task, torn>> BY <1>12 DEF SweepRenew
  <2>2. sweep[s].run \in Run BY <1>a, <1>12 DEF SweepRenew, Shape, SweepShape
  <2>3. \A y \in Run : sess'[y].status = sess[y].status
    BY <1>a, <1>12, <2>2, RenewEffect DEF SweepRenew
  <2>4. \A u \in Sweeper, y \in Run : SweepAnnouncing(u, y) => SweepAnnouncing(u, y)'
    BY <1>a, <1>12 DEF SweepRenew, SweepTo, SweepAnnouncing, TypeOK
  <2> QED BY <1>a, <2>1, <2>3, <2>4 DEF TerminalAnnounced, Ended, Announcing
<1>13. ASSUME NEW s \in Sweeper, SweepDone(s) PROVE TerminalAnnounced'
  BY <1>a, <1>13
     DEF SweepDone, SweepTo, TypeOK, Shape, Ended, Over, Terminal, Announcing,
         SweepAnnouncing, TerminalAnnounced, Sweeper
<1>14. ASSUME NEW s \in Sweeper, SweepFails(s) PROVE TerminalAnnounced'
  <2> SUFFICES ASSUME NEW x \in Run, sess'[x].status \in Over
               PROVE  \/ Ended(x)'
                      \/ Announcing(x)'
                      \/ \E t \in Sweeper : SweepAnnouncing(t, x)'
                      \/ <<x, "finish">> \in torn'
    BY DEF TerminalAnnounced
  <2>1. sess[x].status \in Over /\ Ended(x)' = Ended(x) /\ Announcing(x)' = Announcing(x)
    BY <1>14 DEF SweepFails, Ended, Announcing
  <2>2. \A t \in Sweeper \ {s} : sweep'[t] = sweep[t]
    BY ZenonT(40), <1>a, <1>14, SweepFailsEffect DEF SweepTo, TypeOK
  <2>3. torn \subseteq torn' /\ (SweepAnnouncing(s, x) => <<x, "finish">> \in torn')
    BY <1>14 DEF SweepFails
  <2> QED BY <1>a, <2>1, <2>2, <2>3 DEF TerminalAnnounced, SweepAnnouncing
<1>15. ASSUME NEW p \in Replica, Reclaim(p) PROVE TerminalAnnounced'
  BY <1>a, <1>15
     DEF Reclaim, Expired, SweepTo, TypeOK, Shape, Ended, Over, Terminal, Announcing,
         SweepAnnouncing, TerminalAnnounced, Sweeper
<1>16. ASSUME NEW p \in Replica, DrainStart(p) PROVE TerminalAnnounced'
  BY <1>a, <1>16
     DEF DrainStart, Fault, TypeOK, Shape, Ended, Over, Terminal, Announcing,
         SweepAnnouncing, TerminalAnnounced, Sweeper
<1>17. ASSUME NEW p \in Replica, DrainSweep(p) PROVE TerminalAnnounced'
  BY <1>a, <1>17
     DEF DrainSweep, LiveRuns, SweepTo, TypeOK, Shape, Ended, Over, Terminal,
         Announcing, SweepAnnouncing, TerminalAnnounced, Sweeper
<1>18. ASSUME NEW p \in Replica, Crash(p) PROVE TerminalAnnounced'
  <2> SUFFICES ASSUME NEW x \in Run, sess'[x].status \in Over
               PROVE  \/ Ended(x)'
                      \/ Announcing(x)'
                      \/ \E t \in Sweeper : SweepAnnouncing(t, x)'
                      \/ <<x, "finish">> \in torn'
    BY DEF TerminalAnnounced
  <2>1. sess' = sess /\ log' = log /\ torn \subseteq torn'
    BY <1>18 DEF Crash, Stop
  <2>2. CASE Announcing(x)
    <3>1. CASE task[x].rep = p
      BY <1>18, <2>2, <3>1 DEF Crash, Stop
    <3>2. CASE task[x].rep # p
      BY <1>a, <1>18, <2>2, <3>2 DEF Crash, Stop, Announcing, TypeOK
    <3> QED BY <3>1, <3>2
  <2>3. ASSUME NEW t \in Sweeper, SweepAnnouncing(t, x)
        PROVE  <<x, "finish">> \in torn' \/ SweepAnnouncing(t, x)'
    <3>1. CASE t[1] = p
      BY <1>18, <2>3, <3>1 DEF Crash, Stop
    <3>2. CASE t[1] # p
      BY <1>a, <1>18, <2>3, <3>2 DEF Crash, Stop, SweepAnnouncing, TypeOK
    <3> QED BY <3>1, <3>2
  <2> QED BY <1>a, <2>1, <2>2, <2>3 DEF TerminalAnnounced, Ended
<1>19. ASSUME NEW p \in Replica, Exit(p) PROVE TerminalAnnounced'
  <2> SUFFICES ASSUME NEW x \in Run, sess'[x].status \in Over
               PROVE  \/ Ended(x)'
                      \/ Announcing(x)'
                      \/ \E t \in Sweeper : SweepAnnouncing(t, x)'
                      \/ <<x, "finish">> \in torn'
    BY DEF TerminalAnnounced
  <2>1. sess' = sess /\ log' = log /\ torn \subseteq torn'
    BY <1>19 DEF Exit, Stop
  <2>2. CASE Announcing(x)
    <3>1. CASE task[x].rep = p
      BY <1>19, <2>2, <3>1 DEF Exit, Stop
    <3>2. CASE task[x].rep # p
      BY <1>a, <1>19, <2>2, <3>2 DEF Exit, Stop, Announcing, TypeOK
    <3> QED BY <3>1, <3>2
  <2>3. ASSUME NEW t \in Sweeper, SweepAnnouncing(t, x)
        PROVE  <<x, "finish">> \in torn' \/ SweepAnnouncing(t, x)'
    <3>1. CASE t[1] = p
      BY <1>19, <2>3, <3>1 DEF Exit, Stop
    <3>2. CASE t[1] # p
      BY <1>a, <1>19, <2>3, <3>2 DEF Exit, Stop, SweepAnnouncing, TypeOK
    <3> QED BY <3>1, <3>2
  <2> QED BY <1>a, <2>1, <2>2, <2>3 DEF TerminalAnnounced, Ended
<1>20. ASSUME NEW p \in Replica, Restart(p) PROVE TerminalAnnounced'
  BY <1>a, <1>20
     DEF Restart, TypeOK, Shape, Ended, Over, Terminal, Announcing, SweepAnnouncing,
         TerminalAnnounced, Sweeper
<1>21. ASSUME NEW c \in Client, ClientStep(c) PROVE TerminalAnnounced'
  <2>1. UNCHANGED <<sess, log, task, sweep, torn>> BY <1>21, ClientFrame
  <2> QED BY <1>a, <2>1 DEF TerminalAnnounced, Ended, Announcing, SweepAnnouncing
<1>22. ASSUME Tick PROVE TerminalAnnounced'
  <2>1. UNCHANGED <<log, task, torn>> /\ \A y \in Run : sess'[y].status = sess[y].status
    BY <1>22 DEF Tick
  <2>2. \A u \in Sweeper, y \in Run : SweepAnnouncing(u, y)' <=> SweepAnnouncing(u, y)
    BY <1>22 DEF Tick, SweepAnnouncing
  <2> QED BY <1>a, <2>1, <2>2 DEF TerminalAnnounced, Ended, Announcing
<1>23. ASSUME UNCHANGED vars PROVE TerminalAnnounced'
  BY <1>a, <1>23
     DEF vars, TypeOK, Shape, Ended, Over, Terminal, Announcing, SweepAnnouncing,
         TerminalAnnounced, Sweeper
<1> QED
  BY <1>1, <1>2, <1>3, <1>4, <1>5, <1>6, <1>7, <1>8, <1>9, <1>10, <1>11,
     <1>12, <1>13, <1>14, <1>15, <1>16, <1>17, <1>18, <1>19, <1>20, <1>21, <1>22, <1>23, <1>24, <1>25
     DEF Next, TaskStep, SweepStep, ProcessStep

\* A step that gives no run to a reaper, and shortens no lease below what a
\* publish() may write, keeps reapers apart.
LEMMA HeldFrame ==
  ASSUME TypeOK, HeldInv, NoDoubleReap,
         \A q \in Replica, y \in Run : Holds(q, y)' =>
           Holds(q, y) /\ sweep'[<<q, "reaper">>].held = sweep[<<q, "reaper">>].held,
         \A y \in Run : sess[y].status \in Over => sess'[y].status \in Over,
         \A y \in Run : \/ sess'[y].lease = sess[y].lease
                        \/ sess'[y].lease \in (Ttl - MaxPublish)..Ttl
  PROVE  (HeldInv /\ NoDoubleReap)'
<1> USE RunAssumption
<1>1. HeldInv'
  <2> SUFFICES ASSUME NEW y \in Run, NEW q \in Replica, Holds(q, y)'
               PROVE  \/ sess'[y].status \in Over
                      \/ sess'[y].lease + sweep'[<<q, "reaper">>].held >= Ttl - MaxPublish
    BY DEF HeldInv
  <2>1. <<q, "reaper">> \in Sweeper BY DEF Sweeper
  <2>2. sweep'[<<q, "reaper">>].held = sweep[<<q, "reaper">>].held
        /\ sweep[<<q, "reaper">>].held \in 0..Ttl
    BY <2>1 DEF TypeOK
  <2>3. \/ sess[y].status \in Over
        \/ sess[y].lease + sweep[<<q, "reaper">>].held >= Ttl - MaxPublish
    BY DEF HeldInv
  <2> QED BY <2>2, <2>3
<1>2. NoDoubleReap' BY DEF NoDoubleReap
<1> QED BY <1>1, <1>2

\* What SweepTo does to the hold of reapers.
LEMMA SweepToHolds ==
  ASSUME TypeOK, NEW s \in Sweeper, NEW pc, NEW run, NEW todo, SweepTo(s, pc, run, todo),
         todo \subseteq sweep[s].todo, run = NoRun \/ run = sweep[s].run \/ run \in sweep[s].todo,
         pc = "idle" => run = NoRun /\ todo = {}
  PROVE  \A q \in Replica, y \in Run : Holds(q, y)' =>
           Holds(q, y) /\ sweep'[<<q, "reaper">>].held = sweep[<<q, "reaper">>].held
<1> SUFFICES ASSUME NEW q \in Replica, NEW y \in Run, Holds(q, y)'
             PROVE  Holds(q, y) /\ sweep'[<<q, "reaper">>].held = sweep[<<q, "reaper">>].held
  OBVIOUS
<1>1. <<q, "reaper">> \in Sweeper BY DEF Sweeper
<1>2. CASE <<q, "reaper">> = s
  <2>1. /\ sweep'[s].run = run /\ sweep'[s].todo = todo
        /\ sweep'[s].held = IF pc = "idle" THEN 0 ELSE sweep[s].held
    BY DEF SweepTo, TypeOK
  <2> QED BY <1>2, <2>1, RunAssumption DEF Holds
<1>3. CASE <<q, "reaper">> # s
  <2>1. sweep'[<<q, "reaper">>] = sweep[<<q, "reaper">>] BY <1>1, <1>3 DEF SweepTo, TypeOK
  <2> QED BY <2>1 DEF Holds
<1> QED BY <1>2, <1>3

\* Every step keeps reapers apart.
LEMMA StepHeld == IInv /\ [Next]_vars => (HeldInv /\ NoDoubleReap)'
<1> SUFFICES ASSUME IInv, [Next]_vars PROVE (HeldInv /\ NoDoubleReap)'
  OBVIOUS
<1> USE RunAssumption
<1>a. TypeOK /\ Shape /\ HeldInv /\ NoDoubleReap BY DEF IInv
<1>b. \A y \in Run : sess[y].status \in Over => sess'[y].status \in Over
  BY StepStatus
<1>c. Ttl \in (Ttl - MaxPublish)..Ttl OBVIOUS
<1>d. ASSUME sweep' = sweep,
             \A y \in Run : \/ sess'[y].lease = sess[y].lease
                            \/ sess'[y].lease \in (Ttl - MaxPublish)..Ttl
      PROVE  (HeldInv /\ NoDoubleReap)'
  <2>1. \A q \in Replica, y \in Run : Holds(q, y)' =>
          Holds(q, y) /\ sweep'[<<q, "reaper">>].held = sweep[<<q, "reaper">>].held
    BY <1>d DEF Holds
  <2> QED BY <1>a, <1>b, <1>d, <2>1, HeldFrame
<1>1. ASSUME NEW r \in Run, TaskStep(r) PROVE (HeldInv /\ NoDoubleReap)'
  <2>1. sweep' = sweep
    BY <1>1 DEF TaskStep, Create, TaskInsert, TaskRenew, DriverDone, TaskRaises, TaskDies,
       TaskEnds, DriverSpan, SpanInsert, SpanRenew, SpanLost
  <2>2. \/ sess' = sess \/ SetStatus(r, "done") \/ SetStatus(r, "failed")
        \/ Renew(r, due[r]) \/ (\E w \in Worker : Renew(r, span[r][w].due))
        \/ sess' = [sess EXCEPT ![r] = [status |-> "running", lease |-> Ttl]]
    BY <1>1 DEF TaskStep, Create, TaskInsert, TaskRenew, DriverDone, TaskRaises, TaskDies,
       TaskEnds, DriverSpan, SpanInsert, SpanRenew, SpanLost
  <2>3. CASE SetStatus(r, "done") \/ SetStatus(r, "failed")
    <3>1. \A y \in Run : sess'[y].lease = sess[y].lease
      BY <1>a, <2>3, SetStatusEffect
    <3> QED BY <1>d, <2>1, <3>1
  <2>4. ASSUME NEW left \in (Ttl - MaxPublish)..Ttl, Renew(r, left)
        PROVE  (HeldInv /\ NoDoubleReap)'
    <3>1. \A y \in Run : \/ sess'[y].lease = sess[y].lease
                         \/ sess'[y].lease \in (Ttl - MaxPublish)..Ttl
      BY <1>a, <2>4, RenewEffect
    <3> QED BY <1>d, <2>1, <3>1
  <2>5. /\ due[r] \in (Ttl - MaxPublish)..Ttl
        /\ \A w \in Worker : span[r][w].due \in (Ttl - MaxPublish)..Ttl
    BY <1>a DEF TypeOK
  <2>6. CASE sess' = [sess EXCEPT ![r] = [status |-> "running", lease |-> Ttl]]
    BY <1>a, <1>c, <1>d, <2>1, <2>6 DEF TypeOK
  <2>7. CASE sess' = sess BY <1>d, <2>1, <2>7
  <2> QED BY <2>2, <2>3, <2>4, <2>5, <2>6, <2>7
<1>2. ASSUME NEW s \in Sweeper, SweepStatus(s) PROVE (HeldInv /\ NoDoubleReap)'
  <2>1. PICK r \in sweep[s].todo : SetStatus(r, "failed")
                                  /\ SweepTo(s, "event", r, sweep[s].todo \ {r})
    BY <1>2 DEF SweepStatus
  <2>2. r \in Run BY <1>a DEF TypeOK
  <2>3. \A y \in Run : sess'[y].lease = sess[y].lease
    BY <1>a, <2>1, <2>2 DEF SetStatus, TypeOK
  <2>4. \A q \in Replica, y \in Run : Holds(q, y)' =>
          Holds(q, y) /\ sweep'[<<q, "reaper">>].held = sweep[<<q, "reaper">>].held
    BY <1>a, <2>1, SweepToHolds
  <2> QED BY <1>a, <1>b, <2>3, <2>4, HeldFrame
<1>3. ASSUME NEW s \in Sweeper, SweepInsert(s) \/ SweepDone(s) PROVE (HeldInv /\ NoDoubleReap)'
  <2>1. \A q \in Replica, y \in Run : Holds(q, y)' =>
          Holds(q, y) /\ sweep'[<<q, "reaper">>].held = sweep[<<q, "reaper">>].held
    <3>1. CASE SweepInsert(s) BY <1>a, <3>1, SweepToHolds DEF SweepInsert
    <3>2. CASE SweepDone(s) BY <1>a, <3>2, SweepToHolds DEF SweepDone
    <3> QED BY <1>3, <3>1, <3>2
  <2>2. sess' = sess BY <1>3 DEF SweepInsert, SweepDone
  <2> QED BY <1>a, <1>b, <2>1, <2>2, HeldFrame
<1>4. ASSUME NEW s \in Sweeper, SweepRenew(s) PROVE (HeldInv /\ NoDoubleReap)'
  <2>1. sweep[s].run \in Run BY <1>a, <1>4 DEF SweepRenew, Shape, SweepShape
  <2>2. \A y \in Run : \/ sess'[y].lease = sess[y].lease
                       \/ sess'[y].lease \in (Ttl - MaxPublish)..Ttl
    BY <1>a, <1>c, <1>4, <2>1, RenewEffect DEF SweepRenew
  <2>3. \A q \in Replica, y \in Run : Holds(q, y)' =>
          Holds(q, y) /\ sweep'[<<q, "reaper">>].held = sweep[<<q, "reaper">>].held
    BY <1>a, <1>4, SweepToHolds DEF SweepRenew
  <2> QED BY <1>a, <1>b, <2>2, <2>3, HeldFrame
<1>5. ASSUME NEW s \in Sweeper, SweepFails(s) PROVE (HeldInv /\ NoDoubleReap)'
  <2>1. \A q \in Replica, y \in Run : Holds(q, y)' =>
          Holds(q, y) /\ sweep'[<<q, "reaper">>].held = sweep[<<q, "reaper">>].held
    <3>1. CASE SweepTo(s, "idle", NoRun, {}) BY <1>a, <3>1, SweepToHolds
    <3>2. ASSUME NEW left \in SUBSET sweep[s].todo, SweepTo(s, "next", NoRun, left)
          PROVE  \A q \in Replica, y \in Run : Holds(q, y)' =>
                   Holds(q, y) /\ sweep'[<<q, "reaper">>].held = sweep[<<q, "reaper">>].held
      BY <1>a, <3>2, SweepToHolds
    <3> QED BY <1>5, <3>1, <3>2, SweepFailsEffect
  <2>2. sess' = sess BY <1>5 DEF SweepFails
  <2> QED BY <1>a, <1>b, <2>1, <2>2, HeldFrame
<1>6. ASSUME NEW p \in Replica, Reclaim(p) PROVE (HeldInv /\ NoDoubleReap)'
  <2>0. <<p, "reaper">> \in Sweeper BY DEF Sweeper
  <2>1. \A q \in Replica \ {p}, r \in Run :
          /\ Holds(q, r)' <=> Holds(q, r)
          /\ sweep'[<<q, "reaper">>].held = sweep[<<q, "reaper">>].held
    <3> SUFFICES ASSUME NEW q \in Replica \ {p}
                 PROVE  sweep'[<<q, "reaper">>] = sweep[<<q, "reaper">>]
      BY DEF Holds
    <3>1. <<q, "reaper">> \in Sweeper /\ <<q, "reaper">> # <<p, "reaper">> BY DEF Sweeper
    <3> QED BY <1>a, <1>6, <3>1 DEF Reclaim, SweepTo, TypeOK
  <2>2. \A r \in Run : Holds(p, r)' <=> r \in Expired
    <3>1. sweep'[<<p, "reaper">>].todo = Expired /\ sweep'[<<p, "reaper">>].run = NoRun
      BY <1>a, <1>6, <2>0 DEF Reclaim, SweepTo, TypeOK
    <3> QED BY <3>1 DEF Holds
  <2>3. \A q \in Replica, r \in Run :
          Holds(q, r) /\ r \in Expired => sweep[<<q, "reaper">>].held >= Ttl - MaxPublish
    <3> SUFFICES ASSUME NEW q \in Replica, NEW r \in Run, Holds(q, r), r \in Expired
                 PROVE  sweep[<<q, "reaper">>].held >= Ttl - MaxPublish
      OBVIOUS
    <3>1. \/ sess[r].status \in Over
          \/ sess[r].lease + sweep[<<q, "reaper">>].held >= Ttl - MaxPublish
      BY <1>a DEF HeldInv
    <3>2. sess[r].status = "running" /\ sess[r].lease = 0 BY DEF Expired
    <3>3. sweep[<<q, "reaper">>].held \in 0..Ttl BY <1>a DEF TypeOK, Sweeper
    <3> QED BY <3>1, <3>2, <3>3 DEF Over
  <2>4. HeldInv'
    <3> SUFFICES ASSUME NEW r \in Run, NEW q \in Replica, Holds(q, r)'
                 PROVE  \/ sess'[r].status \in Over
                        \/ sess'[r].lease + sweep'[<<q, "reaper">>].held >= Ttl - MaxPublish
      BY DEF HeldInv
    <3>0. sweep'[<<q, "reaper">>].held \in 0..Ttl
      <4>1. TypeOK' BY StepTypeOK
      <4> QED BY <4>1 DEF TypeOK, Sweeper
    <3>1. CASE r \in Expired
      <4>1. sess'[r].lease = Ttl BY <1>6, <3>1 DEF Reclaim
      <4> QED BY <3>0, <4>1
    <3>2. CASE r \notin Expired
      <4>1. sess'[r] = sess[r] BY <1>6, <3>2 DEF Reclaim
      <4>2. q # p /\ Holds(q, r) BY <2>1, <2>2, <3>2
      <4> QED BY <1>a, <2>1, <4>1, <4>2 DEF HeldInv
    <3> QED BY <3>1, <3>2
  <2>5. NoDoubleReap'
    <3> SUFFICES ASSUME NEW r \in Run, NEW q \in Replica, NEW u \in Replica, q # u,
                        Holds(q, r)', Holds(u, r)'
                 PROVE  \/ sweep'[<<q, "reaper">>].held >= Ttl - MaxPublish
                        \/ sweep'[<<u, "reaper">>].held >= Ttl - MaxPublish
      BY DEF NoDoubleReap
    <3>1. CASE q = p BY <2>1, <2>2, <2>3, <3>1
    <3>2. CASE u = p BY <2>1, <2>2, <2>3, <3>2
    <3>3. CASE q # p /\ u # p BY <1>a, <2>1, <3>3 DEF NoDoubleReap
    <3> QED BY <3>1, <3>2, <3>3
  <2> QED BY <2>4, <2>5
<1>7. ASSUME NEW p \in Replica, DrainStart(p) \/ Restart(p) PROVE (HeldInv /\ NoDoubleReap)'
  BY <1>7, <1>d DEF DrainStart, Restart
<1>8. ASSUME NEW p \in Replica, DrainSweep(p) PROVE (HeldInv /\ NoDoubleReap)'
  <2>1. \A q \in Replica : sweep'[<<q, "reaper">>] = sweep[<<q, "reaper">>]
    BY <1>a, <1>8 DEF DrainSweep, SweepTo, TypeOK, Sweeper
  <2>2. \A q \in Replica, y \in Run : Holds(q, y)' =>
          Holds(q, y) /\ sweep'[<<q, "reaper">>].held = sweep[<<q, "reaper">>].held
    BY <2>1 DEF Holds
  <2>3. sess' = sess BY <1>8 DEF DrainSweep
  <2> QED BY <1>a, <1>b, <2>2, <2>3, HeldFrame
<1>9. ASSUME NEW p \in Replica, Crash(p) \/ Exit(p) PROVE (HeldInv /\ NoDoubleReap)'
  <2>1. sess' = sess BY <1>9 DEF Crash, Exit, Stop
  <2>2. \A q \in Replica : sweep'[<<q, "reaper">>] =
          IF q = p THEN Resting ELSE sweep[<<q, "reaper">>]
    BY <1>9 DEF Crash, Exit, Stop, Sweeper
  <2>3. \A q \in Replica, y \in Run : Holds(q, y)' =>
          Holds(q, y) /\ sweep'[<<q, "reaper">>].held = sweep[<<q, "reaper">>].held
    BY <2>2 DEF Holds, Resting
  <2> QED BY <1>a, <1>b, <2>1, <2>3, HeldFrame
<1>10. ASSUME NEW c \in Client, ClientStep(c) PROVE (HeldInv /\ NoDoubleReap)'
  BY <1>10, <1>d, ClientFrame
<1>11. ASSUME Tick PROVE (HeldInv /\ NoDoubleReap)'
  <2>1. ASSUME NEW q \in Replica, NEW y \in Run, Holds(q, y)'
        PROVE  /\ Holds(q, y)
               /\ sweep'[<<q, "reaper">>].held =
                    IF sweep[<<q, "reaper">>].held < Ttl THEN sweep[<<q, "reaper">>].held + 1
                                                         ELSE sweep[<<q, "reaper">>].held
    <3>1. <<q, "reaper">> \in Sweeper BY DEF Sweeper
    <3>2. Holds(q, y) BY <1>11, <2>1, <3>1 DEF Tick, Holds
    <3>3. sweep[<<q, "reaper">>].pc # "idle"
      BY <1>a, <3>1, <3>2 DEF Shape, SweepShape, Holds
    <3> QED BY <1>11, <3>1, <3>2, <3>3 DEF Tick
  <2>2. \A q \in Replica : sweep[<<q, "reaper">>].held \in 0..Ttl BY <1>a DEF TypeOK, Sweeper
  <2>3. \A y \in Run : /\ sess[y].lease \in 0..Ttl /\ sess'[y].status = sess[y].status
                       /\ sess'[y].lease = sess[y].lease \/ sess'[y].lease = sess[y].lease - 1
    BY <1>a, <1>11 DEF Tick, TypeOK
  <2>4. HeldInv'
    <3> SUFFICES ASSUME NEW y \in Run, NEW q \in Replica, Holds(q, y)'
                 PROVE  \/ sess'[y].status \in Over
                        \/ sess'[y].lease + sweep'[<<q, "reaper">>].held >= Ttl - MaxPublish
      BY DEF HeldInv
    <3>1. \/ sess[y].status \in Over
          \/ sess[y].lease + sweep[<<q, "reaper">>].held >= Ttl - MaxPublish
      BY <1>a, <2>1 DEF HeldInv
    <3>2. sess'[y].lease \in 0..Ttl
      <4>1. TypeOK' BY StepTypeOK
      <4> QED BY <4>1 DEF TypeOK
    <3>3. sweep'[<<q, "reaper">>].held =
            IF sweep[<<q, "reaper">>].held < Ttl THEN sweep[<<q, "reaper">>].held + 1
                                                 ELSE sweep[<<q, "reaper">>].held
      BY <2>1
    <3> QED BY <2>2, <2>3, <3>1, <3>2, <3>3
  <2>5. NoDoubleReap'
    <3> SUFFICES ASSUME NEW y \in Run, NEW q \in Replica, NEW u \in Replica,
                        Holds(q, y)', Holds(u, y)', q # u
                 PROVE  \/ sweep'[<<q, "reaper">>].held >= Ttl - MaxPublish
                        \/ sweep'[<<u, "reaper">>].held >= Ttl - MaxPublish
      BY DEF NoDoubleReap
    <3>1. \/ sweep[<<q, "reaper">>].held >= Ttl - MaxPublish
          \/ sweep[<<u, "reaper">>].held >= Ttl - MaxPublish
      BY <1>a, <2>1 DEF NoDoubleReap
    <3>2. /\ sweep'[<<q, "reaper">>].held >= sweep[<<q, "reaper">>].held
          /\ sweep'[<<u, "reaper">>].held >= sweep[<<u, "reaper">>].held
          /\ sweep'[<<q, "reaper">>].held \in Int /\ sweep'[<<u, "reaper">>].held \in Int
      BY <2>1, <2>2
    <3> QED BY <2>2, <3>1, <3>2
  <2> QED BY <2>4, <2>5
<1>12. ASSUME UNCHANGED vars PROVE (HeldInv /\ NoDoubleReap)'
  BY <1>12, <1>d DEF vars
<1> QED
  BY <1>1, <1>2, <1>3, <1>4, <1>5, <1>6, <1>7, <1>8, <1>9, <1>10, <1>11, <1>12
     DEF Next, SweepStep, ProcessStep

\* RunStore, execute_run, reaper and drain: for any number of runs and replicas,
\* any number of coroutines that publish for a run at once, any lease and any
\* shorter publish(), whatever crashes or fails: a live run is reaped only after
\* run_timeout of silence, but for the three exceptions of the property (the
\* newest event's renewal pending, lost, or overtaken by an older one, which
\* costs no more than a publish() takes); two reapers hold the same run only
\* when one was stalled for nearly a lease; and a run that is over has its
\* terminal event or a writer about to publish it, unless a finish() was cut
\* off between its statements.
THEOREM RunsCorrect ==
  Spec => [](TypeOK /\ LiveRunReapedOnlyWhenSilent /\ NoDoubleReap /\ TerminalAnnounced)
<1>1. Init => IInv BY InitIInv
<1>2. IInv /\ [Next]_vars => IInv'
  <2> SUFFICES ASSUME IInv, [Next]_vars PROVE IInv' OBVIOUS
  <2> QED BY StepTypeOK, StepShape, StepLease, StepHeld, StepAnnounced DEF IInv
<1>3. IInv => LiveRunReapedOnlyWhenSilent
  <2> SUFFICES ASSUME IInv, NEW r \in Expired, Alive(r), ~Renewing(r),
                      <<r, "renew">> \notin torn
               PROVE  \/ quiet[r] = Ttl
                      \/ <<r, "order">> \in torn /\ quiet[r] >= Ttl - MaxPublish
    BY DEF LiveRunReapedOnlyWhenSilent
  <2>1. r \in Run /\ sess[r].status = "running" /\ sess[r].lease = 0 BY DEF Expired
  <2>2. LeaseOk(r) /\ quiet[r] \in 0..Ttl BY <2>1 DEF IInv, LeaseInv, TypeOK
  <2> QED BY <2>1, <2>2, RunAssumption DEF LeaseOk
<1>4. IInv => TypeOK /\ NoDoubleReap /\ TerminalAnnounced BY DEF IInv
<1> QED BY <1>1, <1>2, <1>3, <1>4, PTL DEF Spec

\* finish(): a run whose row is terminal has told its readers, or the process
\* that settled it is still at it, or a fault swallowed the event; whatever
\* cancels, reaps, drains and crashes in between.
THEOREM TerminalAlwaysAnnounced == Spec => []TerminalAnnounced
BY RunsCorrect, PTL

=============================================================================
