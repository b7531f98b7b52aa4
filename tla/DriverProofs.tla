---------------------------- MODULE DriverProofs ----------------------------
(***************************************************************************)
(* The driver's promises for any catalog, any switches and bindings, any   *)
(* queries and tasks, any number of turns, tasks and retries.              *)
(***************************************************************************)
EXTENDS Driver, TLAPS

-----------------------------------------------------------------------------
\* Texts, models and calls.

\* Texts of different kinds, turns or slots are different.
LEMMA TextsDiffer ==
  /\ \A t, u : Q(t) = Q(u) => t = u
  /\ \A t, u, s : Q(t) # A(u) /\ Q(t) # T(u, s) /\ Q(t) # H(u, s) /\ Q(t) # R(u, s)
  /\ \A t, u, s : A(t) # T(u, s) /\ A(t) # H(u, s) /\ A(t) # R(u, s)
  /\ \A t, u, r, s : T(t, r) # R(u, s) /\ T(t, r) # H(u, s) /\ H(t, r) # R(u, s)
  /\ \A t, u, r, s : T(t, r) = T(u, s) => t = u /\ r = s
  /\ \A t, u, r, s : H(t, r) = H(u, s) => t = u /\ r = s
  /\ \A t, u, r, s : R(t, r) = R(u, s) => t = u /\ r = s
  /\ \A t, s : /\ Q(t)[1] = "query" /\ A(t)[1] = "answer" /\ T(t, s)[1] = "task"
               /\ H(t, s)[1] = "title" /\ R(t, s)[1] = "result"
BY DEF Q, A, T, H, R

\* A call that can only reach models in the perimeter.
Safe(c) ==
  /\ DOMAIN c = {"model", "left", "tries"}
  /\ Inside(c.model) /\ \A m \in c.left : Inside(m)

\* resilience.fallbacks keeps the residency of the model that failed.
LEMMA SafeCalling ==
  ASSUME NEW m, Inside(m), NEW private
  PROVE  Safe(Calling(m, private))
BY DEF Safe, Calling, Fallbacks, Inside

LEMMA SafeNext ==
  ASSUME NEW c, Safe(c), NEW d \in NextAttempts(c)
  PROVE  Safe(d)
<1>1. CASE c.tries < Retries
  <2>1. d = [c EXCEPT !.tries = @ + 1] BY <1>1 DEF NextAttempts
  <2> QED BY <2>1 DEF Safe
<1>2. CASE ~(c.tries < Retries)
  <2>1. PICK m \in c.left : d = [model |-> m, left |-> c.left \ {m}, tries |-> 0]
    BY <1>2 DEF NextAttempts
  <2> QED BY <2>1 DEF Safe
<1> QED BY <1>1, <1>2

LEMMA FirstBoxInside ==
  ASSUME Boxes # {}
  PROVE  Inside(FirstBox)
<1>1. CASE RealBoxes # {}
  <2>1. FirstBox \in RealBoxes BY <1>1 DEF FirstBox
  <2> QED BY <2>1 DEF RealBoxes, Boxes
<1>2. CASE RealBoxes = {}
  <2>1. FirstBox \in Boxes BY <1>2 DEF FirstBox
  <2> QED BY <2>1 DEF Boxes
<1> QED BY <1>1, <1>2

\* _reasoning_model of a pinned run: a model in the perimeter, if there is one.
LEMMA ReasoningInside ==
  ASSUME NEW m, NEW pin \in BOOLEAN, pin, Boxes # {}
  PROVE  Safe(Calling(ReasoningModel(m, pin), FALSE))
<1>1. Inside(ReasoningModel(m, pin)) BY FirstBoxInside DEF ReasoningModel
<1> QED BY <1>1, SafeCalling

\* What leaves is secret and leaves on the path named; nothing leaves to a model inside.
LEMMA LeavingIs ==
  ASSUME NEW texts, NEW via, NEW m
  PROVE  /\ \A x \in Leaving(texts, via, m) : x[2] = via
         /\ Inside(m) => Leaving(texts, via, m) = {}
         /\ texts \cap secret = {} => Leaving(texts, via, m) = {} /\ Outside(texts, via) = {}
BY DEF Leaving, Outside

-----------------------------------------------------------------------------
\* The inductive invariant.

Fields == DOMAIN NoTask

\* The text, the title or the result of task s is one that must stay.
Marked(s) == T(turn, s) \in secret \/ H(turn, s) \in secret \/ R(turn, s) \in secret

\* What the gate of decide_one will do with a task that must stay.
Must(spec) == Pins(spec) \/ spec.verdict = "block"

\* A task that holds a secret is pinned once it is decided, unless it was
\* stopped; a pinned one has met no seam outside and runs in the perimeter.
PlaceOk(s, t) ==
  /\ DOMAIN t = Fields /\ t.pin \in BOOLEAN
  /\ t.pc \in {"none", "decide", "embed", "label", "knn", "pick", "exec", "end"}
  /\ t.pc \in {"embed", "label", "knn"} => ~t.pin
  /\ t.pin => Boxes # {}
  /\ t.pc = "exec" /\ t.pin => Safe(t.call) /\ t.spec.runner # "claude_code"
  /\ t.outcome = "completed" => t.pc = "end"
  /\ Marked(s) => /\ t.pc # "none"
                  /\ t.pc = "decide" => Must(t.spec)
                  /\ t.pc # "decide" => t.pin \/ (t.pc = "end" /\ t.outcome = "blocked")

\* Its item is in progress only while it runs, or a Toto call has failed.
ItemOk(t, failed) == t.item = "in_progress" => t.pc = "exec" \/ (t.pc = "end" /\ failed)

TaskOk(s, t) == PlaceOk(s, t) /\ ItemOk(t, downs)

Before == {"idle", "refused", "author", "pretriage", "triage", "pretrivial", "trivial",
           "decompose", "redecompose"}
After == {"synthesize", "done", "revise", "failed"}

\* The nodes that send nothing of the run itself any more.
Loose == {"refused", "revise", "failed"}

\* A run whose query or tasks are secret is pinned, and a pinned run thinks inside.
RunOk ==
  /\ turn \in 0..MaxTurns /\ (pc # "idle" => turn # 0)
  /\ DOMAIN tasks = Slot /\ DOMAIN parts = 1..MaxTurns
  /\ pinned \in BOOLEAN /\ downs \in BOOLEAN
  /\ pc \in Before \cup {"dispatch"} \cup After
  /\ pinned => Boxes # {} \/ pc \in Loose
  /\ pinned /\ pc \in Thinking \ {"revise"} => Safe(call)
  /\ pc # "idle" /\ Q(turn) \in secret => pinned \/ pc \in Loose
  /\ pc \in Before => tasks = [s \in Slot |-> NoTask]
  /\ pc \in After => \A s \in Slot : tasks[s].pc \in {"none", "end"}
  /\ pc = "synthesize" => \A s \in Slot : tasks[s].pin => pinned
  /\ item = "in_progress" => downs \/ pc \in {"trivial", "failed"}

\* No text of a turn to come is secret, and none of a task outlives its run.
SecretOk ==
  /\ \A t \in 1..MaxTurns : t > turn => Q(t) \notin secret
  /\ \A t \in 1..MaxTurns, s \in Slot :
       T(t, s) \in secret \/ H(t, s) \in secret \/ R(t, s) \in secret
         => t = turn /\ pc # "idle"

IInv ==
  /\ RunOk /\ SecretOk /\ LocalStaysLocal
  /\ \A s \in Slot : TaskOk(s, tasks[s])

-----------------------------------------------------------------------------
\* What leaves.

\* A reasoning call sends nothing secret outside on the path of the run.
LEMMA ToldStays ==
  ASSUME IInv, pc \in Thinking
  PROVE  \A x \in Told : x[2] # "run"
<1>0. PICK stopped : stopped = {H(turn, s) : s \in Stopped} OBVIOUS
<1>1. Leaving(Prompt(pc) \ stopped, "run", call.model) = {}
  <2>1. CASE pc = "revise"
    <3>1. Prompt(pc) \ stopped = {} BY <2>1 DEF Prompt
    <3> QED BY <3>1, LeavingIs
  <2>2. CASE pc # "revise" /\ pinned
    <3>1. Safe(call) BY <2>2 DEF IInv, RunOk
    <3> QED BY <3>1, LeavingIs DEF Safe
  <2>3. CASE pc # "revise" /\ ~pinned
    <3>1. Q(turn) \notin secret BY <2>3 DEF IInv, RunOk, Thinking, Loose
    <3>2. ASSUME pc = "synthesize", NEW s \in Slot, Marked(s), tasks[s].pc # "none"
          PROVE  s \in Stopped
      <4>1. ~tasks[s].pin /\ tasks[s].pc = "end" BY <2>3, <3>2 DEF IInv, RunOk, After
      <4>2. TaskOk(s, tasks[s]) BY <3>2 DEF IInv
      <4> QED BY <3>2, <4>1, <4>2 DEF TaskOk, PlaceOk, Stopped
    <3>3. ASSUME pc = "synthesize", NEW s \in Results PROVE R(turn, s) \notin secret
      <4>1. s \in Slot /\ tasks[s].outcome = "completed" BY <3>3 DEF Results
      <4>2. TaskOk(s, tasks[s]) BY <4>1 DEF IInv
      <4>3. tasks[s].pc # "none" BY <4>1, <4>2 DEF TaskOk, PlaceOk
      <4>4. s \notin Stopped BY <4>1 DEF Stopped
      <4> QED BY <3>2, <3>3, <4>1, <4>3, <4>4 DEF Marked
    <3>4. ASSUME pc = "synthesize", NEW s \in Named, H(turn, s) \in secret
          PROVE  H(turn, s) \in stopped
      <4>1. s \in Slot /\ tasks[s].pc # "none" /\ Marked(s) BY <3>4 DEF Named, Marked
      <4> QED BY <1>0, <3>2, <3>4, <4>1
    <3>5. (Prompt(pc) \ stopped) \cap secret = {}
      BY <2>3, <3>1, <3>3, <3>4 DEF Prompt
    <3> QED BY <3>5, LeavingIs
  <2>4. pinned \in BOOLEAN BY DEF IInv, RunOk
  <2> QED BY <2>1, <2>2, <2>3, <2>4
<1>2. /\ \A x \in Leaving(Prompt(pc) \cap stopped, "blocked", call.model) : x[2] # "run"
      /\ \A x \in Leaving(Carded, "card", call.model) : x[2] # "run"
      /\ \A x \in Leaving(Earlier, "history", call.model) : x[2] # "run"
  BY LeavingIs
<1> QED BY <1>0, <1>1, <1>2 DEF Told

LEMMA SendsStay ==
  ASSUME IInv, pc \in Thinking, Sends
  PROVE  LocalStaysLocal'
<1>1. LocalStaysLocal /\ \A x \in Told : x[2] # "run" BY ToldStays DEF IInv
<1> QED BY <1>1 DEF Sends, LocalStaysLocal

\* What Toto is told is not on the path of the run.
LEMMA FiledStays ==
  ASSUME NEW texts
  PROVE  \A x \in Filed(texts) : x[2] # "run"
BY DEF Filed, Outside

\* Nothing of an unpinned task is secret.
LEMMA UnpinnedOpen ==
  ASSUME IInv, NEW s \in Slot, ~tasks[s].pin, tasks[s].pc \notin {"decide", "end"}
  PROVE  {T(turn, s)} \cap secret = {}
<1>1. TaskOk(s, tasks[s]) BY DEF IInv
<1> QED BY <1>1 DEF TaskOk, PlaceOk, Marked

\* The execution of a task sends nothing secret outside.
LEMMA ExecStays ==
  ASSUME IInv, NEW s \in Slot, tasks[s].pc = "exec"
  PROVE  /\ ExecLeaves(s) = {}
         /\ ~tasks[s].pin => Outside({T(turn, s)}, "run") = {}
<1>1. TaskOk(s, tasks[s]) BY DEF IInv
<1>2. CASE tasks[s].pin
  <2>1. Inside(tasks[s].call.model) /\ tasks[s].spec.runner # "claude_code"
    BY <1>1, <1>2 DEF TaskOk, PlaceOk, Safe
  <2> QED BY <1>2, <2>1, LeavingIs DEF ExecLeaves
<1>3. CASE ~tasks[s].pin
  <2>1. {T(turn, s)} \cap secret = {} BY <1>3, UnpinnedOpen
  <2> QED BY <2>1, LeavingIs DEF ExecLeaves
<1> QED BY <1>1, <1>2, <1>3 DEF TaskOk, PlaceOk

-----------------------------------------------------------------------------
\* The steps of a task.

\* One task moves; the others, the run and the secrets stay.
LEMMA StepTask ==
  ASSUME IInv, NEW s \in Slot, NEW n, OnlyTask(s), Set(s, n), TaskOk(s, n)',
         secret' = secret, downs => downs', downs' \in BOOLEAN, LocalStaysLocal'
  PROVE  IInv'
<1>1. /\ DOMAIN tasks = Slot /\ turn \in 0..MaxTurns /\ pc = "dispatch" /\ turn # 0
      /\ UNCHANGED <<setup, turn, pc, query, pinned, call, parts, item>>
  BY DEF IInv, RunOk, OnlyTask
<1>2. DOMAIN tasks' = Slot /\ tasks'[s] = n /\ \A r \in Slot : r # s => tasks'[r] = tasks[r]
  BY <1>1 DEF Set
<1>3. ASSUME NEW r \in Slot PROVE TaskOk(r, tasks[r])'
  <2>1. CASE r = s BY <1>2, <2>1
  <2>2. CASE r # s
    <3>1. tasks'[r] = tasks[r] /\ TaskOk(r, tasks[r]) BY <1>2, <2>2 DEF IInv
    <3>2. (Marked(r)' => Marked(r)) /\ (Must(tasks[r].spec) => Must(tasks[r].spec)')
      BY <1>1, <3>1 DEF Marked, Must, Pins
    <3>3. Boxes' = Boxes BY <1>1 DEF Boxes, Inside, Models, Entry
    <3>4. Safe(tasks[r].call) => Safe(tasks[r].call)'
      BY <1>1, <3>1 DEF Safe, Inside, Models, Entry
    <3> QED BY <3>1, <3>2, <3>3, <3>4 DEF TaskOk, PlaceOk, ItemOk
  <2> QED BY <2>1, <2>2
<1>4. SecretOk' BY <1>1 DEF IInv, SecretOk
<1>5. RunOk'
  <2>1. Boxes' = Boxes BY <1>1 DEF Boxes, Inside, Models, Entry
  <2> QED BY <1>1, <1>2, <2>1 DEF IInv, RunOk, Thinking, Before, After
<1> QED BY <1>3, <1>4, <1>5 DEF IInv

\* The same with what is to show in the state before the step.
LEMMA TaskMoves ==
  ASSUME IInv, NEW s \in Slot, NEW n, OnlyTask(s), Set(s, n), secret' = secret,
         PlaceOk(s, n), ItemOk(n, downs'), downs => downs', downs' \in BOOLEAN,
         LocalStaysLocal'
  PROVE  IInv'
<1>1. setup' = setup /\ turn' = turn /\ pinned' = pinned BY DEF OnlyTask
<1>2. Boxes' = Boxes BY <1>1 DEF Boxes, Inside, Models, Entry
<1>3. Safe(n.call) => Safe(n.call)' BY <1>1 DEF Safe, Inside, Models, Entry
<1>4. (Marked(s)' => Marked(s)) /\ (Must(n.spec) => Must(n.spec)')
  BY <1>1 DEF Marked, Must, Pins
<1>5. TaskOk(s, n)' BY <1>2, <1>3, <1>4 DEF TaskOk, PlaceOk, ItemOk
<1> QED BY <1>5, StepTask

\* out is what it was, or gained nothing.
LEMMA OutStays ==
  ASSUME IInv, UNCHANGED out \/ (\E x : x = {} /\ out' = out \cup x)
  PROVE  LocalStaysLocal'
BY DEF IInv, LocalStaysLocal

\* emit_task_block, for a task whose item is not in progress.
LEMMA BlockedIs ==
  ASSUME IInv, NEW s \in Slot, tasks[s].pc \in {"decide", "pick"}, NEW pin \in BOOLEAN,
         Blocked(s, pin)
  PROVE  \E n : /\ Set(s, n) /\ DOMAIN n = Fields /\ n.pc = "end" /\ n.outcome = "blocked"
                /\ n.pin = pin /\ n.item # "in_progress"
                /\ (downs => downs') /\ downs' \in BOOLEAN
<1>1. DOMAIN tasks[s] = Fields /\ tasks[s].item # "in_progress" /\ downs \in BOOLEAN
  BY DEF IInv, RunOk, TaskOk, PlaceOk, ItemOk
<1>2. CASE /\ Set(s, [tasks[s] EXCEPT !.pc = "end", !.outcome = "blocked", !.pin = pin,
                             !.item = IF @ = "none" THEN @ ELSE "done"])
           /\ downs' = downs
  <2>1. PICK n : n = [tasks[s] EXCEPT !.pc = "end", !.outcome = "blocked", !.pin = pin,
                             !.item = IF @ = "none" THEN @ ELSE "done"]
    OBVIOUS
  <2>2. /\ DOMAIN n = Fields /\ n.pc = "end" /\ n.outcome = "blocked"
        /\ n.pin = pin /\ n.item # "in_progress"
    BY <1>1, <2>1 DEF Fields, NoTask
  <2> QED BY <1>1, <1>2, <2>1, <2>2
<1>3. CASE /\ Set(s, [tasks[s] EXCEPT !.pc = "end", !.outcome = "blocked", !.pin = pin])
           /\ downs' = (downs \/ tasks[s].item # "none")
  <2>1. PICK n : n = [tasks[s] EXCEPT !.pc = "end", !.outcome = "blocked", !.pin = pin]
    OBVIOUS
  <2>2. /\ DOMAIN n = Fields /\ n.pc = "end" /\ n.outcome = "blocked"
        /\ n.pin = pin /\ n.item # "in_progress"
    BY <1>1, <2>1 DEF Fields, NoTask
  <2> QED BY <1>1, <1>3, <2>1, <2>2
<1> QED BY <1>2, <1>3 DEF Blocked

\* decide_one: a task with something to keep is pinned or stopped.
LEMMA DecideKeeps ==
  ASSUME IInv, NEW s \in Slot, Decide(s)
  PROVE  IInv'
<1>1. /\ OnlyTask(s) /\ tasks[s].pc = "decide" /\ TaskOk(s, tasks[s])
      /\ UNCHANGED <<out, secret>>
  BY DEF IInv, Decide
<1>2. DOMAIN tasks[s] = Fields /\ downs \in BOOLEAN /\ pinned \in BOOLEAN
      /\ tasks[s].item # "in_progress" /\ tasks[s].outcome # "completed"
      /\ (Marked(s) => Must(tasks[s].spec))
  BY <1>1 DEF IInv, RunOk, TaskOk, PlaceOk, ItemOk
<1>3. PICK spec, pin : spec = tasks[s].spec /\ pin \in BOOLEAN /\ (pin <=> Pins(spec))
                       /\ pin = Pins(spec)
  BY DEF Pins
<1>4. \/ Blocked(s, FALSE)
      \/ /\ ~(pin /\ Boxes = {}) /\ spec.verdict # "block" /\ downs' = downs
         /\ \E m \in Resolve(spec) :
              LET t == [tasks[s] EXCEPT !.pin = pin, !.model = m,
                               !.lane = Entry(m).lane, !.private = spec.policy]
              IN  Set(s, [t EXCEPT !.pc = NextSeam(t, "decide")])
  BY <1>3 DEF Decide
<1>5. LocalStaysLocal' BY <1>1, OutStays
<1>6. CASE Blocked(s, FALSE)
  <2>1. PICK n : /\ Set(s, n) /\ DOMAIN n = Fields /\ n.pc = "end" /\ n.outcome = "blocked"
                 /\ n.pin = FALSE /\ n.item # "in_progress"
                 /\ (downs => downs') /\ downs' \in BOOLEAN
    BY <1>1, <1>6, BlockedIs
  <2>2. PlaceOk(s, n) /\ ItemOk(n, downs') BY <2>1 DEF PlaceOk, ItemOk
  <2> QED BY <1>1, <1>5, <2>1, <2>2, TaskMoves
<1>7. CASE /\ ~(pin /\ Boxes = {}) /\ spec.verdict # "block" /\ downs' = downs
           /\ \E m \in Resolve(spec) :
                LET t == [tasks[s] EXCEPT !.pin = pin, !.model = m,
                                 !.lane = Entry(m).lane, !.private = spec.policy]
                IN  Set(s, [t EXCEPT !.pc = NextSeam(t, "decide")])
  <2>1. PICK m, t : /\ t = [tasks[s] EXCEPT !.pin = pin, !.model = m,
                                  !.lane = Entry(m).lane, !.private = spec.policy]
                    /\ Set(s, [t EXCEPT !.pc = NextSeam(t, "decide")])
    BY <1>7
  <2>2. /\ DOMAIN t = Fields /\ t.pin = pin /\ t.outcome # "completed"
        /\ t.item # "in_progress"
    BY <1>2, <2>1 DEF Fields, NoTask
  <2>3. PICK n : n = [t EXCEPT !.pc = NextSeam(t, "decide")] OBVIOUS
  <2>4. NextSeam(t, "decide") \in {"embed", "label", "knn", "pick"}
        /\ (pin => NextSeam(t, "decide") = "pick")
    BY <2>2 DEF NextSeam
  <2>5. /\ DOMAIN n = Fields /\ n.pin = pin /\ n.outcome # "completed"
        /\ n.item # "in_progress" /\ n.pc = NextSeam(t, "decide")
    BY <2>2, <2>3 DEF Fields, NoTask
  <2>6. Marked(s) => pin BY <1>2, <1>3, <1>7 DEF Must
  <2>7. PlaceOk(s, n) BY <1>3, <1>7, <2>4, <2>5, <2>6 DEF PlaceOk
  <2>8. ItemOk(n, downs') BY <2>5 DEF ItemOk
  <2> QED BY <1>1, <1>2, <1>5, <1>7, <2>1, <2>3, <2>7, <2>8, TaskMoves
<1> QED BY <1>4, <1>6, <1>7

\* What a task at a seam outside is.
LEMMA AtSeam ==
  ASSUME IInv, NEW s \in Slot, tasks[s].pc \in {"embed", "label", "knn"}
  PROVE  /\ PlaceOk(s, tasks[s]) /\ DOMAIN tasks[s] = Fields /\ ~Marked(s)
         /\ tasks[s].pin = FALSE /\ tasks[s].item # "in_progress"
         /\ tasks[s].outcome # "completed" /\ downs \in BOOLEAN
         /\ Outside({T(turn, s)}, "run") = {}
         /\ \A m : Leaving({T(turn, s)}, "run", m) = {}
<1>1. TaskOk(s, tasks[s]) /\ downs \in BOOLEAN BY DEF IInv, RunOk
<1>2. /\ PlaceOk(s, tasks[s]) /\ DOMAIN tasks[s] = Fields /\ ~Marked(s)
      /\ tasks[s].pin = FALSE /\ tasks[s].item # "in_progress"
      /\ tasks[s].outcome # "completed"
  BY <1>1 DEF TaskOk, PlaceOk, ItemOk
<1>3. {T(turn, s)} \cap secret = {} BY <1>2 DEF Marked
<1> QED BY <1>1, <1>2, <1>3, LeavingIs

\* An open task may go anywhere but to its end with a result.
LEMMA OpenTask ==
  ASSUME IInv, NEW s \in Slot, tasks[s].pc \in {"embed", "label", "knn"}, OnlyTask(s),
         NEW n, Set(s, n), DOMAIN n = Fields, n.pin = FALSE, n.item # "in_progress",
         n.outcome # "completed", n.pc \in {"embed", "label", "knn", "pick", "end"},
         UNCHANGED <<secret, downs>>, LocalStaysLocal'
  PROVE  IInv'
<1>1. ~Marked(s) /\ downs \in BOOLEAN BY AtSeam
<1>2. PlaceOk(s, n) /\ ItemOk(n, downs') BY <1>1 DEF PlaceOk, ItemOk
<1> QED BY <1>1, <1>2, TaskMoves

LEMMA SeamIs ==
  ASSUME NEW t, NEW x
  PROVE  NextSeam(t, x) \in {"embed", "label", "knn", "pick"}
BY DEF NextSeam

LEMMA EmbedKeeps ==
  ASSUME IInv, NEW s \in Slot, Embed(s)
  PROVE  IInv'
<1>1. /\ OnlyTask(s) /\ tasks[s].pc = "embed" /\ UNCHANGED <<secret, downs>>
      /\ out' = out \cup Outside({T(turn, s)}, "run")
      /\ Set(s, [tasks[s] EXCEPT !.pc = NextSeam(tasks[s], "embed")])
  BY DEF Embed
<1>2. LocalStaysLocal' BY <1>1, AtSeam, OutStays
<1>3. PICK n : n = [tasks[s] EXCEPT !.pc = NextSeam(tasks[s], "embed")] OBVIOUS
<1>4. /\ DOMAIN n = Fields /\ n.pin = FALSE /\ n.item # "in_progress"
      /\ n.outcome # "completed" /\ n.pc = NextSeam(tasks[s], "embed")
  BY <1>1, <1>3, AtSeam DEF Fields, NoTask
<1> QED BY <1>1, <1>2, <1>3, <1>4, SeamIs, OpenTask

LEMMA LabelKeeps ==
  ASSUME IInv, NEW s \in Slot, Label(s)
  PROVE  IInv'
<1>1. /\ OnlyTask(s) /\ tasks[s].pc = "label" /\ UNCHANGED <<secret, downs>>
      /\ out' = out \cup Leaving({T(turn, s)}, "run", setup.label)
  BY DEF Label
<1>2. LocalStaysLocal' BY <1>1, AtSeam, OutStays
<1>3. PICK t : /\ \/ t = tasks[s]
                  \/ t = [tasks[s] EXCEPT !.model = Binding, !.lane = Entry(Binding).lane,
                            !.bound = setup.user # None \/ setup.team # None,
                            !.private = FALSE]
               /\ Set(s, [t EXCEPT !.pc = NextSeam(t, "label")])
  BY DEF Label
<1>4. /\ DOMAIN t = Fields /\ t.pin = FALSE /\ t.item # "in_progress"
      /\ t.outcome # "completed"
  BY <1>1, <1>3, AtSeam DEF Fields, NoTask
<1>5. PICK n : n = [t EXCEPT !.pc = NextSeam(t, "label")] OBVIOUS
<1>6. /\ DOMAIN n = Fields /\ n.pin = FALSE /\ n.item # "in_progress"
      /\ n.outcome # "completed" /\ n.pc = NextSeam(t, "label")
  BY <1>4, <1>5 DEF Fields, NoTask
<1> QED BY <1>1, <1>2, <1>3, <1>5, <1>6, SeamIs, OpenTask

LEMMA KnnKeeps ==
  ASSUME IInv, NEW s \in Slot, Knn(s)
  PROVE  IInv'
<1>1. /\ OnlyTask(s) /\ tasks[s].pc = "knn" /\ UNCHANGED <<secret, downs>>
      /\ out' = out \cup Outside({T(turn, s)}, "run")
  BY DEF Knn
<1>2. LocalStaysLocal' BY <1>1, AtSeam, OutStays
<1>3. PICK m : Set(s, [tasks[s] EXCEPT !.pc = "pick", !.model = m]) BY DEF Knn
<1>4. PICK n : n = [tasks[s] EXCEPT !.pc = "pick", !.model = m] OBVIOUS
<1>5. /\ DOMAIN n = Fields /\ n.pin = FALSE /\ n.item # "in_progress"
      /\ n.outcome # "completed" /\ n.pc = "pick"
  BY <1>1, <1>4, AtSeam DEF Fields, NoTask
<1> QED BY <1>1, <1>2, <1>3, <1>4, <1>5, OpenTask

LEMMA KnnRaisesKeeps ==
  ASSUME IInv, NEW s \in Slot, KnnRaises(s)
  PROVE  IInv'
<1>1. /\ OnlyTask(s) /\ tasks[s].pc = "knn" /\ UNCHANGED <<out, secret, downs>>
      /\ Set(s, [tasks[s] EXCEPT !.pc = "end", !.outcome = "failed"])
  BY DEF KnnRaises
<1>2. LocalStaysLocal' BY <1>1, OutStays
<1>3. PICK n : n = [tasks[s] EXCEPT !.pc = "end", !.outcome = "failed"] OBVIOUS
<1>4. /\ DOMAIN n = Fields /\ n.pin = FALSE /\ n.item # "in_progress"
      /\ n.outcome # "completed" /\ n.pc = "end"
  BY <1>1, <1>3, AtSeam DEF Fields, NoTask
<1> QED BY <1>1, <1>2, <1>3, <1>4, OpenTask

\* The residency re-check: what goes to its execution pinned goes to a box.
LEMMA RecheckIs ==
  ASSUME NEW t, DOMAIN t = Fields, t.pin \in BOOLEAN, t.pin => Boxes # {}
  PROVE  /\ DOMAIN Recheck(t) = Fields /\ Recheck(t).pin = t.pin
         /\ Recheck(t).item = t.item /\ Recheck(t).outcome = t.outcome
         /\ t.pin => Inside(Recheck(t).model)
<1>1. CASE t.pin /\ ~Inside(t.model)
  <2>1. Recheck(t) = [t EXCEPT !.model = FirstBox, !.lane = Entry(FirstBox).lane,
                               !.private = TRUE]
    BY <1>1 DEF Recheck
  <2> QED BY <1>1, <2>1, FirstBoxInside DEF Fields, NoTask
<1>2. CASE ~(t.pin /\ ~Inside(t.model))
  BY <1>2 DEF Recheck
<1> QED BY <1>1, <1>2

LEMMA PickKeeps ==
  ASSUME IInv, NEW s \in Slot, Pick(s)
  PROVE  IInv'
<1>1. /\ OnlyTask(s) /\ tasks[s].pc = "pick" /\ UNCHANGED <<out, secret>>
      /\ TaskOk(s, tasks[s]) /\ downs \in BOOLEAN
  BY DEF IInv, RunOk, Pick
<1>2. LocalStaysLocal' BY <1>1, OutStays
<1>3. /\ DOMAIN tasks[s] = Fields /\ tasks[s].pin \in BOOLEAN
      /\ (tasks[s].pin => Boxes # {}) /\ tasks[s].item # "in_progress"
      /\ tasks[s].outcome # "completed" /\ (Marked(s) => tasks[s].pin)
  BY <1>1 DEF TaskOk, PlaceOk, ItemOk
<1>4. PICK p :
        LET over == IF p = None THEN tasks[s]
                    ELSE [tasks[s] EXCEPT !.model = p, !.lane = Entry(p).lane]
            t == Recheck(over)
        IN  IF t.pin /\ t.spec.runner = "claude_code"
            THEN Blocked(s, TRUE)
            ELSE LET going == [t EXCEPT !.pc = "exec", !.call = Calling(t.model, t.private)] IN
                 \/ /\ Set(s, [going EXCEPT !.item = IF @ = "none" THEN @ ELSE "in_progress"])
                    /\ downs' = downs
                 \/ Set(s, going) /\ downs' = (downs \/ t.item # "none")
  BY DEF Pick
<1>5. PICK over : over = IF p = None THEN tasks[s]
                         ELSE [tasks[s] EXCEPT !.model = p, !.lane = Entry(p).lane]
  OBVIOUS
<1>6. PICK t : t = Recheck(over) OBVIOUS
<1>7. IF t.pin /\ t.spec.runner = "claude_code"
       THEN Blocked(s, TRUE)
       ELSE LET going == [t EXCEPT !.pc = "exec", !.call = Calling(t.model, t.private)] IN
            \/ /\ Set(s, [going EXCEPT !.item = IF @ = "none" THEN @ ELSE "in_progress"])
               /\ downs' = downs
            \/ Set(s, going) /\ downs' = (downs \/ t.item # "none")
  BY <1>4, <1>5, <1>6
<1>8. /\ DOMAIN over = Fields /\ over.pin = tasks[s].pin /\ over.item = tasks[s].item
      /\ over.outcome = tasks[s].outcome
  BY <1>3, <1>5 DEF Fields, NoTask
<1>9. /\ DOMAIN t = Fields /\ t.pin = tasks[s].pin /\ t.item = tasks[s].item
      /\ t.outcome = tasks[s].outcome /\ (t.pin => Inside(t.model))
  BY <1>3, <1>8, <1>6, RecheckIs
<1>10. CASE t.pin /\ t.spec.runner = "claude_code"
  <2>1. PICK n : /\ Set(s, n) /\ DOMAIN n = Fields /\ n.pc = "end" /\ n.outcome = "blocked"
                 /\ n.pin = TRUE /\ n.item # "in_progress"
                 /\ (downs => downs') /\ downs' \in BOOLEAN
    BY <1>1, <1>10, <1>7, BlockedIs
  <2>2. PlaceOk(s, n) /\ ItemOk(n, downs') BY <1>3, <1>9, <1>10, <2>1 DEF PlaceOk, ItemOk
  <2> QED BY <1>1, <1>2, <2>1, <2>2, TaskMoves
<1>11. CASE ~(t.pin /\ t.spec.runner = "claude_code")
  <2>1. PICK c, going : /\ c = Calling(t.model, t.private)
                        /\ going = [t EXCEPT !.pc = "exec", !.call = c]
    OBVIOUS
  <2>2. \/ /\ Set(s, [going EXCEPT !.item = IF @ = "none" THEN @ ELSE "in_progress"])
           /\ downs' = downs
        \/ Set(s, going) /\ downs' = (downs \/ t.item # "none")
    BY <1>11, <1>7, <2>1
  <2>3. PICK n : /\ n = going \/ n = [going EXCEPT !.item = IF @ = "none" THEN @
                                                            ELSE "in_progress"]
                 /\ Set(s, n)
    BY <2>2
  <2>4. (downs => downs') /\ downs' \in BOOLEAN BY <1>1, <2>2
  <2>5. /\ DOMAIN going = Fields /\ going.pin = t.pin /\ going.pc = "exec" /\ going.call = c
        /\ going.outcome = t.outcome /\ going.spec = t.spec
    BY <1>9, <2>1 DEF Fields, NoTask
  <2>6. /\ DOMAIN n = Fields /\ n.pin = t.pin /\ n.pc = "exec" /\ n.call = c
        /\ n.outcome = t.outcome /\ n.spec = t.spec
    BY <2>3, <2>5 DEF Fields, NoTask
  <2>7. t.pin => Safe(c) BY <1>9, <2>1, SafeCalling
  <2>8. PlaceOk(s, n) BY <1>3, <1>9, <1>11, <2>6, <2>7 DEF PlaceOk
  <2>9. ItemOk(n, downs') BY <2>6 DEF ItemOk
  <2> QED BY <1>1, <1>2, <2>3, <2>4, <2>8, <2>9, TaskMoves
<1> QED BY <1>10, <1>11

\* What a task in its execution is.
LEMMA AtExec ==
  ASSUME IInv, NEW s \in Slot, tasks[s].pc = "exec"
  PROVE  /\ PlaceOk(s, tasks[s]) /\ DOMAIN tasks[s] = Fields /\ tasks[s].pin \in BOOLEAN
         /\ (tasks[s].pin => Boxes # {}) /\ (Marked(s) => tasks[s].pin)
         /\ tasks[s].outcome # "completed" /\ downs \in BOOLEAN
BY DEF IInv, RunOk, TaskOk, PlaceOk

\* dispatch_one: a provider's failure is retried among models that fit.
LEMMA ExecRetriesKeeps ==
  ASSUME IInv, NEW s \in Slot, ExecRetries(s)
  PROVE  IInv'
<1>1. /\ OnlyTask(s) /\ tasks[s].pc = "exec" /\ out' = out \cup ExecLeaves(s)
      /\ UNCHANGED <<secret, downs>>
  BY DEF ExecRetries, Executes
<1>2. LocalStaysLocal' BY <1>1, ExecStays, OutStays
<1>3. PICK c \in NextAttempts(tasks[s].call) : Set(s, [tasks[s] EXCEPT !.call = c])
  BY DEF ExecRetries
<1>4. PICK n : n = [tasks[s] EXCEPT !.call = c] OBVIOUS
<1>5. /\ DOMAIN n = Fields /\ n.pin = tasks[s].pin /\ n.pc = "exec" /\ n.call = c
      /\ n.outcome = tasks[s].outcome /\ n.spec = tasks[s].spec
  BY <1>1, <1>4, AtExec DEF Fields, NoTask
<1>6. tasks[s].pin => Safe(c) /\ tasks[s].spec.runner # "claude_code"
  BY <1>1, <1>3, AtExec, SafeNext DEF PlaceOk
<1>7. PlaceOk(s, n) BY <1>1, <1>5, <1>6, AtExec DEF PlaceOk
<1>8. ItemOk(n, downs') BY <1>5 DEF ItemOk
<1> QED BY <1>1, <1>2, <1>3, <1>4, <1>7, <1>8, AtExec, TaskMoves

\* The end of an execution, whichever: the item is settled, or Toto failed.
LEMMA SettledKeeps ==
  ASSUME IInv, NEW s \in Slot, tasks[s].pc = "exec", OnlyTask(s), secret' = secret,
         NEW t, DOMAIN t = Fields, t.pc = "end", t.pin = tasks[s].pin,
         Settled(s, t), LocalStaysLocal'
  PROVE  IInv'
<1>1. PICK n : /\ Set(s, n)
               /\ \/ n = [t EXCEPT !.item = IF @ = "none" THEN @ ELSE "done"] /\ downs' = downs
                  \/ n = t /\ downs' = (downs \/ t.item # "none")
  BY DEF Settled
<1>2. /\ DOMAIN n = Fields /\ n.pc = "end" /\ n.pin = t.pin
      /\ (n.item = "in_progress" => downs')
  BY <1>1 DEF Fields, NoTask
<1>3. (downs => downs') /\ downs' \in BOOLEAN
  <2>1. downs \in BOOLEAN BY AtExec
  <2>2. downs' = downs \/ downs' = (downs \/ t.item # "none") BY <1>1
  <2> QED BY <2>1, <2>2
<1>4. PlaceOk(s, n) /\ ItemOk(n, downs') BY <1>2, AtExec DEF PlaceOk, ItemOk
<1> QED BY <1>1, <1>3, <1>4, TaskMoves

LEMMA ExecFailsKeeps ==
  ASSUME IInv, NEW s \in Slot, ExecFails(s)
  PROVE  IInv'
<1>1. /\ OnlyTask(s) /\ tasks[s].pc = "exec" /\ out' = out \cup ExecLeaves(s)
      /\ secret' = secret
  BY DEF ExecFails, Executes
<1>2. LocalStaysLocal' BY <1>1, ExecStays, OutStays
<1>3. PICK t : /\ t = [tasks[s] EXCEPT !.pc = "end", !.outcome = "failed", !.call = NoCall]
               /\ Settled(s, t)
  BY DEF ExecFails
<1>4. DOMAIN t = Fields /\ t.pc = "end" /\ t.pin = tasks[s].pin
  BY <1>1, <1>3, AtExec DEF Fields, NoTask
<1> QED BY <1>1, <1>2, <1>3, <1>4, SettledKeeps

LEMMA ExecDoneKeeps ==
  ASSUME IInv, NEW s \in Slot, ExecDone(s)
  PROVE  IInv'
<1>1. /\ OnlyTask(s) /\ tasks[s].pc = "exec" /\ secret' = secret
      /\ out' = out \cup ExecLeaves(s)
                \cup (IF setup.corpus /\ ~tasks[s].pin THEN Outside({T(turn, s)}, "run") ELSE {})
  BY DEF ExecDone
<1>2. LocalStaysLocal'
  <2>1. out' = out BY <1>1, ExecStays
  <2> QED BY <2>1, OutStays
<1>3. PICK r, t : /\ t = [tasks[s] EXCEPT !.pc = "end", !.outcome = "completed", !.ran = r,
                                          !.call = NoCall]
                  /\ Settled(s, t)
  BY DEF ExecDone
<1>4. DOMAIN t = Fields /\ t.pc = "end" /\ t.pin = tasks[s].pin
  BY <1>1, <1>3, AtExec DEF Fields, NoTask
<1> QED BY <1>1, <1>2, <1>3, <1>4, SettledKeeps

LEMMA TaskStepKeeps ==
  ASSUME IInv, NEW s \in Slot, TaskStep(s)
  PROVE  IInv'
BY DecideKeeps, EmbedKeeps, LabelKeeps, KnnKeeps, KnnRaisesKeeps, PickKeeps,
   ExecRetriesKeeps, ExecFailsKeeps, ExecDoneKeeps DEF TaskStep

-----------------------------------------------------------------------------
\* The steps of the run.

\* Before the tasks exist nothing of a task is secret.
LEMMA NoneMarked ==
  ASSUME IInv, pc \in Before
  PROVE  \A s \in Slot : ~Marked(s) /\ tasks[s] = NoTask
<1> SUFFICES ASSUME NEW s \in Slot PROVE ~Marked(s) /\ tasks[s] = NoTask OBVIOUS
<1>1. tasks[s] = NoTask BY DEF IInv, RunOk
<1>2. TaskOk(s, tasks[s]) BY DEF IInv
<1> QED BY <1>1, <1>2 DEF TaskOk, PlaceOk, NoTask

\* The run goes on with the same tasks, secrets and catalog.
LEMMA TasksStay ==
  ASSUME IInv, UNCHANGED <<setup, turn, tasks, secret>>, downs => downs', pinned => pinned'
  PROVE  /\ \A s \in Slot : TaskOk(s, tasks[s])'
         /\ Boxes' = Boxes
<1>1. Boxes' = Boxes BY DEF Boxes, Inside, Models, Entry
<1>2. ASSUME NEW s \in Slot PROVE TaskOk(s, tasks[s])'
  <2>1. TaskOk(s, tasks[s]) BY DEF IInv
  <2>2. (Marked(s)' => Marked(s)) /\ (Must(tasks[s].spec) => Must(tasks[s].spec)')
    BY DEF Marked, Must, Pins
  <2>3. Safe(tasks[s].call) => Safe(tasks[s].call)' BY DEF Safe, Inside, Models, Entry
  <2> QED BY <1>1, <2>1, <2>2, <2>3 DEF TaskOk, PlaceOk, ItemOk
<1> QED BY <1>1, <1>2

\* The run moves on between two nodes: what is left to show.
LEMMA RunMoves ==
  ASSUME IInv, pc # "idle", UNCHANGED <<setup, turn, tasks, secret>>,
         downs => downs', downs' \in BOOLEAN, pinned' \in BOOLEAN, pinned => pinned',
         pinned' => Boxes # {} \/ pc' \in Loose, pc \in Loose => pc' \in Loose,
         LocalStaysLocal', DOMAIN parts' = 1..MaxTurns,
         pc' \in (Before \ {"idle"}) \cup {"dispatch"} \cup After,
         pc' \in Before => pc \in Before,
         pc' \in After => \A s \in Slot : tasks[s].pc \in {"none", "end"},
         pc' = "synthesize" => \A s \in Slot : tasks[s].pin => pinned',
         pinned' /\ pc' \in Thinking \ {"revise"} => Safe(call'),
         item' = "in_progress" => downs' \/ pc' \in {"trivial", "failed"}
  PROVE  IInv'
<1>1. /\ \A s \in Slot : TaskOk(s, tasks[s])'
      /\ Boxes' = Boxes
  BY TasksStay
<1>2. pinned' /\ pc' \in Thinking \ {"revise"} => Safe(call)'
  <2>1. Safe(call') => Safe(call)' BY DEF Safe, Inside, Models, Entry
  <2> QED BY <2>1
<1>3. pc' # "idle" BY DEF Before, After
<1>4. pc' \in Before \cup {"dispatch"} \cup After OBVIOUS
<1>5. RunOk' BY <1>1, <1>2, <1>3, <1>4 DEF IInv, RunOk
<1>6. SecretOk' BY <1>3 DEF IInv, SecretOk
<1> QED BY <1>1, <1>5, <1>6 DEF IInv

\* What a run underway is.
LEMMA UnderwayIs ==
  ASSUME IInv, pc \notin {"idle", "refused"}
  PROVE  /\ pinned \in BOOLEAN /\ downs \in BOOLEAN
         /\ (pinned /\ pc \notin Loose => Boxes # {})
         /\ DOMAIN parts = 1..MaxTurns /\ turn \in 1..MaxTurns
         /\ pc \in Before \/ pc \in After => \A s \in Slot : tasks[s].pc \in {"none", "end"}
         /\ \A m : pinned /\ pc \notin Loose
                    => Safe(Calling(ReasoningModel(m, pinned), FALSE))
<1>1. /\ pinned \in BOOLEAN /\ downs \in BOOLEAN
      /\ (pinned /\ pc \notin Loose => Boxes # {})
      /\ DOMAIN parts = 1..MaxTurns /\ turn \in 1..MaxTurns
  BY DEF IInv, RunOk
<1>2. pc \in Before => \A s \in Slot : tasks[s].pc \in {"none", "end"}
  BY NoneMarked DEF NoTask
<1>3. pc \in After => \A s \in Slot : tasks[s].pc \in {"none", "end"}
  BY DEF IInv, RunOk
<1>4. \A m : pinned /\ pc \notin Loose => Safe(Calling(ReasoningModel(m, pinned), FALSE))
  BY <1>1, ReasoningInside
<1> QED BY <1>1, <1>2, <1>3, <1>4

LEMMA TriageKeeps == ASSUME IInv, Triage PROVE IInv'
<1>1. /\ pc = "pretriage"
      /\ UNCHANGED <<setup, turn, query, pinned, tasks, parts, item, out, secret, downs>>
      /\ pc' \in {"triage", "pretrivial", "decompose"}
      /\ pc' = "pretrivial" \/ \E m : call' = Calling(ReasoningModel(m, pinned), FALSE)
  BY DEF Triage, Think
<1>2. LocalStaysLocal' BY <1>1, OutStays
<1>3. pinned /\ pc' \in Thinking \ {"revise"} => Safe(call')
  BY <1>1, UnderwayIs DEF Thinking, Loose
<1>4. item # "in_progress" \/ downs BY <1>1 DEF IInv, RunOk
<1> QED BY <1>1, <1>2, <1>3, <1>4, UnderwayIs, RunMoves DEF Before, After, Loose

LEMMA ThinkRetriesKeeps == ASSUME IInv, ThinkRetries PROVE IInv'
<1>1. /\ pc \in Thinking /\ Sends /\ call' \in NextAttempts(call)
      /\ UNCHANGED <<setup, turn, pc, query, pinned, tasks, parts, item, secret, downs>>
  BY DEF ThinkRetries
<1>2. LocalStaysLocal' BY <1>1, SendsStay
<1>3. pinned /\ pc \in Thinking \ {"revise"} => Safe(call')
  <2>1. pinned /\ pc \in Thinking \ {"revise"} => Safe(call) BY DEF IInv, RunOk
  <2> QED BY <1>1, <2>1, SafeNext
<1>4. pc \notin {"idle", "refused"} BY <1>1 DEF Thinking
<1>5. /\ pc \in (Before \ {"idle"}) \cup {"dispatch"} \cup After
      /\ (item = "in_progress" => downs \/ pc \in {"trivial", "failed"})
      /\ (pc = "synthesize" => \A s \in Slot : tasks[s].pin => pinned)
  BY <1>4 DEF IInv, RunOk
<1>6. pinned => Boxes # {} \/ pc \in Loose BY DEF IInv, RunOk
<1> QED BY <1>1, <1>2, <1>3, <1>4, <1>5, <1>6, UnderwayIs, RunMoves

LEMMA ThinkRaisesKeeps == ASSUME IInv, ThinkRaises PROVE IInv'
<1>1. /\ pc \in Thinking /\ Sends /\ pc' = "failed"
      /\ parts' = [parts EXCEPT ![turn] = None]
      /\ UNCHANGED <<setup, turn, query, pinned, tasks, item, secret, downs>>
  BY DEF ThinkRaises
<1>2. LocalStaysLocal' BY <1>1, SendsStay
<1>3. pc \notin {"idle", "refused"} BY <1>1 DEF Thinking
<1>4. pc \in Before \/ pc \in After BY <1>1 DEF Thinking, Before, After
<1>5. DOMAIN parts' = 1..MaxTurns BY <1>1, <1>3, UnderwayIs
<1> QED BY <1>1, <1>2, <1>3, <1>4, <1>5, UnderwayIs, RunMoves DEF Before, After, Thinking, Loose

LEMMA TriageDoneKeeps == ASSUME IInv, TriageDone PROVE IInv'
<1>1. /\ pc = "triage" /\ Sends /\ pc' \in {"pretrivial", "decompose"}
      /\ pc' = "pretrivial" \/ \E m : call' = Calling(ReasoningModel(m, pinned), FALSE)
      /\ UNCHANGED <<setup, turn, query, secret, pinned, tasks, parts, item, downs>>
  BY DEF TriageDone, Answered, Think
<1>2. LocalStaysLocal' BY <1>1, SendsStay DEF Thinking
<1>3. pinned /\ pc' \in Thinking \ {"revise"} => Safe(call')
  BY <1>1, UnderwayIs DEF Thinking, Loose
<1>4. item # "in_progress" \/ downs BY <1>1 DEF IInv, RunOk
<1> QED BY <1>1, <1>2, <1>3, <1>4, UnderwayIs, RunMoves DEF Before, After, Loose

LEMMA RedecomposeKeeps == ASSUME IInv, Redecompose PROVE IInv'
<1>1. /\ pc = "decompose" /\ Sends /\ pc' = "redecompose"
      /\ call' = Calling(ReasoningModel(setup.driver, pinned), FALSE)
      /\ UNCHANGED <<setup, turn, query, secret, pinned, tasks, parts, item, downs>>
  BY DEF Redecompose, Answered, Think
<1>2. LocalStaysLocal' BY <1>1, SendsStay DEF Thinking
<1>3. pinned /\ pc' \in Thinking \ {"revise"} => Safe(call')
  BY <1>1, UnderwayIs DEF Thinking, Loose
<1>4. item # "in_progress" \/ downs BY <1>1 DEF IInv, RunOk
<1> QED BY <1>1, <1>2, <1>3, <1>4, UnderwayIs, RunMoves DEF Before, After, Loose

\* answer_trivial: its one item.
LEMMA TrivialKeeps == ASSUME IInv, Trivial PROVE IInv'
<1>1. /\ pc = "pretrivial" /\ pc' = "trivial"
      /\ call' = Calling(ReasoningModel(setup.driver, pinned), FALSE)
      /\ UNCHANGED <<setup, turn, query, pinned, tasks, parts, secret>>
      /\ out' = out \cup Filed({})
  BY DEF Trivial, Think
<1>2. LocalStaysLocal' BY <1>1, FiledStays DEF IInv, LocalStaysLocal
<1>3. pinned => Safe(call') BY <1>1, UnderwayIs DEF Loose
<1>4. downs' \in BOOLEAN /\ (downs => downs')
  <2>1. downs \in BOOLEAN BY <1>1, UnderwayIs
  <2>2. PICK i : \/ downs' = (downs \/ (setup.toto /\ i = "none"))
                 \/ downs' = (downs \/ setup.toto)
    BY DEF Trivial
  <2> QED BY <2>1, <2>2
<1> QED BY <1>1, <1>2, <1>3, <1>4, UnderwayIs, RunMoves DEF Before, After, Loose

LEMMA TrivialDoneKeeps == ASSUME IInv, TrivialDone PROVE IInv'
<1>1. /\ pc = "trivial" /\ Sends /\ pc' = "done"
      /\ parts' = [parts EXCEPT ![turn] = {A(turn)}]
      /\ UNCHANGED <<setup, turn, query, secret, pinned, tasks>>
      /\ \/ item' = (IF item = "none" THEN "none" ELSE "done") /\ downs' = downs
         \/ item' = item /\ downs' = (downs \/ item # "none")
  BY DEF TrivialDone, Answered
<1>2. LocalStaysLocal' BY <1>1, SendsStay DEF Thinking
<1>3. DOMAIN parts' = 1..MaxTurns BY <1>1, UnderwayIs
<1>4. downs \in BOOLEAN BY <1>1, UnderwayIs
<1>5. downs' \in BOOLEAN /\ (downs => downs') /\ (item' = "in_progress" => downs')
  <2>1. CASE item' = (IF item = "none" THEN "none" ELSE "done") /\ downs' = downs
    BY <1>4, <2>1
  <2>2. CASE item' = item /\ downs' = (downs \/ item # "none") BY <1>4, <2>2
  <2> QED BY <1>1, <2>1, <2>2
<1> QED BY <1>1, <1>2, <1>3, <1>5, UnderwayIs, RunMoves DEF Before, After, Thinking, Loose

\* gather: the pins of the tasks raise that of the run before it weaves.
LEMMA GatherKeeps == ASSUME IInv, Gather PROVE IInv'
<1>1. /\ pc = "dispatch" /\ \A s \in Slot : tasks[s].pc \in {"none", "end"}
      /\ pinned' = (pinned \/ \E s \in Slot : tasks[s].pin)
      /\ UNCHANGED <<setup, turn, query, tasks, item, out, secret, downs>>
      /\ \/ pc' = "done" /\ parts' = [parts EXCEPT ![turn] = {R(turn, s) : s \in Results}]
         \/ /\ pc' = "synthesize" /\ parts' = parts
            /\ call' = Calling(ReasoningModel(setup.driver, pinned'), FALSE)
  BY DEF Gather
<1>2. LocalStaysLocal' BY <1>1, OutStays
<1>3. DOMAIN parts' = 1..MaxTurns BY <1>1, UnderwayIs
<1>4. pinned \in BOOLEAN /\ (pinned => Boxes # {}) BY <1>1, UnderwayIs DEF Loose
<1>5. pinned' \in BOOLEAN /\ (pinned => pinned') /\ \A s \in Slot : tasks[s].pin => pinned'
  BY <1>1, <1>4
<1>6. pinned' => Boxes # {}
  <2>1. \A s \in Slot : tasks[s].pin => Boxes # {} BY DEF IInv, TaskOk, PlaceOk
  <2> QED BY <1>1, <1>4, <2>1
<1>7. pinned' /\ pc' \in Thinking \ {"revise"} => Safe(call')
  BY <1>1, <1>5, <1>6, ReasoningInside DEF Thinking
<1>8. item # "in_progress" \/ downs BY <1>1 DEF IInv, RunOk
<1> QED BY <1>1, <1>2, <1>3, <1>5, <1>6, <1>7, <1>8, UnderwayIs, RunMoves
        DEF Before, After, Loose

LEMMA SynthesizeDoneKeeps == ASSUME IInv, SynthesizeDone PROVE IInv'
<1>1. /\ pc = "synthesize" /\ Sends /\ pc' = "done"
      /\ parts' = [parts EXCEPT ![turn] = {R(turn, s) : s \in Results}]
      /\ UNCHANGED <<setup, turn, query, secret, pinned, tasks, item, downs>>
  BY DEF SynthesizeDone, Answered
<1>2. LocalStaysLocal' BY <1>1, SendsStay DEF Thinking
<1>3. DOMAIN parts' = 1..MaxTurns BY <1>1, UnderwayIs
<1>4. item # "in_progress" \/ downs BY <1>1 DEF IInv, RunOk
<1>5. pc \in After BY <1>1 DEF After
<1> QED BY <1>1, <1>2, <1>3, <1>4, <1>5, UnderwayIs, RunMoves DEF Before, After, Thinking, Loose

\* _create_tasks: fresh tasks, each of which must stay is marked so at once.
LEMMA CreateKeeps ==
  ASSUME IInv, pc \in Before \ {"idle", "refused", "trivial"}, NEW specs, NEW told,
         Create(specs, told), \A x \in told : x[2] # "run",
         pc' = "dispatch", UNCHANGED <<setup, turn, query, pinned, parts, item>>
  PROVE  IInv'
<1>1. PICK i \in {"none", "pending"} :
        /\ tasks' = [s \in Slot |-> IF s \in DOMAIN specs THEN Fresh(specs[s], i) ELSE NoTask]
        /\ downs' = (downs \/ (setup.toto /\ i = "none"))
  BY DEF Create, Created
<1>2. PICK texts : /\ texts = UNION {{T(turn, s), H(turn, s)} : s \in Stays(specs)}
                   /\ secret' = secret \cup texts \cup {R(turn, s) : s \in Stays(specs)}
                   /\ out' = out \cup told \cup Filed(texts)
  BY DEF Create
<1>3. LocalStaysLocal' BY <1>2, FiledStays DEF IInv, LocalStaysLocal
<1>4. \A x \in secret' : \/ x \in secret
                          \/ \E s \in Stays(specs) : x \in {T(turn, s), H(turn, s), R(turn, s)}
  BY <1>2
<1>5. ASSUME NEW s \in Slot PROVE TaskOk(s, tasks[s])'
  <2>1. PICK n : n = tasks'[s] OBVIOUS
  <2>2. DOMAIN n = Fields /\ n.pc \in {"none", "decide"} /\ n.pin = FALSE
        /\ n.outcome = "none" /\ n.item # "in_progress"
    BY <1>1, <2>1 DEF Fresh, NoTask, Fields
  <2>3. s \in DOMAIN specs => n.pc = "decide" /\ n.spec = specs[s]
    BY <1>1, <2>1 DEF Fresh, NoTask
  <2>4. Marked(s)' => s \in Stays(specs)
    <3>1. ~Marked(s) BY NoneMarked
    <3>2. ASSUME NEW x \in {T(turn, s), H(turn, s), R(turn, s)}, x \in secret'
          PROVE  s \in Stays(specs)
      <4>1. x \notin secret BY <3>1, <3>2 DEF Marked
      <4>2. PICK r \in Stays(specs) : x \in {T(turn, r), H(turn, r), R(turn, r)}
        BY <1>4, <3>2, <4>1
      <4> QED BY <3>2, <4>2, TextsDiffer
    <3> QED BY <3>2 DEF Marked
  <2>5. s \in Stays(specs) => s \in DOMAIN specs /\ Must(specs[s])'
    BY DEF Stays, Must, Pins
  <2>6. TaskOk(s, n)' BY <2>2, <2>3, <2>4, <2>5 DEF TaskOk, PlaceOk, ItemOk
  <2> QED BY <2>1, <2>6
<1>6. downs' \in BOOLEAN /\ (downs => downs')
  <2>1. downs \in BOOLEAN BY UnderwayIs
  <2> QED BY <1>1, <2>1
<1>7. DOMAIN tasks' = Slot BY <1>1
<1>8. /\ (item = "in_progress" => downs) /\ (pinned => Boxes # {}) /\ Boxes' = Boxes
      /\ (Q(turn) \in secret => pinned)
  BY DEF IInv, RunOk, Before, Loose, Boxes, Inside, Models, Entry
<1>9. \A t : Q(t) \in secret' => Q(t) \in secret BY <1>4, TextsDiffer
<1>10. pc' \notin Before /\ pc' \notin After /\ pc' \notin Thinking
  BY DEF Before, After, Thinking
<1>11. RunOk' BY <1>6, <1>7, <1>8, <1>9, <1>10 DEF IInv, RunOk
<1>12. SecretOk'
  <2>1. ASSUME NEW t \in 1..MaxTurns, NEW s \in Slot,
               NEW x \in {T(t, s), H(t, s), R(t, s)}, x \in secret'
        PROVE  t = turn
    <3>1. CASE x \in secret BY <2>1, <3>1 DEF IInv, SecretOk
    <3>2. CASE \E r \in Stays(specs) : x \in {T(turn, r), H(turn, r), R(turn, r)}
      BY <2>1, <3>2, TextsDiffer
    <3> QED BY <1>4, <2>1, <3>1, <3>2
  <2> QED BY <1>9, <2>1 DEF IInv, SecretOk
<1> QED BY <1>3, <1>5, <1>11, <1>12 DEF IInv

LEMMA AuthorKeeps == ASSUME IInv, Author PROVE IInv'
<1>1. /\ pc = "author" /\ Create(query.tasks, {}) /\ pc' = "dispatch"
      /\ UNCHANGED <<setup, turn, query, pinned, call, parts, item>>
  BY DEF Author
<1> QED BY <1>1, CreateKeeps DEF Before

LEMMA DecomposedKeeps == ASSUME IInv, Decomposed \/ Escalate PROVE IInv'
<1>1. /\ pc \in {"decompose", "redecompose"} /\ pc' = "dispatch"
      /\ UNCHANGED <<setup, turn, query, pinned, parts, item>>
  BY DEF Decomposed, Escalate, Answered
<1>2. \A x \in Told : x[2] # "run" BY <1>1, ToldStays DEF Thinking
<1>3. PICK specs, told : Create(specs, told) /\ told = Told BY DEF Decomposed, Escalate
<1> QED BY <1>1, <1>2, <1>3, CreateKeeps DEF Before

-----------------------------------------------------------------------------
\* The end of a run and the next one.

\* Nothing of the tasks outlives the run.
LEMMA BlankKeeps ==
  ASSUME IInv, pc # "idle", NEW kept, Blank(kept), kept \subseteq secret \cup {A(turn)},
         UNCHANGED <<setup, turn, parts>>, LocalStaysLocal'
  PROVE  IInv'
<1>1. /\ secret' = {x \in kept : x[1] \in {"query", "answer"}}
      /\ pc' = "idle" /\ pinned' = FALSE /\ tasks' = [s \in Slot |-> NoTask]
      /\ item' = "none" /\ downs' = FALSE
  BY DEF Blank
<1>2. \A t, s : T(t, s) \notin secret' /\ H(t, s) \notin secret' /\ R(t, s) \notin secret'
  BY <1>1, TextsDiffer
<1>3. \A t : Q(t) \in secret' => Q(t) \in secret BY <1>1, TextsDiffer
<1>4. ASSUME NEW s \in Slot PROVE TaskOk(s, tasks[s])'
  <2>1. TaskOk(s, NoTask)'
    BY <1>2 DEF TaskOk, PlaceOk, ItemOk, NoTask, Fields, Marked
  <2> QED BY <1>1, <2>1
<1>5. SecretOk' BY <1>2, <1>3 DEF IInv, SecretOk
<1>6. RunOk' BY <1>1 DEF IInv, RunOk, Thinking, Before, After
<1> QED BY <1>4, <1>5, <1>6 DEF IInv

LEMMA KeptIs == Kept \subseteq secret \cup {A(turn)}
BY DEF Kept

LEMMA CardKeeps == ASSUME IInv, Card PROVE IInv'
<1>1. pc \in {"done", "refused"} /\ UNCHANGED <<setup, turn, parts, out>> BY DEF Card
<1>2. LocalStaysLocal' BY <1>1, OutStays
<1>3. CASE Blank(Kept)
  <2>1. PICK kept : kept = Kept OBVIOUS
  <2> QED BY <1>1, <1>2, <1>3, <2>1, KeptIs, BlankKeeps
<1>4. CASE /\ pc' = "revise" /\ secret' = Kept
           /\ UNCHANGED <<query, pinned, tasks, item, downs>>
  <2>1. secret' \subseteq secret \cup {A(turn)} BY <1>4, KeptIs
  <2>2. /\ \A t : Q(t) \in secret' => Q(t) \in secret
        /\ \A t, s : /\ T(t, s) \in secret' => T(t, s) \in secret
                     /\ H(t, s) \in secret' => H(t, s) \in secret
                     /\ R(t, s) \in secret' => R(t, s) \in secret
    BY <2>1, TextsDiffer
  <2>3. Boxes' = Boxes BY <1>1 DEF Boxes, Inside, Models, Entry
  <2>4. ASSUME NEW s \in Slot PROVE TaskOk(s, tasks[s])'
    <3>1. TaskOk(s, tasks[s]) BY DEF IInv
    <3>2. (Marked(s)' => Marked(s)) /\ (Must(tasks[s].spec) => Must(tasks[s].spec)')
      BY <1>1, <1>4, <2>2 DEF Marked, Must, Pins
    <3>3. Safe(tasks[s].call) => Safe(tasks[s].call)'
      BY <1>1, <1>4 DEF Safe, Inside, Models, Entry
    <3> QED BY <1>4, <2>3, <3>1, <3>2, <3>3 DEF TaskOk, PlaceOk, ItemOk
  <2>5. SecretOk' BY <1>1, <1>4, <2>2 DEF IInv, SecretOk
  <2>6. \A s \in Slot : tasks[s].pc \in {"none", "end"}
    BY <1>1, NoneMarked DEF IInv, RunOk, Before, After, NoTask
  <2>7. RunOk' BY <1>1, <1>4, <2>3, <2>6 DEF IInv, RunOk, Before, After, Loose
  <2> QED BY <1>2, <2>4, <2>5, <2>7 DEF IInv
<1> QED BY <1>3, <1>4 DEF Card, Think

LEMMA RevisedKeeps == ASSUME IInv, Revised PROVE IInv'
<1>1. LocalStaysLocal' BY SendsStay DEF Revised, Thinking
<1>2. PICK kept : kept = secret OBVIOUS
<1> QED BY <1>1, <1>2, BlankKeeps DEF Revised

LEMMA OverKeeps == ASSUME IInv, Over PROVE IInv'
<1>1. LocalStaysLocal' BY OutStays DEF Over
<1>2. PICK kept : kept = secret OBVIOUS
<1> QED BY <1>1, <1>2, BlankKeeps DEF Over

\* Driver.run: the gate sees the query before anything else does.
LEMMA PostKeeps == ASSUME IInv, NEW q \in Queries, Post(q) PROVE IInv'
<1>1. /\ pc = "idle" /\ turn < MaxTurns /\ turn' = turn + 1
      /\ pinned' = (q.verdict = "local" \/ AuthoredLocal(q))
      /\ pc' \in {"refused", "author", "pretriage"} /\ (pc' = "refused" <=> Refused(q))
      /\ secret' = secret \cup (IF pinned' \/ Refused(q) THEN {Q(turn')} ELSE {})
      /\ parts' = [parts EXCEPT ![turn'] = IF Refused(q) THEN {A(turn')} ELSE None]
      /\ UNCHANGED <<setup, tasks, item, out, downs>>
  BY DEF Post
<1>2. LocalStaysLocal' BY <1>1, OutStays
<1>3. turn \in Nat /\ turn' \in 1..MaxTurns /\ turn' > turn
  BY <1>1, DriverAssumption DEF IInv, RunOk
<1>4. \A t \in 1..MaxTurns, s \in Slot :
        T(t, s) \notin secret' /\ H(t, s) \notin secret' /\ R(t, s) \notin secret'
  BY <1>1, TextsDiffer DEF IInv, SecretOk
<1>5. \A t \in 1..MaxTurns : t > turn' => Q(t) \notin secret'
  <2>1. \A t \in 1..MaxTurns : t > turn' => t > turn BY <1>3
  <2>2. \A t \in 1..MaxTurns : t > turn => Q(t) \notin secret BY DEF IInv, SecretOk
  <2> QED BY <1>1, <1>3, <2>1, <2>2, TextsDiffer
<1>6. pinned' \in BOOLEAN /\ (Q(turn') \in secret' => pinned' \/ pc' = "refused")
  <2>1. Q(turn') \notin secret BY <1>3 DEF IInv, SecretOk
  <2> QED BY <1>1, <2>1
<1>7. Boxes' = Boxes BY <1>1 DEF Boxes, Inside, Models, Entry
<1>8. pinned' => Boxes # {} \/ pc' = "refused" BY <1>1 DEF Refused
<1>9. ASSUME NEW s \in Slot PROVE TaskOk(s, tasks[s])'
  <2>1. tasks'[s] = NoTask BY <1>1, NoneMarked DEF Before
  <2>2. TaskOk(s, NoTask)'
    BY <1>3, <1>4 DEF TaskOk, PlaceOk, ItemOk, NoTask, Fields, Marked
  <2> QED BY <2>1, <2>2
<1>10. SecretOk' BY <1>4, <1>5 DEF SecretOk
<1>11. RunOk'
  BY <1>1, <1>3, <1>6, <1>7, <1>8 DEF IInv, RunOk, Before, After, Thinking, Loose
<1> QED BY <1>2, <1>9, <1>10, <1>11 DEF IInv

-----------------------------------------------------------------------------
LEMMA InitIInv == Init => IInv
<1> SUFFICES ASSUME Init PROVE IInv OBVIOUS
<1>1. turn \in 0..MaxTurns BY DriverAssumption DEF Init
<1>4. RunOk BY <1>1 DEF Init, RunOk, Before, After, Thinking
<1>2. SecretOk /\ LocalStaysLocal BY DEF Init, SecretOk, LocalStaysLocal
<1>3. \A s \in Slot : TaskOk(s, tasks[s])
  BY DEF Init, TaskOk, PlaceOk, ItemOk, NoTask, Fields, Marked
<1> QED BY <1>4, <1>2, <1>3 DEF IInv

LEMMA NextKeeps == IInv /\ [Next]_vars => IInv'
<1> SUFFICES ASSUME IInv, [Next]_vars PROVE IInv' OBVIOUS
<1>1. CASE UNCHANGED vars
  <2>1. (\A s \in Slot : TaskOk(s, tasks[s])') /\ Boxes' = Boxes
    BY <1>1, TasksStay DEF vars
  <2>2. Safe(call) => Safe(call)' BY <1>1 DEF vars, Safe, Inside, Models, Entry
  <2>3. RunOk' BY <1>1, <2>1, <2>2 DEF IInv, RunOk, vars
  <2>4. SecretOk' /\ LocalStaysLocal' BY <1>1 DEF IInv, SecretOk, LocalStaysLocal, vars
  <2> QED BY <2>1, <2>3, <2>4 DEF IInv
<1>2. CASE \E q \in Queries : Post(q) BY <1>2, PostKeeps
<1>3. CASE Step
  BY <1>3, TriageKeeps, ThinkRetriesKeeps, ThinkRaisesKeeps, TriageDoneKeeps, TrivialKeeps,
     TrivialDoneKeeps, AuthorKeeps, DecomposedKeeps, RedecomposeKeeps, TaskStepKeeps,
     GatherKeeps, SynthesizeDoneKeeps, CardKeeps, RevisedKeeps, OverKeeps DEF Step
<1> QED BY <1>1, <1>2, <1>3 DEF Next

-----------------------------------------------------------------------------
\* The inductive invariant holds in every behaviour of the driver.
THEOREM DriverInvariant == Spec => []IInv
BY InitIInv, NextKeeps, PTL DEF Spec

\* Driver.run, decide_one, synthesize, resilience.fallbacks: nothing the code says
\* must stay in the perimeter, query, task, title or result, leaves it on the path of
\* a run, whatever fails, is bound, pinned or woven, in any conversation; but for the
\* title of a task that was stopped at the gate.
THEOREM LocalAlwaysStays == Spec => []LocalStaysLocal
<1>1. IInv => LocalStaysLocal BY DEF IInv
<1> QED BY DriverInvariant, <1>1, PTL

\* _settle, emit_task_block, answer_trivial: as long as Toto answers, no item of a
\* finished run is left in progress but that of a direct answer that failed.
THEOREM ItemsAlwaysSettle == Spec => []ItemsSettle
<1>1. ASSUME IInv PROVE ItemsSettle
  <2> SUFFICES ASSUME pc \in {"done", "failed"}, ~downs
               PROVE  /\ \A s \in Slot : tasks[s].item # "in_progress"
                      /\ item = "in_progress" => pc = "failed"
    BY DEF ItemsSettle
  <2>1. ASSUME NEW s \in Slot PROVE tasks[s].item # "in_progress"
    <3>1. tasks[s].pc \in {"none", "end"} BY <1>1 DEF IInv, RunOk, After
    <3>2. ItemOk(tasks[s], downs) BY <1>1 DEF IInv, TaskOk
    <3> QED BY <3>1, <3>2 DEF ItemOk
  <2>2. item = "in_progress" => pc = "failed" BY <1>1 DEF IInv, RunOk
  <2> QED BY <2>1, <2>2
<1> QED BY DriverInvariant, <1>1, PTL

\* gather, synthesize, execute_run: in every behaviour a task that fails, is blocked
\* or crashes leaves its siblings' results in the answer, and only a reasoning call
\* fails the run.
THEOREM SiblingsAlwaysSurvive == Spec => SiblingsSurvive
<1> DEFINE Fine ==
      /\ pc' = "failed" => pc \in Thinking \cup {"failed"}
      /\ pc' = "done" /\ pc # "done" /\ (\E s \in Slot : tasks[s].pc # "none") =>
           /\ \A s \in Slot : tasks[s].pc \in {"none", "end"}
           /\ parts'[turn] = {R(turn, s) : s \in Results}
<1>1. ASSUME IInv, [Next]_vars PROVE [Fine]_vars
  <2>1. CASE UNCHANGED vars BY <2>1
  <2>2. CASE ThinkRaises BY <2>2 DEF ThinkRaises
  <2>3. CASE TrivialDone
    <3>1. pc = "trivial" /\ pc' = "done" BY <2>3 DEF TrivialDone, Answered
    <3>2. \A s \in Slot : tasks[s].pc = "none" BY <1>1, <3>1, NoneMarked DEF Before, NoTask
    <3> QED BY <3>1, <3>2
  <2>4. CASE Gather
    <3>1. /\ pc = "dispatch" /\ \A s \in Slot : tasks[s].pc \in {"none", "end"}
          /\ \/ pc' = "done" /\ parts' = [parts EXCEPT ![turn] = {R(turn, s) : s \in Results}]
             \/ pc' = "synthesize"
      BY <2>4 DEF Gather
    <3>2. turn \in DOMAIN parts BY <1>1, <3>1, UnderwayIs
    <3> QED BY <3>1, <3>2
  <2>5. CASE SynthesizeDone
    <3>1. /\ pc = "synthesize" /\ pc' = "done"
          /\ parts' = [parts EXCEPT ![turn] = {R(turn, s) : s \in Results}]
      BY <2>5 DEF SynthesizeDone, Answered
    <3>2. turn \in DOMAIN parts /\ \A s \in Slot : tasks[s].pc \in {"none", "end"}
      BY <1>1, <3>1, UnderwayIs DEF After
    <3> QED BY <3>1, <3>2
  <2>6. ASSUME NEW s \in Slot, TaskStep(s) PROVE Fine
    <3>1. pc = "dispatch" /\ pc' = pc
      BY <2>6 DEF TaskStep, Decide, Embed, Label, Knn, KnnRaises, Pick, ExecRetries, ExecFails,
         ExecDone, Executes, OnlyTask
    <3> QED BY <3>1
  <2>7. ASSUME Decomposed \/ Escalate \/ Author \/ Redecompose \/ Triage \/ TriageDone
               \/ Trivial
        PROVE Fine
    <3>1. pc' \notin {"done", "failed"}
      BY <2>7 DEF Decomposed, Escalate, Author, Redecompose, Triage, TriageDone, Trivial, Think
    <3> QED BY <3>1
  <2>8. ASSUME Card \/ Revised \/ Over \/ \E q \in Queries : Post(q) PROVE Fine
    <3>1. pc' \notin {"done", "failed"}
      BY <2>8 DEF Card, Revised, Over, Post, Blank, Think
    <3> QED BY <3>1
  <2>9. CASE ThinkRetries
    BY <2>9 DEF ThinkRetries
  <2> QED BY <1>1, <2>1, <2>2, <2>3, <2>4, <2>5, <2>6, <2>7, <2>8, <2>9 DEF Next, Step
<1>2. [][Fine]_vars <=> SiblingsSurvive BY DEF SiblingsSurvive
<1> QED BY DriverInvariant, <1>1, <1>2, PTL DEF Spec

=============================================================================
