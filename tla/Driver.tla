------------------------------- MODULE Driver -------------------------------
(***************************************************************************)
(* The driver (toto_gateway/driver/): one conversation of runs, each gated *)
(* on its raw query, triaged, answered directly or decomposed into tasks   *)
(* that are decided and executed concurrently and woven into one answer;   *)
(* then the session card is revised (sessions_service.py).                 *)
(*                                                                         *)
(* A text is a model value <<kind, turn, slot>>; what matters of it is the *)
(* verdict of the guard and where it is sent.  secret holds the texts the  *)
(* code says must stay in the perimeter, each from the moment it exists;   *)
(* out those of them that left it, with the path they took: "run" for the  *)
(* calls of the run itself, "blocked" for the title of a task that was     *)
(* stopped, "toto" for the items, "history" and "card" for what a run      *)
(* leaves to the next.  A call of                                          *)
(* _call is its current model, the fallbacks not tried yet (their order,   *)
(* the catalog's, is left open) and the tries on the model.  Toto calls    *)
(* are best effort and may fail at each use.                               *)
(* Benchmark scores are left open: any model best() could return is.       *)
(***************************************************************************)
EXTENDS Naturals, FiniteSets

CONSTANTS
  Setups,     \* catalog, driver/triage/label model, switches, bindings, and the
              \* plans a decomposition may answer: tasks with verdict and metadata
  Queries,    \* what a caller may post: verdict of the guard, authored tasks
  MaxTasks,   \* MAX_DECOMPOSE_TASKS
  Retries,    \* provider_retries
  MaxTurns,   \* bound on the turns of the conversation
  None

ASSUME DriverAssumption ==
  /\ Retries \in Nat /\ MaxTurns \in Nat /\ MaxTasks \in Nat \ {0}
  /\ \A u \in Setups : {u.driver, u.triage, u.label} \subseteq DOMAIN u.cat

VARIABLES setup, turn, pc, query, pinned, call, tasks, parts, item, out, secret,
          downs       \* a Toto call has failed

vars == <<setup, turn, pc, query, pinned, call, tasks, parts, item, out, secret, downs>>

Slot == 1..MaxTasks

Q(t) == <<"query", t, None>>
T(t, s) == <<"task", t, s>>
H(t, s) == <<"title", t, s>>      \* the task's first line, without its description
R(t, s) == <<"result", t, s>>
A(t) == <<"answer", t, None>>

Models == DOMAIN setup.cat
Entry(m) == setup.cat[m]
Inside(m) == m \in Models /\ Entry(m).res = "in_perimeter"

NoCall == [model |-> None, left |-> {}, tries |-> 0]
NoTask == [pc |-> "none", spec |-> None, pin |-> FALSE, lane |-> None, model |-> None,
           bound |-> FALSE, private |-> FALSE, call |-> NoCall, item |-> "none",
           outcome |-> "none", ran |-> None]

Init ==
  /\ setup \in Setups
  /\ turn = 0
  /\ pc = "idle"
  /\ query = None
  /\ pinned = FALSE
  /\ call = NoCall
  /\ tasks = [s \in Slot |-> NoTask]
  /\ parts = [t \in 1..MaxTurns |-> None]
  /\ item = "none"
  /\ out = {}
  /\ secret = {}
  /\ downs = FALSE

-----------------------------------------------------------------------------
\* Models.

\* _first_in_perimeter_model: a real box before a fake one.
Boxes == {m \in Models : Inside(m)}
RealBoxes == {m \in Boxes : ~Entry(m).fake}
FirstBox == IF RealBoxes # {} THEN CHOOSE m \in RealBoxes : TRUE
                              ELSE CHOOSE m \in Boxes : TRUE

\* resilience.fallbacks
Fallbacks(m, private) ==
  {e \in Models : /\ e # m /\ ~Entry(e).fake
                  /\ Entry(e).res = Entry(m).res
                  /\ private => Entry(e).lane = Entry(m).lane}

Calling(m, private) == [model |-> m, left |-> Fallbacks(m, private), tries |-> 0]

\* Mutant: the candidates go round for ever.
NextAttemptsRound(c) ==
  {[model |-> m, left |-> c.left \cup {c.model}, tries |-> 0] : m \in c.left}

\* The next attempt of a call whose last one failed with a retryable error:
\* the same model again, or another candidate; none when all are exhausted.
NextAttempts(c) ==
  IF c.tries < Retries THEN {[c EXCEPT !.tries = @ + 1]}
  ELSE {[model |-> m, left |-> c.left \ {m}, tries |-> 0] : m \in c.left}

\* _reasoning_model
ReasoningModel(configured, pin) ==
  IF pin /\ ~Inside(configured) /\ Boxes # {} THEN FirstBox ELSE configured

\* What leaves the perimeter when texts go to model m.
Outside(texts, via) == (texts \cap secret) \X {via}
Leaving(texts, via, m) == IF Inside(m) THEN {} ELSE Outside(texts, via)

\* get_history: query and answer of the earlier turns that are done, refused
\* ones among them.
Earlier == UNION {{Q(t), A(t)} : t \in {x \in 1..(turn - 1) : parts[x] # None}}

-----------------------------------------------------------------------------
\* Driver.run: the gate.

AuthoredLocal(q) == \E s \in DOMAIN q.tasks : q.tasks[s].verdict = "local"
AuthoredBlock(q) == \E s \in DOMAIN q.tasks : q.tasks[s].verdict = "block"

Think(node, model) == pc' = node /\ call' = Calling(model, FALSE)

Created == IF setup.toto THEN {"none", "pending"} ELSE {"none"}

\* The whole run is refused: a verdict, or a pin nothing can honour.
Refused(q) ==
  \/ q.verdict = "block" \/ AuthoredBlock(q)
  \/ (q.verdict = "local" \/ AuthoredLocal(q)) /\ Boxes = {}

\* The state of a run ends with it; what it leaves is the dialogue.
Blank(kept) ==
  /\ secret' = {x \in kept : x[1] \in {"query", "answer"}}
  /\ pc' = "idle" /\ call' = NoCall /\ query' = None /\ pinned' = FALSE
  /\ tasks' = [s \in Slot |-> NoTask]
  /\ item' = "none" /\ downs' = FALSE

Post(q) ==
  /\ pc = "idle" /\ turn < MaxTurns
  /\ turn' = turn + 1
  /\ query' = q
  /\ pinned' = (q.verdict = "local" \/ AuthoredLocal(q))
  /\ IF Refused(q) THEN pc' = "refused" /\ call' = NoCall
     ELSE /\ pc' = (IF DOMAIN q.tasks # {} THEN "author" ELSE "pretriage")
          /\ call' = NoCall
  /\ secret' = secret \cup (IF pinned' \/ Refused(q) THEN {Q(turn')} ELSE {})
  /\ parts' = [parts EXCEPT ![turn'] = IF Refused(q) THEN {A(turn')} ELSE None]
  /\ UNCHANGED <<setup, tasks, item, out, downs>>

\* triage starts, or is skipped for a run with a kind.
Triage ==
  /\ pc = "pretriage"
  /\ IF query.kind = None THEN Think("triage", ReasoningModel(setup.triage, pinned))
     ELSE IF query.kind = "trivial" THEN pc' = "pretrivial" /\ call' = NoCall
     ELSE Think("decompose", ReasoningModel(setup.driver, pinned))
  /\ UNCHANGED <<setup, turn, query, pinned, tasks, parts, item, out, secret, downs>>

-----------------------------------------------------------------------------
\* One attempt of a reasoning call.

Thinking == {"triage", "trivial", "decompose", "redecompose", "synthesize", "revise"}

Results == {s \in Slot : tasks[s].outcome = "completed" /\ tasks[s].ran # None}

Named == {s \in Slot : tasks[s].pc # "none"}

\* The tasks the residency gate stopped: none of them pins the run.
Stopped == {s \in Slot : tasks[s].outcome = "blocked" /\ ~tasks[s].pin}

\* What the prompt of a node holds besides the history.  The weaving sees the
\* title of every task, of a blocked one too.
Prompt(node) ==
  CASE node = "synthesize" -> {Q(turn)} \cup {H(turn, s) : s \in Named}
                                        \cup {R(turn, s) : s \in Results}
    [] node = "revise" -> {}
    [] OTHER -> {Q(turn)}

\* The card is made of the answers of the turns so far.
Carded == {A(t) : t \in {x \in 1..turn : parts[x] \notin {None, {}}}}

Told ==
  LET stopped == {H(turn, s) : s \in Stopped}
  IN  Leaving(Prompt(pc) \ stopped, "run", call.model)
      \cup Leaving(Prompt(pc) \cap stopped, "blocked", call.model)
      \cup (IF pc = "revise" THEN Leaving(Carded, "card", call.model)
                             ELSE Leaving(Earlier, "history", call.model))

Sends == out' = out \cup Told

\* A retryable failure: again, elsewhere, or the first error is raised.
ThinkRetries ==
  /\ pc \in Thinking
  /\ Sends
  /\ call' \in NextAttempts(call)
  /\ UNCHANGED <<setup, turn, pc, query, pinned, tasks, parts, item, secret, downs>>

ThinkRaises ==
  /\ pc \in Thinking
  /\ Sends
  /\ pc' = "failed" /\ call' = NoCall
  /\ parts' = [parts EXCEPT ![turn] = None]
  /\ UNCHANGED <<setup, turn, query, pinned, tasks, item, secret, downs>>

Answered(kind) ==
  /\ pc = kind
  /\ UNCHANGED <<setup, turn, query>>

\* Anything but an explicit trivial is multistep.
TriageDone ==
  /\ Answered("triage") /\ Sends /\ UNCHANGED secret
  /\ \/ pc' = "pretrivial" /\ call' = NoCall
     \/ Think("decompose", ReasoningModel(setup.driver, pinned))
  /\ UNCHANGED <<pinned, tasks, parts, item, downs>>

\* What Toto is told of a list: its name, the beginning of the query, and the
\* texts of its items.
Filed(texts) == IF setup.toto THEN Outside({Q(turn)}, "toto") \cup texts \X {"toto"} ELSE {}

\* answer_trivial: its one item is created and set in progress, both best effort.
Trivial ==
  /\ pc = "pretrivial"
  /\ Think("trivial", ReasoningModel(setup.driver, pinned))
  /\ \E i \in Created :
       \/ /\ item' = (IF i = "pending" THEN "in_progress" ELSE i)
          /\ downs' = (downs \/ (setup.toto /\ i = "none"))
       \/ item' = i /\ downs' = (downs \/ setup.toto)
  /\ out' = out \cup Filed({})
  /\ UNCHANGED <<setup, turn, query, pinned, tasks, parts, secret>>

TrivialDone ==
  /\ Answered("trivial") /\ Sends /\ UNCHANGED secret
  /\ pc' = "done" /\ call' = NoCall
  /\ parts' = [parts EXCEPT ![turn] = {A(turn)}]
  /\ \/ item' = (IF item = "none" THEN "none" ELSE "done") /\ downs' = downs
     \/ item' = item /\ downs' = (downs \/ item # "none")
  /\ UNCHANGED <<pinned, tasks>>

-----------------------------------------------------------------------------
\* decompose.

Fresh(spec, i) == [NoTask EXCEPT !.pc = "decide", !.spec = spec, !.item = i]

\* The tasks that must stay in the perimeter: by policy, by the guard, or as
\* part of a pinned run.
Stays(specs) ==
  {s \in DOMAIN specs : specs[s].policy \/ specs[s].verdict \in {"local", "block"} \/ pinned}

\* _create_tasks: items for all tasks, or none at all; told is what the call
\* before it sent.
Create(specs, told) ==
  /\ \E i \in Created :
       /\ tasks' = [s \in Slot |-> IF s \in DOMAIN specs THEN Fresh(specs[s], i) ELSE NoTask]
       /\ downs' = (downs \/ (setup.toto /\ i = "none"))
  /\ LET texts == UNION {{T(turn, s), H(turn, s)} : s \in Stays(specs)}
     IN  /\ secret' = secret \cup texts \cup {R(turn, s) : s \in Stays(specs)}
         /\ out' = out \cup told \cup Filed(texts)

Parsed == {[s \in DOMAIN p \cap Slot |-> p[s]] : p \in setup.plans}

\* The task is the beginning of the query: the guard may see less in it.
Escalated(v) == [verdict |-> v, policy |-> FALSE, runner |-> "gateway",
              complexity |-> "high", web |-> FALSE, words |-> "none"]

\* The orchestrator wrote the tasks: no call, otherwise the same.
Author ==
  /\ pc = "author"
  /\ Create(query.tasks, {})
  /\ pc' = "dispatch"
  /\ UNCHANGED <<setup, turn, query, pinned, call, parts, item>>

\* parse_tasks found tasks (at most MAX_DECOMPOSE_TASKS are kept) ...
Decomposed ==
  /\ Answered("decompose") \/ Answered("redecompose")
  /\ \E specs \in Parsed : Create(specs, Told)
  /\ pc' = "dispatch" /\ call' = NoCall
  /\ UNCHANGED <<pinned, parts, item>>

\* ... or nothing: one strict retry ...
Redecompose ==
  /\ Answered("decompose") /\ Sends /\ UNCHANGED secret
  /\ Think("redecompose", ReasoningModel(setup.driver, pinned))
  /\ UNCHANGED <<pinned, tasks, parts, item, downs>>

\* ... and then one task of high complexity: the query itself.
Escalate ==
  /\ Answered("redecompose")
  /\ \E v \in {query.verdict, "allow"} : Create([s \in {1} |-> Escalated(v)], Told)
  /\ pc' = "dispatch" /\ call' = NoCall
  /\ UNCHANGED <<pinned, parts, item>>

-----------------------------------------------------------------------------
\* decide_one.

Set(s, t) == tasks' = [tasks EXCEPT ![s] = t]

OnlyTask(s) ==
  /\ pc = "dispatch"
  /\ UNCHANGED <<setup, turn, pc, query, pinned, call, parts, item>>

\* The seams that see the text outside, in order; a pinned task meets none.
NextSeam(t, x) ==
  IF t.pin THEN "pick"
  ELSE IF x = "decide" /\ setup.embed THEN "embed"
  ELSE IF x \in {"decide", "embed"} /\ setup.labels THEN "label"
  ELSE IF x # "knn" /\ setup.knn /\ ~t.bound THEN "knn"
  ELSE "pick"

\* classify: explicit signals before words, privacy before all.
Lane(spec) ==
  CASE spec.policy -> "economy"
    [] ~spec.policy /\ spec.complexity = "high" -> "frontier"
    [] ~spec.policy /\ spec.complexity # "high" /\ spec.web -> "frontier"
    [] ~spec.policy /\ spec.complexity = "low" /\ ~spec.web -> "economy"
    [] OTHER -> IF spec.words = "frontier" THEN "frontier" ELSE "economy"

\* _resolve_model and _resolve_in_perimeter: any real entry that fits may
\* score best; else the first that fits, the first real one, the first.
Real == {m \in Models : ~Entry(m).fake}
InLane(l) == {m \in Models : Entry(m).lane = l}
Resolve(spec) ==
  LET l == Lane(spec)
      tiers == <<IF spec.policy THEN RealBoxes ELSE {}, IF spec.policy THEN Boxes ELSE {},
                 Real \cap InLane(l), InLane(l), Real, Models>>
  IN  tiers[CHOOSE i \in DOMAIN tiers : tiers[i] # {} /\ \A j \in 1..(i - 1) : tiers[j] = {}]

\* Mutant: a data policy alone does not pin the task.
PinsVerdictOnly(spec) == spec.verdict = "local" \/ pinned

\* Residency, decided on the raw task before anything external sees it.
Pins(spec) == spec.policy \/ spec.verdict = "local" \/ pinned

\* emit_task_block: the item is done, with the reason as its provenance.
Blocked(s, pin) ==
  \/ Set(s, [tasks[s] EXCEPT !.pc = "end", !.outcome = "blocked", !.pin = pin,
                             !.item = IF @ = "none" THEN @ ELSE "done"]) /\ downs' = downs
  \/ Set(s, [tasks[s] EXCEPT !.pc = "end", !.outcome = "blocked", !.pin = pin])
       /\ downs' = (downs \/ tasks[s].item # "none")

Decide(s) ==
  /\ OnlyTask(s) /\ tasks[s].pc = "decide"
  /\ LET spec == tasks[s].spec
         pin == Pins(spec)
     IN  IF spec.verdict = "block" \/ (pin /\ Boxes = {})
         THEN Blocked(s, FALSE)
         ELSE /\ \E m \in Resolve(spec) :
                   LET t == [tasks[s] EXCEPT !.pin = pin, !.model = m,
                               !.lane = Entry(m).lane, !.private = spec.policy]
                   IN  Set(s, [t EXCEPT !.pc = NextSeam(t, "decide")])
              /\ downs' = downs
  /\ UNCHANGED <<out, secret>>

\* infer_skill: the text goes to the external embedder; any failure is None.
Embed(s) ==
  /\ OnlyTask(s) /\ tasks[s].pc = "embed"
  /\ out' = out \cup Outside({T(turn, s)}, "run")
  /\ Set(s, [tasks[s] EXCEPT !.pc = NextSeam(tasks[s], "embed")])
  /\ UNCHANGED <<secret, downs>>

\* classify_label and the bindings, the user's before the team's before the
\* shipped ones; a label without a binding leaves the pick alone.
Binding == IF setup.user # None THEN setup.user
           ELSE IF setup.team # None THEN setup.team ELSE setup.shipped

Label(s) ==
  /\ OnlyTask(s) /\ tasks[s].pc = "label"
  /\ out' = out \cup Leaving({T(turn, s)}, "run", setup.label)
  /\ \/ /\ Binding # None
        /\ LET t == [tasks[s] EXCEPT !.model = Binding, !.lane = Entry(Binding).lane,
                       !.bound = setup.user # None \/ setup.team # None, !.private = FALSE]
           IN  Set(s, [t EXCEPT !.pc = NextSeam(t, "label")])
     \/ Set(s, [tasks[s] EXCEPT !.pc = NextSeam(tasks[s], "label")])
  /\ UNCHANGED <<secret, downs>>

\* propose: a model of the decided lane, or none.
Knn(s) ==
  /\ OnlyTask(s) /\ tasks[s].pc = "knn"
  /\ out' = out \cup Outside({T(turn, s)}, "run")
  /\ \E m \in InLane(tasks[s].lane) \cup {tasks[s].model} :
       Set(s, [tasks[s] EXCEPT !.pc = "pick", !.model = m])
  /\ UNCHANGED <<secret, downs>>

\* The corpus cannot be read: propose raises and the task with it.
KnnRaises(s) ==
  /\ OnlyTask(s) /\ tasks[s].pc = "knn"
  /\ Set(s, [tasks[s] EXCEPT !.pc = "end", !.outcome = "failed"])
  /\ UNCHANGED <<out, secret, downs>>

\* The residency re-check: a pinned task lands on a box.
Recheck(t) ==
  IF t.pin /\ ~Inside(t.model)
  THEN [t EXCEPT !.model = FirstBox, !.lane = Entry(FirstBox).lane, !.private = TRUE]
  ELSE t

\* The user's pin for the skill, which one is decided by the skill; then the
\* runner and the call.  claude_code goes to Anthropic whatever the model.
Pick(s) ==
  /\ OnlyTask(s) /\ tasks[s].pc = "pick"
  /\ \E p \in {None} \cup (IF tasks[s].pin THEN {} ELSE {setup.pin}) :
       LET over == IF p = None THEN tasks[s]
                   ELSE [tasks[s] EXCEPT !.model = p, !.lane = Entry(p).lane]
           t == Recheck(over)
       IN  IF t.pin /\ t.spec.runner = "claude_code"
           THEN Blocked(s, TRUE)
           ELSE LET going == [t EXCEPT !.pc = "exec", !.call = Calling(t.model, t.private)] IN
                \/ /\ Set(s, [going EXCEPT !.item = IF @ = "none" THEN @ ELSE "in_progress"])
                   /\ downs' = downs
                \/ Set(s, going) /\ downs' = (downs \/ t.item # "none")
  /\ UNCHANGED <<out, secret>>

-----------------------------------------------------------------------------
\* dispatch_one: the execution.

\* The subagent of claude_code talks to Anthropic; the gateway and pi to the
\* model of the call.
ExecLeaves(s) ==
  IF tasks[s].spec.runner = "claude_code" THEN Outside({T(turn, s)}, "run")
  ELSE Leaving({T(turn, s)}, "run", tasks[s].call.model)

Executes(s) ==
  /\ OnlyTask(s) /\ tasks[s].pc = "exec"
  /\ out' = out \cup ExecLeaves(s)

\* A provider error is retried; that of a subagent never is.
ExecRetries(s) ==
  /\ Executes(s)
  /\ tasks[s].spec.runner = "gateway"
  /\ \E c \in NextAttempts(tasks[s].call) : Set(s, [tasks[s] EXCEPT !.call = c])
  /\ UNCHANGED <<secret, downs>>

\* Mutant: only a success is written to Toto.
SettledSuccess(s, t) ==
  \/ /\ Set(s, [t EXCEPT !.item = IF @ # "none" /\ t.outcome = "completed" THEN "done" ELSE @])
     /\ downs' = downs
  \/ Set(s, t) /\ downs' = (downs \/ t.item # "none")

\* The outcome is written to the task, then to its Toto item.
Settled(s, t) ==
  \/ Set(s, [t EXCEPT !.item = IF @ = "none" THEN @ ELSE "done"]) /\ downs' = downs
  \/ Set(s, t) /\ downs' = (downs \/ t.item # "none")

ExecFails(s) ==
  /\ Executes(s)
  /\ Settled(s, [tasks[s] EXCEPT !.pc = "end", !.outcome = "failed", !.call = NoCall])
  /\ UNCHANGED secret

\* The answer may be empty; the corpus gets the text of an unpinned task.
ExecDone(s) ==
  /\ OnlyTask(s) /\ tasks[s].pc = "exec"
  /\ out' = out \cup ExecLeaves(s)
                \cup (IF setup.corpus /\ ~tasks[s].pin THEN Outside({T(turn, s)}, "run") ELSE {})
  /\ \E r \in {None, tasks[s].call.model} :
       Settled(s, [tasks[s] EXCEPT !.pc = "end", !.outcome = "completed", !.ran = r,
                                   !.call = NoCall])
  /\ UNCHANGED secret

\* Mutant: gather raises the first exception and the run fails with it.
GatherRaises ==
  /\ pc = "dispatch"
  /\ \A s \in Slot : tasks[s].pc \in {"none", "end"}
  /\ pinned' = (pinned \/ \E s \in Slot : tasks[s].pin)
  /\ IF \E s \in Slot : tasks[s].outcome = "failed"
     THEN pc' = "failed" /\ call' = NoCall /\ UNCHANGED parts
     ELSE /\ pc' = "done" /\ call' = NoCall
          /\ parts' = [parts EXCEPT ![turn] = {R(turn, s) : s \in Results}]
  /\ UNCHANGED <<setup, turn, query, tasks, item, out, secret, downs>>

\* All tasks ended, whatever way: their pins raise that of the run; at most
\* one result is the answer, more are woven.
Gather ==
  /\ pc = "dispatch"
  /\ \A s \in Slot : tasks[s].pc \in {"none", "end"}
  /\ pinned' = (pinned \/ \E s \in Slot : tasks[s].pin)
  /\ IF Cardinality(Results) <= 1
     THEN /\ pc' = "done" /\ call' = NoCall
          /\ parts' = [parts EXCEPT ![turn] = {R(turn, s) : s \in Results}]
     ELSE /\ pc' = "synthesize"
          /\ call' = Calling(ReasoningModel(setup.driver, pinned'), FALSE)
          /\ UNCHANGED parts
  /\ UNCHANGED <<setup, turn, query, tasks, item, out, secret, downs>>

SynthesizeDone ==
  /\ Answered("synthesize") /\ Sends /\ UNCHANGED secret
  /\ pc' = "done" /\ call' = NoCall
  /\ parts' = [parts EXCEPT ![turn] = {R(turn, s) : s \in Results}]
  /\ UNCHANGED <<pinned, tasks, item, downs>>

-----------------------------------------------------------------------------
\* execute_run after the driver: the card.

\* An answer with a secret in it is one: it came out of a pinned run.
Kept == secret \cup (IF pc = "done" /\ pinned /\ parts[turn] # {} THEN {A(turn)} ELSE {})
Answers(t) == parts[t] \notin {None, {}}

\* Turn 1 stores the answer, be it a refusal; a later one revises the card of
\* the turn before it; an empty answer leaves the card alone.
Card ==
  /\ pc \in {"done", "refused"}
  /\ IF Answers(turn) /\ \E t \in 1..(turn - 1) : Answers(t)
     THEN /\ Think("revise", setup.driver)
          /\ secret' = Kept
          /\ UNCHANGED <<query, pinned, tasks, item, downs>>
     ELSE Blank(Kept)
  /\ UNCHANGED <<setup, turn, parts, out>>

Revised ==
  /\ pc = "revise"
  /\ Sends
  /\ Blank(secret)
  /\ UNCHANGED <<setup, turn, parts>>

\* A failed run: the conversation may go on.
Over ==
  /\ pc = "failed"
  /\ Blank(secret)
  /\ UNCHANGED <<setup, turn, parts, out>>

TaskStep(s) == \/ Decide(s) \/ Embed(s) \/ Label(s) \/ Knn(s) \/ KnnRaises(s) \/ Pick(s)
               \/ ExecRetries(s) \/ ExecFails(s) \/ ExecDone(s)

Step == \/ Triage \/ ThinkRetries \/ ThinkRaises \/ TriageDone \/ Trivial \/ TrivialDone
        \/ Author \/ Decomposed \/ Redecompose \/ Escalate
        \/ \E s \in Slot : TaskStep(s)
        \/ Gather \/ SynthesizeDone \/ Card \/ Revised \/ Over

Next == (\E q \in Queries : Post(q)) \/ Step

Spec == Init /\ [][Next]_vars

\* Every provider call ends (the runners have timeouts), so every step of a
\* run is taken.
FairSpec == Spec /\ WF_vars(Step)

-----------------------------------------------------------------------------
\* Nothing that must stay in the perimeter leaves it on the path of the run:
\* a query the guard downgraded or refused, a task with a local data policy or
\* verdict or in a pinned run, its title and its result reach no model,
\* embedder, classifier, corpus or agent outside, through no retry, fallback,
\* binding, pin, proposal or weaving.  The title of a task stopped at the gate
\* is excepted (see BlockedTitlesStay), and so is what Toto is told: the items
\* are metadata by design.
LocalStaysLocal == \A x \in out : x[2] # "run"

\* "FAIL CLOSED: pinned in-perimeter but no in-perimeter model exists ->
\* block, never fall to frontier" (decide_one), read of the title of the task
\* too: the weaving sends it to no model outside.
BlockedTitlesStay == \A x \in out : x[2] # "blocked"

\* The same for what a run leaves behind: the history of the conversation
\* and the session card.
LocalOutputStays == \A x \in out : x[2] \notin {"history", "card"}

\* A task that fails, is blocked or crashes takes nothing with it: the run
\* ends in an answer made of every non-empty result of its tasks, and fails
\* only where one of its own reasoning calls did.
SiblingsSurvive ==
  [][/\ pc' = "failed" => pc \in Thinking \cup {"failed"}
     /\ pc' = "done" /\ pc # "done" /\ (\E s \in Slot : tasks[s].pc # "none") =>
          /\ \A s \in Slot : tasks[s].pc \in {"none", "end"}
          /\ parts'[turn] = {R(turn, s) : s \in Results}]_vars

\* As long as every Toto call succeeds no item of a finished run stays in
\* progress, except the one of a direct answer that failed.
ItemsSettle ==
  pc \in {"done", "failed"} /\ ~downs =>
    /\ \A s \in Slot : tasks[s].item # "in_progress"
    /\ item = "in_progress" => pc = "failed"

\* Every run ends, however often its providers fail.
EveryDriverRunEnds == []<>(pc = "idle")
=============================================================================
