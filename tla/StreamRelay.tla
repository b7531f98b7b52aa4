---------------------------- MODULE StreamRelay -----------------------------
(***************************************************************************)
(* Gateway.stream (toto_gateway/gateway.py), the SSE generator around it   *)
(* (routes/chat.py _sse) and the runners' iterators it drives by hand: a   *)
(* streamed completion from planning to [DONE], with the valve on outbound *)
(* calls, the stall deadline, the retry before the first chunk, the trace  *)
(* row of the finally block and clients that leave.                        *)
(*                                                                         *)
(* A stream is a coroutine.  pc names where it waits: new (not planned),   *)
(* label (the classifier's call, which takes a slot of the same valve),    *)
(* slot / reslot (the semaphore), await (wait_for on the iterator),        *)
(* backoff, yield (suspended while the transport sends), orphan (suspended *)
(* at a yield nobody will resume), tail (_sse after the generator), done.  *)
(*                                                                         *)
(* The server cancels the response task when the client leaves (uvicorn    *)
(* with Starlette's disconnect listener).  A cancelled await raises        *)
(* CancelledError inside the generator; a cancelled send leaves the        *)
(* generator suspended, and the interpreter closes it later.               *)
(*                                                                         *)
(* Abstractions.  The refusals of the decision pipeline are one choice     *)
(* (Dispatch models them); content, tool-call, reasoning and keepalive     *)
(* chunks are all delta.  A usage report is none, zero, prompt (anthropic: *)
(* message_start alone) or full.                                           *)
(***************************************************************************)
EXTENDS Naturals, Sequences, FiniteSets

CONSTANTS
  Stream,     \* concurrent streamed requests
  Slots,      \* max_concurrent_llm
  Retries,    \* same-transport retries
  Kinds,      \* runners of the entries planning may choose; provider is an
              \* OpenAI-compatible entry of lane provider
  Smart,      \* streams whose model is the smart sentinel
  WantUsage,  \* streams with stream_options.include_usage
  MaxDeltas   \* bound: deltas one upstream response carries

ASSUME StreamAssumption ==
  /\ IsFiniteSet(Stream)
  /\ Slots \in Nat \ {0} /\ Retries \in Nat /\ MaxDeltas \in Nat
  /\ Kinds \subseteq {"openai", "provider", "anthropic", "mlx"}
  /\ Smart \cup WantUsage \subseteq Stream

VARIABLES st,     \* st[s]: the coroutine's locals
          free,   \* slots left in the semaphore
          out,    \* out[s]: events the client received, in order
          rows,   \* rows[s]: trace rows written
          here    \* here[s]: the client is still connected

vars == <<st, free, out, rows, here>>

NewIterator == [phase |-> "new", meter |-> "none", deltas |-> 0]
NoIterator == [NewIterator EXCEPT !.phase = "none"]

Init ==
  /\ st = [s \in Stream |->
             [pc |-> "new", kind |-> "openai", attempt |-> 0, started |-> FALSE, held |-> FALSE,
              iter |-> NoIterator, usage |-> "none", todo |-> <<>>]]
  /\ free = Slots
  /\ out  = [s \in Stream |-> <<>>]
  /\ rows = [s \in Stream |-> <<>>]
  /\ here = [s \in Stream |-> TRUE]

-----------------------------------------------------------------------------
\* What the runners' iterators yield: the chunk, and the iterator after it.

Item(i, c, p, m) ==
  [chunk |-> c,
   iter  |-> [phase |-> p, meter |-> m,
              deltas |-> IF c = "delta" THEN i.deltas + 1 ELSE i.deltas]]

\* OpenAIRunner.stream: a role chunk once create() returns, deltas, and at the
\* upstream's end, finished or cut, a stop chunk and a usage chunk with
\* whatever counts arrived.
OpenAIItems(i) ==
  CASE i.phase = "new"  -> {Item(i, "role", "body", "none")}
    [] i.phase = "body" ->
         {Item(i, "stop", "usage", m) : m \in {"none", "full"}}
           \cup (IF i.deltas < MaxDeltas THEN {Item(i, "delta", "body", "none")} ELSE {})
    [] i.phase = "usage" -> {Item(i, "usage", "end", i.meter)}
    [] OTHER -> {}

\* anthropic_stream_to_chunks: message_start reports the prompt before any
\* block, message_delta the rest.
AnthropicItems(i) ==
  CASE i.phase = "new"  -> {Item(i, "role", "body", "none")}
    [] i.phase = "body" ->
         {Item(i, "stop", "usage", m) : m \in {i.meter, "prompt", "full"}}
           \cup (IF i.deltas < MaxDeltas THEN {Item(i, "delta", "body", "prompt")} ELSE {})
    [] i.phase = "usage" -> {Item(i, "usage", "end", i.meter)}
    [] OTHER -> {}

\* MLXRunner.stream: it forwards what the server sends; the usage chunk only
\* when one came, on its own or embedded in the last delta.
MLXItems(i) ==
  CASE i.phase = "new"  -> {Item(i, "role", "body", "none"),
                            Item(i, "delta", "body", "none")}
    [] i.phase = "body" ->
         {Item(i, "stop", "usage", "none"), Item(i, "usage", "end", "full")}
           \cup (IF i.deltas < MaxDeltas THEN {Item(i, "delta", "body", "none")} ELSE {})
    [] i.phase = "usage" -> {Item(i, "usage", "end", "full")}
    [] OTHER -> {}

Items(s) ==
  CASE st[s].kind = "anthropic" -> AnthropicItems(st[s].iter)
    [] st[s].kind = "mlx"       -> MLXItems(st[s].iter)
    [] OTHER                    -> OpenAIItems(st[s].iter)

\* StopAsyncIteration: the mlx server may close its response anywhere.
Exhausted(s) ==
  \/ st[s].iter.phase = "end"
  \/ st[s].kind = "mlx"

-----------------------------------------------------------------------------
\* The finally block: exact accounting only for a report with tokens in it.
Estimated(u) == u \in {"none", "zero"}

\* Mutant: the slot given back stays marked as held.
ReleaseKeepsMark(r) == r

\* release_slot: the mark goes with the slot.
Release(r) == [r EXCEPT !.held = FALSE]

SlotBack(s) == IF st[s].held THEN free + 1 ELSE free

\* Leaving the generator: the finally block accounts, writes the row and
\* releases the slot; _sse goes on with the events todo if the client is there.
Finish(s, status, todo) ==
  /\ rows' = [rows EXCEPT ![s] = Append(@, [status    |-> status,
                                            estimated |-> Estimated(st[s].usage)])]
  /\ st' = [st EXCEPT ![s] =
              [Release(@) EXCEPT !.pc = IF todo = <<>> THEN "done" ELSE "tail",
                                 !.todo = todo]]
  /\ free' = SlotBack(s)

Told == <<"error", "done">>

-----------------------------------------------------------------------------
\* Planning, after the label for a smart model.  A refusal has its trace row
\* and its event; an unknown model has only the event.
Refuse(s) ==
  /\ st[s].pc \in {"new", "label"}
  /\ \E row \in {<<>>, <<[status |-> "refused", estimated |-> FALSE]>>} :
       rows' = [rows EXCEPT ![s] = row]
  /\ st' = [st EXCEPT ![s] = [Release(@) EXCEPT !.pc = "tail", !.todo = Told]]
  /\ free' = SlotBack(s)
  /\ UNCHANGED <<out, here>>

\* _classify_text holds a slot of the valve for its own call.
Classify(s) ==
  /\ st[s].pc = "new" /\ s \in Smart
  /\ free > 0
  /\ free' = free - 1
  /\ st' = [st EXCEPT ![s].pc = "label", ![s].held = TRUE]
  /\ UNCHANGED <<out, rows, here>>

\* The label came, or the call failed and the floor is used.
Classified(s) ==
  /\ st[s].pc = "label"
  /\ free' = SlotBack(s)
  /\ \E k \in Kinds :
       st' = [st EXCEPT ![s].pc = "slot", ![s].held = FALSE, ![s].kind = k]
  /\ UNCHANGED <<out, rows, here>>

Planned(s) ==
  /\ st[s].pc = "new" /\ s \notin Smart
  /\ \E k \in Kinds : st' = [st EXCEPT ![s].pc = "slot", ![s].kind = k]
  /\ UNCHANGED <<free, out, rows, here>>

\* acquire_slot, first or after a backoff; then runner.stream: a new iterator.
Acquire(s) ==
  /\ st[s].pc \in {"slot", "reslot"}
  /\ st[s].held \/ free > 0
  /\ free' = IF st[s].held THEN free ELSE free - 1
  /\ st' = [st EXCEPT ![s].pc = "await", ![s].held = TRUE, ![s].iter = NewIterator]
  /\ UNCHANGED <<out, rows, here>>

\* The iterator yields.  The usage chunk is kept, and forwarded on request.
Pull(s) ==
  /\ st[s].pc = "await"
  /\ \E item \in Items(s) :
       LET hidden == item.chunk = "usage" /\ s \notin WantUsage IN
         /\ st' = [st EXCEPT ![s].iter = item.iter,
                             ![s].started = TRUE,
                             ![s].pc = IF hidden THEN "await" ELSE "yield",
                             ![s].usage = IF item.chunk # "usage" THEN @
                                          ELSE IF item.iter.meter = "none" THEN "zero"
                                                                           ELSE item.iter.meter]
         /\ out' = IF hidden THEN out
                   ELSE [out EXCEPT ![s] = Append(@, <<item.chunk, st[s].attempt>>)]
  /\ UNCHANGED <<free, rows, here>>

\* The transport took the chunk; the generator is resumed.
Resume(s) ==
  /\ st[s].pc = "yield" /\ here[s]
  /\ st' = [st EXCEPT ![s].pc = "await"]
  /\ UNCHANGED <<free, out, rows, here>>

End(s) ==
  /\ st[s].pc = "await" /\ Exhausted(s)
  /\ Finish(s, "ok", <<"done">>)
  /\ UNCHANGED <<out, here>>

\* Mutant: chunks already forwarded do not stop a retry.
MayRetryAnytime(s, e) ==
  /\ st[s].kind = "provider" /\ st[s].attempt < Retries /\ e # "fatal"

\* retry_before_first_chunk's test; a stall counts as retryable.
MayRetry(s, e) ==
  /\ st[s].kind = "provider" /\ ~st[s].started
  /\ st[s].attempt < Retries
  /\ e # "fatal"

\* The deadline of wait_for passed (stall), or the iterator raised.  aclose,
\* release and backoff when it may be retried, else the generator ends.
Fault(s) ==
  /\ st[s].pc = "await" /\ st[s].iter.phase # "end"
  /\ \E e \in {"stall", "transient", "fatal"} :
       IF MayRetry(s, e)
       THEN /\ st' = [st EXCEPT ![s] = [Release(@) EXCEPT !.pc = "backoff"]]
            /\ free' = SlotBack(s)
            /\ UNCHANGED rows
       ELSE Finish(s, IF e = "stall" THEN "stream_stall" ELSE "upstream", Told)
  /\ UNCHANGED <<out, here>>

\* Mutant: the attempt is not counted.
BackoffUncounted(s) ==
  /\ st[s].pc = "backoff"
  /\ st' = [st EXCEPT ![s].pc = "reslot"]
  /\ UNCHANGED <<free, out, rows, here>>

Backoff(s) ==
  /\ st[s].pc = "backoff"
  /\ st' = [st EXCEPT ![s].pc = "reslot", ![s].attempt = @ + 1]
  /\ UNCHANGED <<free, out, rows, here>>

\* _sse after the generator: the error event if it raised, then [DONE].
SayEnd(s) ==
  /\ st[s].pc = "tail" /\ here[s]
  /\ out' = [out EXCEPT ![s] = Append(@, <<Head(st[s].todo), 0>>)]
  /\ st' = [st EXCEPT ![s].todo = Tail(@),
                      ![s].pc = IF Len(st[s].todo) = 1 THEN "done" ELSE "tail"]
  /\ UNCHANGED <<free, rows, here>>

-----------------------------------------------------------------------------
\* The client leaves and the response task is cancelled.  Before the try block
\* nothing is recorded; inside it CancelledError passes every except clause,
\* and the row keeps the status it was created with.
Disconnect(s) ==
  /\ here[s] /\ st[s].pc # "done"
  /\ here' = [here EXCEPT ![s] = FALSE]
  /\ UNCHANGED out
  /\ \/ /\ st[s].pc \in {"new", "label", "slot", "tail"}
        /\ st' = [st EXCEPT ![s].pc = "done", ![s].held = FALSE]
        /\ free' = SlotBack(s)
        /\ UNCHANGED rows
     \/ /\ st[s].pc \in {"await", "backoff", "reslot"}
        /\ Finish(s, "ok", <<>>)
     \/ /\ st[s].pc = "yield"
        /\ st' = [st EXCEPT ![s].pc = "orphan"]
        /\ UNCHANGED <<free, rows>>

\* Mutant: the row is written by the except clauses, which GeneratorExit passes.
CollectUnwritten(s) ==
  /\ st[s].pc = "orphan"
  /\ st' = [st EXCEPT ![s] = [Release(@) EXCEPT !.pc = "done"]]
  /\ free' = SlotBack(s)
  /\ UNCHANGED <<out, rows, here>>

\* The interpreter closes the suspended generator: GeneratorExit.
Collect(s) ==
  /\ st[s].pc = "orphan"
  /\ Finish(s, "client_disconnected", <<>>)
  /\ UNCHANGED <<out, here>>

Move(s) ==
  \/ Refuse(s) \/ Classify(s) \/ Classified(s) \/ Planned(s) \/ Acquire(s)
  \/ Pull(s) \/ Resume(s) \/ End(s) \/ Fault(s) \/ Backoff(s) \/ SayEnd(s)
  \/ Collect(s)

Next == \E s \in Stream : Move(s) \/ Disconnect(s)

Spec == Init /\ [][Next]_vars

\* The event loop runs what is ready; the stall deadline ends every wait on an
\* upstream; a connected client reads.  asyncio.Semaphore serves its waiters
\* in arrival order, hence the strong fairness of whoever wants a slot.
FairSpec ==
  /\ Spec
  /\ \A s \in Stream :
       /\ WF_vars(Move(s))
       /\ SF_vars(Acquire(s)) /\ SF_vars(Classify(s))

-----------------------------------------------------------------------------
Closed(s) == st[s].pc = "done"

\* runner.stream was called: the stream got past planning and the valve.
Opened(s) == st[s].iter.phase # "none"

Chunks(s) == {i \in DOMAIN out[s] : out[s][i][1] \notin {"error", "done"}}

\* Once a chunk has gone out the client never sees one of another attempt: a
\* retry happens only before the first chunk ("replay would duplicate
\* client-visible bytes").
NoReplay ==
  \A s \in Stream : \A i, j \in Chunks(s) : out[s][i][2] = out[s][j][2]

\* The valve is neither leaked nor overdrawn over retries, failures and
\* clients that leave: free and held slots add up, and the upstream is only
\* pulled by a stream that holds one.
ValveHolds ==
  /\ free + Cardinality({s \in Stream : st[s].held}) = Slots
  /\ \A s \in Stream : st[s].pc \in {"await", "yield", "orphan"} => st[s].held

\* A row whose cost is not marked as estimated rests on counts the upstream
\* reported in the attempt that was served.
ExactMeansReported ==
  \A s \in Stream : \A i \in DOMAIN rows[s] :
    rows[s][i].status # "refused" /\ ~rows[s][i].estimated
      => st[s].iter.meter # "none"

\* The trace tells what happened.  A stream that called its upstream, however
\* it ended and whether its client stayed, has exactly one row when it is
\* over, and no stream has two.  A client that stayed saw an error event
\* exactly if no row says ok.
TraceTellsClient ==
  \A s \in Stream :
    /\ Len(rows[s]) <= 1
    /\ Closed(s) /\ Opened(s) => Len(rows[s]) = 1
    /\ Closed(s) /\ here[s] =>
         (rows[s] # <<>> /\ rows[s][1].status = "ok"
            <=> \A i \in DOMAIN out[s] : out[s][i][1] # "error")

\* Every stream ends, and for a client that stays it ends with [DONE], however
\* the upstream fails and whoever else waits for the valve.
EveryStreamEnds ==
  \A s \in Stream :
    <>(Closed(s) /\ (here[s] => out[s][Len(out[s])][1] = "done"))

\* A stream whose client left while it was being served is recorded as
\* client_disconnected.
DisconnectRecorded ==
  \A s \in Stream : \A i \in DOMAIN rows[s] :
    rows[s][i].status = "ok" => here[s] \/ \E j \in DOMAIN out[s] : out[s][j][1] = "stop"
=============================================================================
