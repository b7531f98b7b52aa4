----------------------------- MODULE EdgeProofs -----------------------------
(***************************************************************************)
(* The edge of the gateway: streamed completions, for any number of        *)
(* streams, slots, retries and deltas; the door of the run plane; and      *)
(* accounts.  The three components share no state: each section has its    *)
(* own invariant.                                                          *)
(***************************************************************************)
EXTENDS StreamRelay, SessionDoor, Accounts, FiniteSetTheorems, SequenceTheorems, TLAPS

Pc == {"new", "label", "slot", "reslot", "await", "backoff", "yield", "orphan", "tail", "done"}

Iterator == [phase : {"none", "new", "body", "usage", "end"}, meter : {"none", "prompt", "full"},
             deltas : Nat]

Locals == [pc : Pc, kind : {"openai", "provider", "anthropic", "mlx"}, attempt : Nat,
           started : BOOLEAN, held : BOOLEAN, iter : Iterator,
           usage : {"none", "zero", "prompt", "full"}, todo : {<<>>, <<"done">>, Told}]

Event == {"role", "delta", "stop", "usage", "error", "done"} \X Nat

Row == [status : {"refused", "ok", "stream_stall", "upstream", "client_disconnected"},
        estimated : BOOLEAN]

\* The types of the coroutines, of what they sent and of what they recorded.
TypeOK ==
  /\ st \in [Stream -> Locals] /\ free \in Nat
  /\ out \in [Stream -> Seq(Event)] /\ rows \in [Stream -> Seq(Row)]
  /\ here \in [Stream -> BOOLEAN]

\* A slot is held exactly where the classifier or the upstream is being called.
Slotted(s) == st[s].held <=> st[s].pc \in {"label", "await", "yield", "orphan"}

\* Before the first chunk nothing was sent; what was sent is of this attempt.
OneAttempt(s) ==
  /\ st[s].pc \in {"new", "label", "slot", "reslot", "backoff"} => ~st[s].started
  /\ ~st[s].started => Chunks(s) = {}
  /\ \A i \in Chunks(s) : out[s][i][2] = st[s].attempt

\* Counts are those of the iterator that is being read, which has ended.
Metered(s) ==
  /\ ~st[s].started => st[s].usage = "none"
  /\ st[s].usage # "none" => st[s].iter.phase = "end"
  /\ st[s].usage \in {"prompt", "full"} => st[s].iter.meter = st[s].usage
  /\ \A i \in DOMAIN rows[s] :
       rows[s][i].status # "refused" /\ ~rows[s][i].estimated => st[s].iter.meter # "none"

HasError(s) == \E i \in DOMAIN out[s] : out[s][i][1] = "error"

\* No row and no error before the end; a row after it for a stream that was
\* opened, and what _sse still has to say.
Story(s) ==
  /\ st[s].pc \notin {"tail", "done"} => rows[s] = <<>> /\ ~HasError(s)
  /\ st[s].pc = "orphan" => ~here[s]
  /\ st[s].pc = "tail" => st[s].todo \in {<<"done">>, Told}
  /\ Len(rows[s]) <= 1
  /\ st[s].pc \in {"new", "label", "slot"} => ~Opened(s)
  /\ st[s].pc \in {"tail", "done"} /\ Opened(s) => rows[s] # <<>>
  /\ st[s].pc = "tail" /\ st[s].todo = Told =>
       ~HasError(s) /\ (rows[s] # <<>> => rows[s][1].status # "ok")
  /\ st[s].pc \in {"tail", "done"} =>
       \/ st[s].pc = "tail" /\ st[s].todo = Told
       \/ Closed(s) /\ ~here[s]
       \/ (rows[s] # <<>> /\ rows[s][1].status = "ok") <=> ~HasError(s)

Local(s) == Slotted(s) /\ OneAttempt(s) /\ Metered(s) /\ Story(s)

Holders == {s \in Stream : st[s].held}

\* The inductive invariant.
IInv == TypeOK /\ (\A s \in Stream : Local(s)) /\ free + Cardinality(Holders) = Slots

-----------------------------------------------------------------------------
\* The lists _sse works through.
LEMMA Todos ==
  /\ Told = <<"error", "done">>
  /\ Head(Told) = "error" /\ Tail(Told) = <<"done">> /\ Len(Told) = 2
  /\ Head(<<"done">>) = "done" /\ Tail(<<"done">>) = <<>> /\ Len(<<"done">>) = 1
  /\ Told # <<>> /\ <<"done">> # <<>> /\ Told # <<"done">>
BY DEF Told

\* runner.stream: what an iterator yields, and where it stands after that.
LEMMA ItemType ==
  ASSUME TypeOK, NEW s \in Stream, NEW item \in Items(s)
  PROVE  /\ item.iter \in Iterator
         /\ item.chunk \in {"role", "delta", "stop", "usage"}
         /\ item.chunk = "usage" => item.iter.phase = "end"
         /\ st[s].iter.phase # "end"
<1>1. st[s].iter \in Iterator BY DEF TypeOK, Locals
<1> QED
  BY <1>1 DEF Items, AnthropicItems, MLXItems, OpenAIItems, Item, Iterator

\* Another event: what was sent stays, the new one is last.
LEMMA Appended ==
  ASSUME NEW q \in Seq(Event), NEW e \in Event
  PROVE  /\ Append(q, e) \in Seq(Event)
         /\ DOMAIN Append(q, e) = DOMAIN q \cup {Len(q) + 1}
         /\ \A i \in DOMAIN q : Append(q, e)[i] = q[i]
         /\ Append(q, e)[Len(q) + 1] = e
<1>1. DOMAIN q = 1..Len(q) /\ Len(q) \in Nat OBVIOUS
<1>2. DOMAIN Append(q, e) = 1..(Len(q) + 1) OBVIOUS
<1> QED BY <1>1, <1>2

\* A step is one stream's: the others keep their locals, events and rows.
LEMMA Frame ==
  ASSUME TypeOK, NEW s \in Stream, Move(s) \/ Disconnect(s), NEW x \in Stream \ {s}
  PROVE  st'[x] = st[x] /\ out'[x] = out[x] /\ rows'[x] = rows[x] /\ here'[x] = here[x]
<1> USE DEF TypeOK
<1>1. CASE Refuse(s) BY <1>1 DEF Refuse
<1>2. CASE Classify(s) BY <1>2 DEF Classify
<1>3. CASE Classified(s) BY <1>3 DEF Classified
<1>4. CASE Planned(s) BY <1>4 DEF Planned
<1>5. CASE Acquire(s) BY <1>5 DEF Acquire
<1>6. CASE Pull(s) BY <1>6 DEF Pull
<1>7. CASE Resume(s) BY <1>7 DEF Resume
<1>8. CASE End(s) BY <1>8 DEF End, Finish
<1>9. CASE Fault(s) BY <1>9 DEF Fault, Finish
<1>10. CASE Backoff(s) BY <1>10 DEF Backoff
<1>11. CASE SayEnd(s) BY <1>11 DEF SayEnd
<1>12. CASE Collect(s) BY <1>12 DEF Collect, Finish
<1>13. CASE Disconnect(s) BY <1>13 DEF Disconnect, Finish
<1> QED
  BY <1>1, <1>2, <1>3, <1>4, <1>5, <1>6, <1>7, <1>8, <1>9, <1>10, <1>11, <1>12, <1>13
     DEF Move

\* The finally block of Gateway.stream, whatever ended the generator.
LEMMA Finished ==
  ASSUME IInv, NEW s \in Stream, st[s].pc \notin {"tail", "done"},
         NEW status \in {"ok", "stream_stall", "upstream", "client_disconnected"},
         NEW todo \in {<<>>, <<"done">>, Told}, Finish(s, status, todo), out' = out,
         here' \in [Stream -> BOOLEAN],
         \/ todo = <<"done">> /\ status = "ok"
         \/ todo = Told /\ status # "ok"
         \/ todo = <<>> /\ ~here'[s]
  PROVE  TypeOK' /\ Local(s)'
<1> USE Todos
<1>1. TypeOK /\ Local(s) BY DEF IInv
<1>2. st[s] \in Locals /\ st \in [Stream -> Locals] BY <1>1 DEF TypeOK
<1>3. /\ st'[s] = [st[s] EXCEPT !.held = FALSE,
                                 !.pc = IF todo = <<>> THEN "done" ELSE "tail", !.todo = todo]
      /\ st'[s] \in Locals
  BY <1>2 DEF Finish, Release, Locals, Pc
<1>4. /\ st'[s].pc = IF todo = <<>> THEN "done" ELSE "tail"
      /\ st'[s].todo = todo /\ ~st'[s].held
      /\ st'[s].started = st[s].started /\ st'[s].attempt = st[s].attempt
      /\ st'[s].iter = st[s].iter /\ st'[s].usage = st[s].usage
  BY <1>2, <1>3 DEF Locals
<1>5. rows[s] = <<>> /\ ~HasError(s) BY <1>1 DEF Local, Story
<1>6. /\ rows'[s] = <<[status |-> status, estimated |-> Estimated(st[s].usage)]>>
      /\ rows' \in [Stream -> Seq(Row)]
  BY <1>1, <1>5 DEF Finish, TypeOK, Row, Estimated
<1>7. st' \in [Stream -> Locals] /\ free' \in Nat
  BY <1>1, <1>2, <1>3 DEF Finish, SlotBack, TypeOK
<1>8. TypeOK' BY <1>1, <1>6, <1>7 DEF TypeOK
<1>9. /\ Len(rows'[s]) = 1 /\ DOMAIN rows'[s] = {1} /\ rows'[s] # <<>>
      /\ rows'[s][1] = [status |-> status, estimated |-> Estimated(st[s].usage)]
  BY <1>6
<1>10. Chunks(s)' = Chunks(s) /\ (HasError(s)' <=> HasError(s)) /\ out'[s] = out[s]
  BY DEF Chunks, HasError
<1>11. Slotted(s)' BY <1>4 DEF Slotted
<1>12. OneAttempt(s)' BY <1>1, <1>4, <1>10 DEF Local, OneAttempt
<1>13. Metered(s)'
  <2>1. rows'[s][1].estimated = (st[s].usage \in {"none", "zero"}) BY <1>9 DEF Estimated
  <2>2. st[s].usage \in {"none", "zero", "prompt", "full"} BY <1>2 DEF Locals
  <2>3. ~rows'[s][1].estimated => st[s].iter.meter # "none"
    BY <1>1, <2>1, <2>2 DEF Local, Metered
  <2> QED BY <1>1, <1>4, <1>9, <2>3 DEF Local, Metered
<1>14. Story(s)' BY <1>4, <1>5, <1>9, <1>10 DEF Story, Closed, Opened
<1> QED BY <1>8, <1>11, <1>12, <1>13, <1>14 DEF Local

\* A move before the end that sends and records nothing keeps what is known.
LEMMA Silent ==
  ASSUME IInv, NEW s \in Stream, UNCHANGED <<out, rows, here>>, free' \in Nat,
         NEW r \in Locals, st' = [st EXCEPT ![s] = r],
         st[s].pc \notin {"tail", "done"}, r.pc \notin {"tail", "done"},
         r.pc = "orphan" => ~here[s],
         r.held <=> r.pc \in {"label", "await", "yield", "orphan"},
         r.pc \in {"new", "label", "slot", "reslot", "backoff"} => ~r.started,
         r.started = st[s].started, r.usage = st[s].usage,
         r.attempt = st[s].attempt \/ ~r.started,
         r.iter = st[s].iter \/ ~r.started,
         r.pc \in {"new", "label", "slot"} =>
           r.iter = st[s].iter /\ st[s].pc \in {"new", "label", "slot"}
  PROVE  TypeOK' /\ Local(s)'
<1>1. TypeOK /\ Local(s) BY DEF IInv
<1>2. st'[s] = r BY <1>1 DEF TypeOK
<1>3. TypeOK' BY <1>1 DEF TypeOK
<1>4. /\ Chunks(s)' = Chunks(s) /\ (HasError(s)' <=> HasError(s)) /\ out'[s] = out[s]
      /\ rows'[s] = rows[s] /\ here'[s] = here[s]
  BY DEF Chunks, HasError
<1>5. rows[s] = <<>> BY <1>1 DEF Local, Story
<1>6. Slotted(s)' BY <1>2 DEF Slotted
<1>7. OneAttempt(s)' BY <1>1, <1>2, <1>4 DEF Local, OneAttempt
<1>8. Metered(s)' BY <1>1, <1>2, <1>4, <1>5 DEF Local, Metered
<1>9. Story(s)' BY <1>1, <1>2, <1>4, <1>5 DEF Local, Story, Closed, Opened
<1> QED BY <1>3, <1>6, <1>7, <1>8, <1>9 DEF Local

\* Every step of a stream keeps the types and what is known of that stream.
LEMMA StepLocal ==
  ASSUME IInv, NEW s \in Stream, Move(s) \/ Disconnect(s)
  PROVE  TypeOK' /\ Local(s)'
<1> USE Todos, StreamAssumption
<1>a. TypeOK /\ Local(s) /\ st[s] \in Locals /\ st \in [Stream -> Locals] /\ free \in Nat
  BY DEF IInv, TypeOK
<1>b. NewIterator \in Iterator BY DEF NewIterator, Iterator
<1>c. /\ st[s].pc \in Pc /\ (st[s].held <=> st[s].pc \in {"label", "await", "yield", "orphan"})
      /\ (st[s].pc \in {"new", "label", "slot", "reslot", "backoff"} => ~st[s].started)
  BY <1>a DEF Locals, Local, Slotted, OneAttempt
<1>1. CASE Refuse(s)
  <2>1. /\ st'[s].pc = "tail" /\ st'[s].todo = Told /\ ~st'[s].held
        /\ st'[s].started = st[s].started /\ st'[s].attempt = st[s].attempt
        /\ st'[s].iter = st[s].iter /\ st'[s].usage = st[s].usage
        /\ st' \in [Stream -> Locals] /\ free' \in Nat
    <3> DEFINE r == [st[s] EXCEPT !.held = FALSE, !.pc = "tail", !.todo = Told]
    <3>1. r \in Locals /\ st' = [st EXCEPT ![s] = r] BY <1>1, <1>a DEF Refuse, Release, Locals, Pc
    <3>2. free' \in Nat BY <1>1, <1>a DEF Refuse, SlotBack
    <3>3. st'[s] = r /\ st' \in [Stream -> Locals] BY <1>a, <3>1
    <3> QED BY <1>a, <3>2, <3>3 DEF Locals
  <2>2. /\ rows' \in [Stream -> Seq(Row)] /\ Len(rows'[s]) <= 1
        /\ \A i \in DOMAIN rows'[s] : rows'[s][i].status = "refused"
        /\ rows'[s] # <<>> => 1 \in DOMAIN rows'[s]
    <3> DEFINE R == [status |-> "refused", estimated |-> FALSE]
    <3>1. PICK row \in {<<>>, <<R>>} : rows' = [rows EXCEPT ![s] = row]
      BY <1>1 DEF Refuse
    <3>2. R \in Row /\ R.status = "refused" BY DEF Row
    <3> HIDE DEF R
    <3>3. /\ row \in Seq(Row) /\ Len(row) <= 1 /\ (row # <<>> => 1 \in DOMAIN row)
          /\ \A i \in DOMAIN row : row[i] = R
      <4>1. CASE row = <<>> BY <4>1
      <4>2. CASE row = <<R>>
        <5>1. DOMAIN row = {1} /\ Len(row) = 1 /\ row[1] = R BY <4>2
        <5> QED BY <3>2, <4>2, <5>1
      <4> QED BY <4>1, <4>2
    <3>4. rows'[s] = row /\ rows' \in [Stream -> Seq(Row)] BY <3>1, <3>3, <1>a DEF TypeOK
    <3> QED BY <3>2, <3>3, <3>4
  <2>3. /\ Chunks(s)' = Chunks(s) /\ (HasError(s)' <=> HasError(s)) /\ out'[s] = out[s]
        /\ UNCHANGED <<out, here>> /\ ~HasError(s)
    BY <1>1, <1>a DEF Refuse, Chunks, HasError, Local, Story
  <2>4. TypeOK' BY <1>a, <2>1, <2>2, <2>3 DEF TypeOK
  <2>5. Slotted(s)' BY <2>1 DEF Slotted
  <2>6. OneAttempt(s)' BY <1>a, <2>1, <2>3 DEF Local, OneAttempt
  <2>7. Metered(s)' BY <1>a, <2>1, <2>2 DEF Local, Metered
  <2>8. ~Opened(s)' BY <1>1, <1>a, <2>1 DEF Refuse, Local, Story, Opened
  <2>9. Story(s)' BY <2>1, <2>2, <2>3, <2>8 DEF Story, Closed
  <2> QED BY <2>4, <2>5, <2>6, <2>7, <2>9 DEF Local
<1>2. CASE Classify(s)
  <2> DEFINE r == [st[s] EXCEPT !.pc = "label", !.held = TRUE]
  <2>1. r \in Locals /\ st' = [st EXCEPT ![s] = r] BY <1>2, <1>a DEF Classify, Locals, Pc
  <2>2. free' \in Nat BY <1>2, <1>a DEF Classify
  <2> QED BY <1>2, <1>a, <1>c, <2>1, <2>2, Silent DEF Classify, Locals
<1>3. CASE Classified(s)
  <2>1. PICK k \in Kinds :
          st' = [st EXCEPT ![s].pc = "slot", ![s].held = FALSE, ![s].kind = k]
    BY <1>3 DEF Classified
  <2> DEFINE r == [st[s] EXCEPT !.pc = "slot", !.held = FALSE, !.kind = k]
  <2>2. r \in Locals /\ st' = [st EXCEPT ![s] = r] BY <2>1, <1>a DEF Locals, Pc
  <2>3. free' \in Nat BY <1>3, <1>a DEF Classified, SlotBack
  <2> QED BY <1>3, <1>a, <1>c, <2>2, <2>3, Silent DEF Classified, Locals
<1>4. CASE Planned(s)
  <2>1. PICK k \in Kinds : st' = [st EXCEPT ![s].pc = "slot", ![s].kind = k]
    BY <1>4 DEF Planned
  <2> DEFINE r == [st[s] EXCEPT !.pc = "slot", !.kind = k]
  <2>2. r \in Locals /\ st' = [st EXCEPT ![s] = r] BY <2>1, <1>a DEF Locals, Pc
  <2>3. free' \in Nat BY <1>4, <1>a DEF Planned
  <2> QED BY <1>4, <1>a, <1>c, <2>2, <2>3, Silent DEF Planned, Locals
<1>5. CASE Acquire(s)
  <2> DEFINE r == [st[s] EXCEPT !.pc = "await", !.held = TRUE, !.iter = NewIterator]
  <2>1. r \in Locals /\ st' = [st EXCEPT ![s] = r]
    BY <1>5, <1>a, <1>b DEF Acquire, Locals, Pc
  <2>2. free' \in Nat BY <1>5, <1>a DEF Acquire
  <2> QED BY <1>5, <1>a, <1>c, <2>1, <2>2, Silent DEF Acquire, Locals
<1>6. CASE Pull(s)
  <2>1. PICK item \in Items(s) :
          LET hidden == item.chunk = "usage" /\ s \notin WantUsage IN
            /\ st' = [st EXCEPT ![s].iter = item.iter,
                                ![s].started = TRUE,
                                ![s].pc = IF hidden THEN "await" ELSE "yield",
                                ![s].usage = IF item.chunk # "usage" THEN @
                                             ELSE IF item.iter.meter = "none" THEN "zero"
                                                                              ELSE item.iter.meter]
            /\ out' = IF hidden THEN out
                      ELSE [out EXCEPT ![s] = Append(@, <<item.chunk, st[s].attempt>>)]
    BY <1>6 DEF Pull
  <2> DEFINE hidden == item.chunk = "usage" /\ s \notin WantUsage
             u == IF item.chunk # "usage" THEN st[s].usage
                  ELSE IF item.iter.meter = "none" THEN "zero" ELSE item.iter.meter
             r == [st[s] EXCEPT !.iter = item.iter, !.started = TRUE,
                                !.pc = IF hidden THEN "await" ELSE "yield", !.usage = u]
             e == <<item.chunk, st[s].attempt>>
  <2>2. /\ item.iter \in Iterator /\ item.chunk \in {"role", "delta", "stop", "usage"}
        /\ item.chunk = "usage" => item.iter.phase = "end"
        /\ st[s].iter.phase # "end"
    BY <1>a, ItemType
  <2>3. st[s].usage = "none" /\ rows[s] = <<>> /\ ~HasError(s) /\ OneAttempt(s)
    BY <1>6, <1>a, <2>2 DEF Pull, Local, Metered, Story
  <2>4. item.iter.meter \in {"none", "prompt", "full"} /\ u \in {"none", "zero", "prompt", "full"}
    BY <2>2, <2>3 DEF Iterator
  <2>5. r \in Locals /\ st' = [st EXCEPT ![s] = r]
    <3>1. st' = [st EXCEPT ![s] = r] BY <1>a, <2>1 DEF Locals
    <3> HIDE DEF u
    <3>2. r \in Locals BY ZenonT(40), <1>a, <2>2, <2>4 DEF Locals, Pc
    <3> QED BY <3>1, <3>2
  <2>6. /\ st'[s].pc \in {"await", "yield"} /\ st'[s].held = st[s].held /\ st'[s].started
        /\ st'[s].attempt = st[s].attempt /\ st'[s].iter = item.iter /\ st'[s].usage = u
        /\ st' \in [Stream -> Locals]
    BY <1>a, <2>5 DEF Locals
  <2>7. e \in Event /\ e[1] # "error" /\ e[2] = st[s].attempt
    BY <1>a, <2>2 DEF Event, Locals
  <2>8. /\ out' \in [Stream -> Seq(Event)]
        /\ out'[s] = out[s] \/ out'[s] = Append(out[s], e)
    <3>1. out \in [Stream -> Seq(Event)] BY <1>a DEF TypeOK
    <3>2. Append(out[s], e) \in Seq(Event) BY <2>7, <3>1
    <3>3. CASE hidden BY <2>1, <3>1, <3>3
    <3>4. CASE ~hidden
      <4>1. out' = [out EXCEPT ![s] = Append(out[s], e)] BY <2>1, <3>4
      <4> HIDE DEF e
      <4> QED BY <3>1, <3>2, <4>1
    <3> QED BY <3>3, <3>4
  <2>9. /\ ~HasError(s)'
        /\ \A i \in Chunks(s)' : out'[s][i][2] = st[s].attempt
    <3>1. out[s] \in Seq(Event) BY <1>a DEF TypeOK
    <3>2. CASE out'[s] = out[s] BY <2>3, <3>2 DEF HasError, Chunks, OneAttempt
    <3>3. CASE out'[s] = Append(out[s], e)
      <4> HIDE DEF e
      <4>1. /\ DOMAIN out'[s] = DOMAIN out[s] \cup {Len(out[s]) + 1}
            /\ \A i \in DOMAIN out[s] : out'[s][i] = out[s][i]
            /\ out'[s][Len(out[s]) + 1] = e
        BY <2>7, <3>1, <3>3, Appended
      <4> QED BY <2>3, <2>7, <4>1 DEF HasError, Chunks, OneAttempt
    <3> QED BY <2>8, <3>2, <3>3
  <2>10. UNCHANGED <<free, rows, here>> BY <1>6 DEF Pull
  <2>11. TypeOK' BY <1>a, <2>6, <2>8, <2>10 DEF TypeOK
  <2>12. Slotted(s)' BY <1>6, <1>c, <2>6 DEF Slotted, Pull
  <2>13. OneAttempt(s)' BY <2>6, <2>9 DEF OneAttempt
  <2>14. Metered(s)' BY <2>2, <2>3, <2>4, <2>6, <2>10 DEF Metered
  <2>15. Story(s)' BY <2>3, <2>6, <2>9, <2>10 DEF Story
  <2> QED BY <2>11, <2>12, <2>13, <2>14, <2>15 DEF Local
<1>7. CASE Resume(s)
  <2> DEFINE r == [st[s] EXCEPT !.pc = "await"]
  <2>1. r \in Locals /\ st' = [st EXCEPT ![s] = r] BY <1>7, <1>a DEF Resume, Locals, Pc
  <2> QED BY <1>7, <1>a, <1>c, <2>1, Silent DEF Resume, Locals
<1>8. CASE End(s)
  BY <1>8, <1>a, Finished DEF End, TypeOK
<1>9. CASE Fault(s)
  <2>1. PICK e \in {"stall", "transient", "fatal"} :
          IF MayRetry(s, e)
          THEN /\ st' = [st EXCEPT ![s] = [Release(@) EXCEPT !.pc = "backoff"]]
               /\ free' = SlotBack(s)
               /\ UNCHANGED rows
          ELSE Finish(s, IF e = "stall" THEN "stream_stall" ELSE "upstream", Told)
    BY <1>9 DEF Fault
  <2>2. CASE MayRetry(s, e)
    <3> DEFINE r == [st[s] EXCEPT !.held = FALSE, !.pc = "backoff"]
    <3>1. r \in Locals /\ st' = [st EXCEPT ![s] = r]
      BY <2>1, <2>2, <1>a DEF Release, Locals, Pc
    <3>2. free' \in Nat BY <2>1, <2>2, <1>a DEF SlotBack
    <3> QED BY <1>9, <1>a, <2>1, <2>2, <3>1, <3>2, Silent DEF Fault, MayRetry, Locals
  <2>3. CASE ~MayRetry(s, e)
    <3>1. PICK status \in {"stream_stall", "upstream"} : Finish(s, status, Told)
      BY <2>1, <2>3
    <3> QED BY <1>9, <1>a, <3>1, Finished DEF Fault, TypeOK
  <2> QED BY <2>2, <2>3
<1>10. CASE Backoff(s)
  <2> DEFINE r == [st[s] EXCEPT !.pc = "reslot", !.attempt = @ + 1]
  <2>1. r \in Locals /\ st' = [st EXCEPT ![s] = r] BY <1>10, <1>a DEF Backoff, Locals, Pc
  <2> QED BY <1>10, <1>a, <1>c, <2>1, Silent DEF Backoff, Locals
<1>12. CASE Collect(s)
  BY <1>12, <1>a, Finished DEF Collect, TypeOK, Local, Story
<1>11. CASE SayEnd(s)
  <2> DEFINE e == <<Head(st[s].todo), 0>>
             r == [st[s] EXCEPT !.todo = Tail(@),
                                !.pc = IF Len(st[s].todo) = 1 THEN "done" ELSE "tail"]
  <2>1. st[s].pc = "tail" /\ here[s] /\ st[s].todo \in {<<"done">>, Told} /\ Story(s)
    BY <1>11, <1>a DEF SayEnd, Local, Story
  <2>2. /\ st[s].todo = <<"done">> => r.pc = "done" /\ r.todo = <<>> /\ e[1] = "done"
        /\ st[s].todo = Told => r.pc = "tail" /\ r.todo = <<"done">> /\ e[1] = "error"
    <3>1. /\ r.pc = IF Len(st[s].todo) = 1 THEN "done" ELSE "tail"
          /\ r.todo = Tail(st[s].todo) /\ e[1] = Head(st[s].todo)
      BY <1>a DEF Locals
    <3>2. CASE st[s].todo = <<"done">> BY <3>1, <3>2
    <3>3. CASE st[s].todo = Told BY <3>1, <3>3
    <3> QED BY <3>2, <3>3
  <2>3. r \in Locals /\ st' = [st EXCEPT ![s] = r]
    BY ZenonT(40), <1>11, <1>a, <2>1, <2>2 DEF SayEnd, Locals, Pc
  <2>4. /\ st'[s].pc = r.pc /\ st'[s].todo = r.todo /\ st'[s].held = st[s].held
        /\ st'[s].started = st[s].started /\ st'[s].attempt = st[s].attempt
        /\ st'[s].iter = st[s].iter /\ st'[s].usage = st[s].usage
        /\ st' \in [Stream -> Locals]
    BY <1>a, <2>3 DEF Locals
  <2>5. e \in Event BY <2>1, <2>2 DEF Event
  <2>6. out'[s] = Append(out[s], e) /\ out' \in [Stream -> Seq(Event)] /\ UNCHANGED <<free, rows, here>>
    <3>1. out \in [Stream -> Seq(Event)] BY <1>a DEF TypeOK
    <3>2. Append(out[s], e) \in Seq(Event) BY <2>5, <3>1
    <3>3. out' = [out EXCEPT ![s] = Append(out[s], e)] /\ UNCHANGED <<free, rows, here>>
      BY <1>11 DEF SayEnd
    <3> HIDE DEF e
    <3> QED BY <3>1, <3>2, <3>3
  <2> HIDE DEF e, r
  <2>7. /\ DOMAIN out'[s] = DOMAIN out[s] \cup {Len(out[s]) + 1}
        /\ \A i \in DOMAIN out[s] : out'[s][i] = out[s][i]
        /\ out'[s][Len(out[s]) + 1] = e
        /\ Len(out[s]) + 1 \notin DOMAIN out[s]
    <3>1. out[s] \in Seq(Event) BY <1>a DEF TypeOK
    <3> QED BY <2>5, <2>6, <3>1, Appended
  <2>8. /\ Chunks(s)' = Chunks(s) /\ \A i \in Chunks(s) : out'[s][i] = out[s][i]
        /\ HasError(s)' <=> (HasError(s) \/ e[1] = "error")
    BY <2>1, <2>2, <2>7 DEF Chunks, HasError
  <2>9. TypeOK' BY <1>a, <2>4, <2>6 DEF TypeOK
  <2>10. Slotted(s)' BY <1>c, <2>1, <2>2, <2>4 DEF Slotted
  <2>11. OneAttempt(s)' BY <1>a, <2>1, <2>2, <2>4, <2>8 DEF Local, OneAttempt
  <2>12. Metered(s)' BY <1>a, <2>4, <2>6 DEF Local, Metered
  <2>13. Story(s)' BY ZenonT(40), <2>1, <2>2, <2>4, <2>6, <2>8 DEF Story, Closed, Opened
  <2> QED BY <2>9, <2>10, <2>11, <2>12, <2>13 DEF Local
<1>13. CASE Disconnect(s)
  <2>1. here' \in [Stream -> BOOLEAN] /\ ~here'[s] /\ out' = out
    BY <1>13, <1>a DEF Disconnect, TypeOK
  <2>2. CASE /\ st[s].pc \in {"new", "label", "slot", "tail"}
             /\ st' = [st EXCEPT ![s].pc = "done", ![s].held = FALSE]
             /\ free' = SlotBack(s)
             /\ UNCHANGED rows
    <3> DEFINE r == [st[s] EXCEPT !.pc = "done", !.held = FALSE]
    <3>1. r \in Locals /\ st' = [st EXCEPT ![s] = r] BY <2>2, <1>a DEF Locals, Pc
    <3>2. st'[s] = r /\ rows'[s] = rows[s] /\ out'[s] = out[s] BY <1>a, <2>1, <2>2, <3>1
    <3>3. TypeOK' BY <1>a, <2>1, <2>2, <3>1 DEF TypeOK, SlotBack
    <3>4. Chunks(s)' = Chunks(s) BY <2>1 DEF Chunks
    <3>5. Slotted(s)' BY <1>a, <3>2 DEF Slotted, Locals
    <3>6. OneAttempt(s)' BY <1>a, <3>2, <3>4 DEF Local, OneAttempt, Locals
    <3>7. Metered(s)' BY <1>a, <3>2 DEF Local, Metered, Locals
    <3>8. st'[s].pc = "done" /\ (Opened(s)' => Opened(s)) BY <1>a, <3>2 DEF Locals, Opened
    <3>9. Opened(s) => rows[s] # <<>> BY <1>a, <2>2 DEF Local, Story
    <3>10. Story(s)' BY <1>a, <2>1, <3>2, <3>8, <3>9 DEF Local, Story, Closed
    <3> QED BY <3>3, <3>5, <3>6, <3>7, <3>10 DEF Local
  <2>3. CASE st[s].pc \in {"await", "backoff", "reslot"} /\ Finish(s, "ok", <<>>)
    BY <2>1, <2>3, Finished
  <2>4. CASE /\ st[s].pc = "yield"
             /\ st' = [st EXCEPT ![s].pc = "orphan"]
             /\ UNCHANGED <<free, rows>>
    <3> DEFINE r == [st[s] EXCEPT !.pc = "orphan"]
    <3>1. r \in Locals /\ st' = [st EXCEPT ![s] = r] BY <2>4, <1>a DEF Locals, Pc
    <3>2. st'[s] = r /\ rows'[s] = rows[s] /\ out'[s] = out[s] BY <1>a, <2>1, <2>4, <3>1
    <3>3. TypeOK' BY <1>a, <2>1, <2>4, <3>1 DEF TypeOK
    <3>4. Chunks(s)' = Chunks(s) /\ (HasError(s)' <=> HasError(s)) BY <2>1 DEF Chunks, HasError
    <3>5. Slotted(s)' BY <1>a, <1>c, <2>4, <3>2 DEF Slotted, Locals
    <3>6. OneAttempt(s)' BY <1>a, <3>2, <3>4 DEF Local, OneAttempt, Locals
    <3>7. Metered(s)' BY <1>a, <3>2 DEF Local, Metered, Locals
    <3>8. Story(s)' BY <1>a, <2>1, <2>4, <3>2, <3>4 DEF Local, Story, Locals, Closed, Opened
    <3> QED BY <3>3, <3>5, <3>6, <3>7, <3>8 DEF Local
  <2> QED BY <1>13, <2>2, <2>3, <2>4 DEF Disconnect
<1> QED
  BY <1>1, <1>2, <1>3, <1>4, <1>5, <1>6, <1>7, <1>8, <1>9, <1>10, <1>11, <1>12, <1>13
     DEF Move

\* acquire_slot and release_slot move one slot between the semaphore and a
\* stream; no other statement touches either.
LEMMA SlotMoves ==
  ASSUME IInv, NEW s \in Stream, Move(s) \/ Disconnect(s)
  PROVE  \/ (st'[s].held <=> st[s].held) /\ free' = free
         \/ ~st[s].held /\ st'[s].held /\ free' = free - 1
         \/ st[s].held /\ ~st'[s].held /\ free' = free + 1
<1>a. st \in [Stream -> Locals] /\ st[s] \in Locals /\ Slotted(s) /\ free \in Nat
  BY DEF IInv, TypeOK, Local
<1>b. st[s].held \in BOOLEAN BY <1>a DEF Locals
<1>c. ASSUME NEW status, NEW todo, Finish(s, status, todo)
      PROVE  ~st'[s].held /\ free' = SlotBack(s)
  <2>1. st'[s] = [[st[s] EXCEPT !.held = FALSE] EXCEPT
                     !.pc = IF todo = <<>> THEN "done" ELSE "tail", !.todo = todo]
    BY <1>a, <1>c DEF Finish, Release
  <2> QED BY <1>a, <1>c, <2>1 DEF Finish, Locals
<1>1. CASE Refuse(s)
  <2>1. ~st'[s].held BY <1>1, <1>a DEF Refuse, Release, Locals
  <2> QED BY <1>1, <1>b, <2>1 DEF Refuse, SlotBack
<1>2. CASE Classify(s) BY <1>2, <1>a DEF Classify, Slotted, Locals
<1>3. CASE Classified(s) BY <1>3, <1>a DEF Classified, Slotted, SlotBack, Locals
<1>4. CASE Planned(s) BY <1>4, <1>a DEF Planned, Locals
<1>5. CASE Acquire(s) BY <1>5, <1>a DEF Acquire, Slotted, Locals
<1>6. CASE Pull(s) BY <1>6, <1>a DEF Pull, Locals
<1>7. CASE Resume(s) BY <1>7, <1>a DEF Resume, Locals
<1>8. CASE End(s) BY <1>8, <1>b, <1>c DEF End, SlotBack
<1>9. CASE Fault(s)
  <2>1. CASE \E status, todo : Finish(s, status, todo) BY <2>1, <1>b, <1>c DEF SlotBack
  <2>2. CASE /\ st' = [st EXCEPT ![s] = [Release(@) EXCEPT !.pc = "backoff"]]
             /\ free' = SlotBack(s)
    <3>1. ~st'[s].held BY <2>2, <1>a DEF Release, Locals
    <3> QED BY <2>2, <3>1, <1>b DEF SlotBack
  <2> QED BY <1>9, <2>1, <2>2 DEF Fault
<1>10. CASE Backoff(s) BY <1>10, <1>a DEF Backoff, Locals
<1>11. CASE SayEnd(s) BY <1>11, <1>a DEF SayEnd, Locals
<1>12. CASE Collect(s) BY <1>12, <1>b, <1>c DEF Collect, SlotBack
<1>13. CASE Disconnect(s)
  <2>1. CASE Finish(s, "ok", <<>>) BY <2>1, <1>b, <1>c DEF SlotBack
  <2>2. CASE st' = [st EXCEPT ![s].pc = "done", ![s].held = FALSE] /\ free' = SlotBack(s)
    BY <2>2, <1>a DEF SlotBack, Locals
  <2>3. CASE st' = [st EXCEPT ![s].pc = "orphan"] /\ free' = free
    BY <2>3, <1>a DEF Locals
  <2> QED BY <1>13, <2>1, <2>2, <2>3 DEF Disconnect
<1> QED
  BY <1>1, <1>2, <1>3, <1>4, <1>5, <1>6, <1>7, <1>8, <1>9, <1>10, <1>11, <1>12, <1>13
     DEF Move

\* The semaphore's count and the slots held add up after every step.
LEMMA StepValve ==
  ASSUME IInv, NEW s \in Stream, Move(s) \/ Disconnect(s)
  PROVE  (free + Cardinality(Holders) = Slots)'
<1>1. \A x \in Stream \ {s} : st'[x] = st[x] BY Frame DEF IInv
<1>2. IsFiniteSet(Holders) /\ Cardinality(Holders) \in Nat
  <2>1. Holders \in SUBSET Stream BY DEF Holders
  <2>2. IsFiniteSet(Holders) BY <2>1, StreamAssumption, FS_Subset
  <2> QED BY <2>2, FS_CardinalityType
<1>3. free \in Nat /\ free + Cardinality(Holders) = Slots BY DEF IInv, TypeOK
<1>4. CASE (st'[s].held <=> st[s].held) /\ free' = free
  <2>1. Holders' = Holders BY <1>1, <1>4 DEF Holders
  <2> QED BY <1>3, <1>4, <2>1
<1>5. CASE ~st[s].held /\ st'[s].held /\ free' = free - 1
  <2>1. Holders' = Holders \cup {s} /\ s \notin Holders BY <1>1, <1>5 DEF Holders
  <2>2. Cardinality(Holders') = Cardinality(Holders) + 1 BY <1>2, <2>1, FS_AddElement
  <2> QED BY <1>2, <1>3, <1>5, <2>2
<1>6. CASE st[s].held /\ ~st'[s].held /\ free' = free + 1
  <2>1. Holders' = Holders \ {s} /\ s \in Holders BY <1>1, <1>6 DEF Holders
  <2>2. Cardinality(Holders') = Cardinality(Holders) - 1 BY <1>2, <2>1, FS_RemoveElement
  <2> QED BY <1>2, <1>3, <1>6, <2>2
<1> QED BY <1>4, <1>5, <1>6, SlotMoves

\* The invariant holds before any request is planned.
LEMMA InitIInv == Init => IInv
<1> SUFFICES ASSUME Init PROVE IInv OBVIOUS
<1> USE StreamAssumption DEF Init
<1>1. NoIterator \in Iterator /\ NoIterator.phase = "none"
  BY DEF NoIterator, NewIterator, Iterator
<1>2. TypeOK BY <1>1 DEF TypeOK, Locals, Pc
<1>3. ASSUME NEW s \in Stream PROVE Local(s)
  <2>1. out[s] = <<>> /\ rows[s] = <<>> /\ DOMAIN out[s] = {} /\ DOMAIN rows[s] = {} OBVIOUS
  <2>2. Chunks(s) = {} /\ ~HasError(s) BY <2>1 DEF Chunks, HasError
  <2>3. /\ st[s].pc = "new" /\ ~st[s].started /\ ~st[s].held /\ st[s].usage = "none"
        /\ st[s].iter = NoIterator
    OBVIOUS
  <2>4. ~Opened(s) BY <1>1, <2>3 DEF Opened
  <2> QED BY <2>1, <2>2, <2>3, <2>4 DEF Local, Slotted, OneAttempt, Metered, Story, Closed
<1>4. Holders = {} BY DEF Holders
<1>5. free + Cardinality(Holders) = Slots BY <1>4, FS_EmptySet
<1> QED BY <1>2, <1>3, <1>5 DEF IInv

\* Every step keeps the invariant.
LEMMA NextIInv == IInv /\ [Next]_vars => IInv'
<1> SUFFICES ASSUME IInv, [Next]_vars PROVE IInv' OBVIOUS
<1>1. ASSUME NEW s \in Stream, Move(s) \/ Disconnect(s) PROVE IInv'
  <2>1. TypeOK' /\ Local(s)' BY <1>1, StepLocal
  <2>2. ASSUME NEW x \in Stream \ {s} PROVE Local(x)'
    <3>1. st'[x] = st[x] /\ out'[x] = out[x] /\ rows'[x] = rows[x] /\ here'[x] = here[x]
      BY <1>1, Frame DEF IInv
    <3>2. Local(x) BY DEF IInv
    <3> QED
      BY <3>1, <3>2
         DEF Local, Slotted, OneAttempt, Metered, Story, Chunks, HasError, Closed, Opened
  <2>3. (free + Cardinality(Holders) = Slots)' BY <1>1, StepValve
  <2> QED BY <2>1, <2>2, <2>3 DEF IInv
<1>2. CASE UNCHANGED vars
  BY <1>2
     DEF vars, IInv, TypeOK, Holders, Local, Slotted, OneAttempt, Metered, Story, Chunks,
         HasError, Closed, Opened
<1> QED BY <1>1, <1>2 DEF Next

\* The invariant holds throughout.
LEMMA Invariance == Spec => []IInv
BY InitIInv, NextIInv, PTL DEF Spec

-----------------------------------------------------------------------------
\* max_concurrent_llm: for any number of streams, retries and disconnects, the
\* semaphore's free slots and the ones held add up to the limit, and whoever
\* pulls an upstream holds one.
THEOREM ValveAlwaysHolds == Spec => []ValveHolds
<1>1. IInv => ValveHolds
  BY DEF IInv, Local, Slotted, ValveHolds, Holders
<1> QED BY <1>1, Invariance, PTL

\* retry_before_first_chunk: no client ever sees chunks of two attempts,
\* however many retries are configured.
THEOREM NeverReplayed == Spec => []NoReplay
<1>1. IInv => NoReplay
  BY DEF IInv, Local, OneAttempt, NoReplay
<1> QED BY <1>1, Invariance, PTL

\* The finally block's accounting: a row that is not marked as estimated rests
\* on counts the served attempt's iterator reported.
THEOREM ExactIsReported == Spec => []ExactMeansReported
<1>1. IInv => ExactMeansReported
  BY DEF IInv, Local, Metered, ExactMeansReported
<1> QED BY <1>1, Invariance, PTL

\* The finally block and _sse: whatever ends a stream that was opened, it has
\* exactly one row at its end, and a client that stayed was told of an error
\* exactly if no row says ok.
THEOREM TraceAlwaysTells == Spec => []TraceTellsClient
<1>1. IInv => TraceTellsClient
  <2> SUFFICES ASSUME IInv, NEW s \in Stream
               PROVE  /\ Len(rows[s]) <= 1
                      /\ Closed(s) /\ Opened(s) => Len(rows[s]) = 1
                      /\ Closed(s) /\ here[s] =>
                           (rows[s] # <<>> /\ rows[s][1].status = "ok"
                              <=> \A i \in DOMAIN out[s] : out[s][i][1] # "error")
    BY DEF TraceTellsClient
  <2>1. Story(s) /\ rows[s] \in Seq(Row) BY DEF IInv, Local, TypeOK
  <2>2. rows[s] # <<>> => Len(rows[s]) # 0 BY <2>1, EmptySeq
  <2>3. Len(rows[s]) \in Nat BY <2>1
  <2>4. /\ Len(rows[s]) <= 1
        /\ Closed(s) /\ Opened(s) => rows[s] # <<>>
    BY <2>1 DEF Story, Closed
  <2>5. Closed(s) /\ Opened(s) => Len(rows[s]) = 1
    <3>1. PICK n \in Nat : n = Len(rows[s]) BY <2>3
    <3>2. n <= 1 /\ n # 0 => n = 1 OBVIOUS
    <3> QED BY <2>2, <2>4, <3>1, <3>2
  <2>6. Closed(s) /\ here[s] =>
          (rows[s] # <<>> /\ rows[s][1].status = "ok"
             <=> \A i \in DOMAIN out[s] : out[s][i][1] # "error")
    BY <2>1 DEF Story, HasError, Closed
  <2> QED BY <2>4, <2>5, <2>6
<1> QED BY <1>1, Invariance, PTL

-----------------------------------------------------------------------------
(***************************************************************************)
(* The door of the run plane, for any number of requests, keys, replicas,  *)
(* crashes and limits.  No assumption on its constants is used.  The       *)
(* invariant says who owns the claim of a key, and what a handler between  *)
(* its claim and its answer knows of the key and of its run.               *)
(***************************************************************************)

DoorPc == {"new", "turns", "rate", "quota", "claim", "lookup", "create", "start", "seal"}
        \cup Answered

Site == {"none"} \cup Replica \cup UNION {SitesOf[r] : r \in Request}

Handler == [pc : DoorPc, key : Key \cup {NoKey}, at : Site,
            turn : Nat, run : Nat]

RunRow == [conv : Nat, turn : Nat, status : {"running", "done", "failed"},
           key : Key \cup {NoKey}, at : Site]

\* The types of the handlers, the rows and the processes.
DoorTypes ==
  /\ req \in [Request -> Handler]
  /\ runs \in Seq(RunRow)
  /\ keys \in [Key -> Nat \cup {Claimed}]
  /\ rate \in Nat /\ quota \in Nat /\ crashes \in Nat
  /\ live \in [Replica -> SUBSET Nat]
  /\ mode \in [Replica -> {"up", "draining", "down"}]

\* A handler between its claim and its answer.
Owns(r) == req[r].pc \in {"create", "start", "seal"} /\ req[r].key \in Key

\* What a handler knows of its key and of its run.
HandlerInv(r) ==
  /\ req[r].pc = "lookup" => req[r].key \in Key /\ keys[req[r].key] # Absent
  /\ Owns(r) => keys[req[r].key] = Claimed
  /\ req[r].pc = "create" => req[r].key \notin Key \/ RunsOf(req[r].key) = {}
  /\ req[r].pc \in {"start", "seal"} =>
       req[r].run \in DOMAIN runs /\ runs[req[r].run].key = req[r].key
  /\ req[r].pc = "accepted" => req[r].key \notin Key \/ req[r].run \in RunsOf(req[r].key)

\* A claim has one owner.
OneOwner ==
  \A r, q \in Request : Owns(r) /\ Owns(q) /\ req[r].key = req[q].key => r = q

\* A key nobody claimed has no run, a sealed one names its run, and it has one.
KeyInv(k) ==
  /\ keys[k] = Absent => RunsOf(k) = {}
  /\ keys[k] \notin {Absent, Claimed} => keys[k] \in RunsOf(k)
  /\ \A i, j \in RunsOf(k) : i = j

\* The door's inductive invariant.
DoorInv ==
  /\ DoorTypes
  /\ \A r \in Request : HandlerInv(r)
  /\ OneOwner
  /\ \A k \in Key : KeyInv(k)

-----------------------------------------------------------------------------
\* Keys are what requests carry, and "no key" is none of them.
LEMMA KeyFacts ==
  /\ NoKey \notin Key
  /\ \A r \in Request : \A k \in KeysOf[r] : k \in Key \cup {NoKey}
<1>1. NoKey \notin Key BY DEF Key
<1>2. ASSUME NEW r \in Request, NEW k \in KeysOf[r] PROVE k \in Key \cup {NoKey}
  <2>1. k \in UNION {KeysOf[q] : q \in Request} BY Zenon
  <2> QED BY <2>1 DEF Key
<1> QED BY <1>1, <1>2

\* The door counts with the same operator.
LEMMA SameCardinality == \A S : Cardinality(S) = Cardinality(S)
BY DEF Cardinality, Cardinality

\* Setting fields of one row.
LEMMA RowSet ==
  ASSUME DoorTypes, NEW i \in DOMAIN runs, NEW row \in RunRow, row.key = runs[i].key,
         runs' = [runs EXCEPT ![i] = row]
  PROVE  /\ runs' \in Seq(RunRow) /\ DOMAIN runs' = DOMAIN runs
         /\ \A j \in DOMAIN runs : runs'[j].key = runs[j].key
BY DEF DoorTypes

\* The handlers that touch neither keys nor the rows' keys: they stay, turn to
\* a statement before the claim, answer, or go on with the run they created.
Harmless(r) ==
  \/ req'[r] = req[r]
  \/ req'[r].pc \in {"new", "turns", "rate", "quota", "claim", "refused", "failed", "lost"}
  \/ /\ req[r].pc = "start" /\ req'[r].pc = "seal"
     /\ req'[r].key = req[r].key /\ req'[r].run = req[r].run
  \/ /\ req'[r].pc = "accepted"
     /\ req'[r].key \in Key => req'[r].run \in RunsOf(req'[r].key)

\* A step of harmless handlers keeps the invariant.
LEMMA HarmlessStep ==
  ASSUME DoorInv, DoorTypes', keys' = keys, DOMAIN runs' = DOMAIN runs,
         \A i \in DOMAIN runs : runs'[i].key = runs[i].key,
         \A r \in Request : Harmless(r)
  PROVE  DoorInv'
<1>1. \A k : RunsOf(k)' = RunsOf(k) BY DEF RunsOf
<1>2. ASSUME NEW r \in Request PROVE HandlerInv(r)'
  <2>1. HandlerInv(r) /\ Harmless(r) BY DEF DoorInv
  <2>2. CASE req'[r] = req[r] BY <1>1, <2>1, <2>2 DEF HandlerInv, Owns
  <2>3. CASE req'[r].pc \in {"new", "turns", "rate", "quota", "claim", "refused", "failed", "lost"}
    BY <2>3 DEF HandlerInv, Owns
  <2>4. CASE req[r].pc = "start" /\ req'[r].pc = "seal" /\ req'[r].key = req[r].key
             /\ req'[r].run = req[r].run
    BY <1>1, <2>1, <2>4 DEF HandlerInv, Owns
  <2>5. CASE /\ req'[r].pc = "accepted"
             /\ req'[r].key \in Key => req'[r].run \in RunsOf(req'[r].key)
    BY <1>1, <2>5 DEF HandlerInv, Owns
  <2> QED BY <2>1, <2>2, <2>3, <2>4, <2>5 DEF Harmless
<1>3. \A r \in Request : Owns(r)' => Owns(r) /\ req'[r].key = req[r].key
  BY DEF Owns, Harmless
<1>4. OneOwner' BY <1>3 DEF OneOwner, DoorInv
<1>5. \A k \in Key : KeyInv(k)' BY <1>1 DEF KeyInv, DoorInv
<1> QED BY <1>2, <1>4, <1>5 DEF DoorInv

\* Moving one handler on.
LEMMA HandlerSet ==
  ASSUME DoorTypes, NEW r \in Request, NEW h \in Handler, req' = [req EXCEPT ![r] = h]
  PROVE  /\ req' \in [Request -> Handler] /\ req'[r] = h
         /\ \A q \in Request \ {r} : req'[q] = req[q]
BY DEF DoorTypes

\* Handlers short of a claim, and the process events, keep the invariant.
LEMMA StepHarmless ==
  ASSUME DoorInv,
         \/ \E r \in Request : \/ ReadTurns(r) \/ ChargeRate(r) \/ ChargeQuota(r)
                               \/ Lookup(r) \/ Start(r) \/ Fail(r) \/ \E p \in SitesOf[r] : Arrive(r, p)
         \/ \E p \in Replica : \/ Drain(p) \/ Stop(p) \/ Restart(p)
                               \/ \E i \in DOMAIN runs : EndRun(p, i)
         \/ ReapAny
         \/ UNCHANGED doorVars
  PROVE  DoorInv'
<1>a. DoorTypes BY DEF DoorInv
<1>b. ASSUME NEW r \in Request PROVE req[r] \in Handler /\ HandlerInv(r)
  BY DEF DoorInv, DoorTypes
<1>1. ASSUME NEW r \in Request, NEW p \in SitesOf[r], Arrive(r, p) PROVE DoorInv'
  <2>1. PICK k \in KeysOf[r] : \E pc \in {"refused", "turns", "rate"} :
          req' = [req EXCEPT ![r].at = p, ![r].key = k, ![r].pc = pc]
    BY <1>1 DEF Arrive
  <2>2. PICK pc \in {"refused", "turns", "rate"} :
          req' = [req EXCEPT ![r] = [req[r] EXCEPT !.at = p, !.key = k, !.pc = pc]]
    BY ZenonT(40), <2>1, <1>a DEF DoorTypes, Handler
  <2> DEFINE h == [req[r] EXCEPT !.at = p, !.key = k, !.pc = pc]
  <2>3. k \in Key \cup {NoKey} /\ p \in Site BY KeyFacts DEF Site
  <2>4. h \in Handler /\ h.pc = pc BY <1>b, <2>3 DEF Handler, DoorPc, Answered
  <2>5. UNCHANGED <<runs, keys, rate, quota, live, mode, crashes>> BY <1>1 DEF Arrive
  <2>6. req' \in [Request -> Handler] /\ \A q \in Request : Harmless(q)
    BY ZenonT(40), <1>a, <2>2, <2>4, HandlerSet DEF Harmless
  <2>7. DoorTypes' BY <1>a, <2>5, <2>6 DEF DoorTypes
  <2> QED BY <2>5, <2>6, <2>7, HarmlessStep
<1>2. ASSUME NEW r \in Request, ReadTurns(r) PROVE DoorInv'
  <2>1. PICK i \in LatestTurns :
       req' = [req EXCEPT ![r].turn = runs[i].turn + 1,
                          ![r].pc = IF runs[i].status = "running" THEN "refused" ELSE "rate"]
    BY <1>2 DEF ReadTurns
  <2>2. i \in DOMAIN runs /\ runs[i].turn \in Nat
    <3>1. i \in DOMAIN runs BY DEF LatestTurns, ConvTurns
    <3>2. runs[i] \in RunRow BY <1>a, <3>1 DEF DoorTypes
    <3> QED BY <3>1, <3>2 DEF RunRow
  <2>3. PICK pc \in {"refused", "rate"} :
          req' = [req EXCEPT ![r] = [req[r] EXCEPT !.turn = runs[i].turn + 1, !.pc = pc]]
    BY <2>1, <1>a DEF DoorTypes, Handler
  <2> DEFINE h == [req[r] EXCEPT !.turn = runs[i].turn + 1, !.pc = pc]
  <2>4. h \in Handler /\ h.pc = pc
    <3>1. runs[i].turn + 1 \in Nat BY <2>2
    <3> QED BY <1>b, <3>1 DEF Handler, DoorPc, Answered
  <2>5. UNCHANGED <<runs, keys, rate, quota, live, mode, crashes>> BY <1>2 DEF ReadTurns
  <2>6. req' \in [Request -> Handler] /\ \A q \in Request : Harmless(q)
    BY <1>a, <2>3, <2>4, HandlerSet DEF Harmless
  <2>7. DoorTypes' BY <1>a, <2>5, <2>6 DEF DoorTypes
  <2> QED BY <2>5, <2>6, <2>7, HarmlessStep
<1>3. ASSUME NEW r \in Request, NEW pc \in {"quota", "claim", "refused", "failed"}, Goto(r, pc),
             rate' \in Nat, quota' \in Nat, UNCHANGED <<runs, keys, live, mode, crashes>>
      PROVE  DoorInv'
  <2> DEFINE h == [req[r] EXCEPT !.pc = pc]
  <2>1. h \in Handler /\ h.pc = pc BY <1>b DEF Handler, DoorPc, Answered
  <2>2. req' = [req EXCEPT ![r] = h] BY <1>3, <1>a DEF Goto, DoorTypes
  <2>3. req' \in [Request -> Handler] /\ \A q \in Request : Harmless(q)
    BY <1>a, <2>1, <2>2, HandlerSet DEF Harmless
  <2>4. DoorTypes' BY <1>a, <1>3, <2>3 DEF DoorTypes
  <2> QED BY <1>3, <2>3, <2>4, HarmlessStep
<1>4. ASSUME NEW r \in Request, ChargeRate(r) PROVE DoorInv'
  BY <1>a, <1>3, <1>4 DEF ChargeRate, DoorTypes
<1>5. ASSUME NEW r \in Request, ChargeQuota(r) PROVE DoorInv'
  BY <1>a, <1>3, <1>5 DEF ChargeQuota, DoorTypes
<1>6. ASSUME NEW r \in Request, Fail(r) PROVE DoorInv'
  BY <1>a, <1>3, <1>6 DEF Fail, DoorTypes
<1>7. ASSUME NEW r \in Request, Lookup(r) PROVE DoorInv'
  <2> DEFINE k == req[r].key
  <2>1. k \in Key /\ keys[k] # Absent /\ keys[k] \in Nat \cup {Claimed}
    BY <1>a, <1>b, <1>7 DEF Lookup, HandlerInv, DoorTypes
  <2>2. UNCHANGED <<runs, keys, rate, quota, live, mode, crashes>> BY <1>7 DEF Lookup
  <2>3. CASE keys[k] = Claimed
    <3>1. Goto(r, "refused") BY <1>7, <2>3 DEF Lookup, Goto
    <3> QED BY <1>3, <1>a, <2>2, <3>1 DEF DoorTypes
  <2>4. CASE keys[k] # Claimed
    <3> DEFINE h == [req[r] EXCEPT !.pc = "accepted", !.run = keys[k]]
    <3>1. h \in Handler /\ h.pc = "accepted" /\ h.run = keys[k] /\ h.key = k
      BY <1>b, <2>1, <2>4 DEF Handler, DoorPc, Answered
    <3>2. req' = [req EXCEPT ![r] = h] BY <1>7, <2>4 DEF Lookup
    <3>3. keys[k] \in RunsOf(k) BY <2>1, <2>4 DEF DoorInv, KeyInv
    <3> HIDE DEF h
    <3>4. req' \in [Request -> Handler] /\ \A q \in Request : Harmless(q)
      BY <1>a, <3>1, <3>2, <3>3, HandlerSet DEF Harmless
    <3>5. DoorTypes' BY <1>a, <2>2, <3>4 DEF DoorTypes
    <3> QED BY <2>2, <3>4, <3>5, HarmlessStep
  <2> QED BY <2>3, <2>4
<1>8. ASSUME NEW r \in Request, Start(r) PROVE DoorInv'
  <2> DEFINE i == req[r].run
             p == req[r].at
             row == [runs[i] EXCEPT !.at = p]
             h == [req[r] EXCEPT !.pc = "seal"]
  <2>1. i \in DOMAIN runs /\ req[r].pc = "start" BY <1>b, <1>8 DEF HandlerInv, Start
  <2>2. runs[i] \in RunRow /\ i \in Nat /\ p \in Site
    BY <1>a, <1>b, <2>1 DEF DoorTypes, Handler
  <2>3. row \in RunRow /\ row.key = runs[i].key BY <2>2 DEF RunRow
  <2>4. runs' = [runs EXCEPT ![i] = row] BY <1>8 DEF Start
  <2>5. h \in Handler /\ h.pc = "seal" /\ h.key = req[r].key /\ h.run = req[r].run
    BY <1>b DEF Handler, DoorPc, Answered
  <2>6. req' = [req EXCEPT ![r] = h] BY <1>8 DEF Start, Goto
  <2>7. live' \in [Replica -> SUBSET Nat] /\ UNCHANGED <<keys, rate, quota, mode, crashes>>
    BY <1>8, <1>a, <2>2 DEF Start, DoorTypes
  <2> HIDE DEF h, row
  <2>8. req' \in [Request -> Handler] /\ \A q \in Request : Harmless(q)
    BY <1>a, <2>1, <2>5, <2>6, HandlerSet DEF Harmless
  <2>9. /\ runs' \in Seq(RunRow) /\ DOMAIN runs' = DOMAIN runs
        /\ \A j \in DOMAIN runs : runs'[j].key = runs[j].key
    BY <1>a, <2>1, <2>3, <2>4, RowSet
  <2>10. DoorTypes' BY <1>a, <2>7, <2>8, <2>9 DEF DoorTypes
  <2> QED BY <2>7, <2>8, <2>9, <2>10, HarmlessStep
<1>9. ASSUME NEW i \in DOMAIN runs, NEW status \in {"done", "failed"},
             UNCHANGED <<req, keys, rate, quota, mode, crashes>>,
             runs' = [runs EXCEPT ![i].status = status], live' \in [Replica -> SUBSET Nat]
      PROVE  DoorInv'
  <2> DEFINE row == [runs[i] EXCEPT !.status = status]
  <2>1. runs[i] \in RunRow BY <1>a DEF DoorTypes
  <2>2. row \in RunRow /\ row.key = runs[i].key /\ runs' = [runs EXCEPT ![i] = row]
    BY <1>9, <2>1 DEF RunRow
  <2> HIDE DEF row
  <2>3. /\ runs' \in Seq(RunRow) /\ DOMAIN runs' = DOMAIN runs
        /\ \A j \in DOMAIN runs : runs'[j].key = runs[j].key
    BY <1>a, <2>2, RowSet
  <2>4. DoorTypes' /\ \A q \in Request : Harmless(q) BY <1>a, <1>9, <2>3 DEF DoorTypes, Harmless
  <2> QED BY <1>9, <2>3, <2>4, HarmlessStep
<1>10. ASSUME NEW p \in Replica, NEW i \in DOMAIN runs, EndRun(p, i) PROVE DoorInv'
  BY <1>9, <1>10, <1>a DEF EndRun, DoorTypes
<1>11. ASSUME NEW i \in DOMAIN runs, Reap(i) PROVE DoorInv'
  BY <1>9, <1>11, <1>a DEF Reap, DoorTypes
<1>12. ASSUME NEW p \in Replica, Stop(p) PROVE DoorInv'
  <2>1. /\ runs' \in Seq(RunRow) /\ DOMAIN runs' = DOMAIN runs
        /\ \A j \in DOMAIN runs : runs'[j].key = runs[j].key
    <3>1. CASE UNCHANGED runs BY <3>1, <1>a DEF DoorTypes
    <3>2. CASE runs' = [i \in DOMAIN runs |->
                          IF i \in live[p] THEN [runs[i] EXCEPT !.status = "failed"] ELSE runs[i]]
      <4>1. /\ Len(runs) \in Nat /\ DOMAIN runs = 1..Len(runs)
            /\ \A i \in DOMAIN runs : runs[i] \in RunRow
        BY <1>a DEF DoorTypes
      <4>2. runs' \in [1..Len(runs) -> RunRow] BY <3>2, <4>1 DEF RunRow
      <4>3. runs' \in Seq(RunRow) BY <4>1, <4>2, SeqDef
      <4> QED BY <3>2, <4>1, <4>3 DEF RunRow
    <3> QED BY <1>12, <3>1, <3>2 DEF Stop
  <2>2. req' \in [Request -> Handler] /\ \A q \in Request : Harmless(q)
    <3>1. ASSUME NEW q \in Request
          PROVE  /\ req'[q] \in Handler
                 /\ req'[q] = req[q] \/ req'[q].pc = "lost"
      BY <1>12, <1>b DEF Stop, Handler, DoorPc, Answered
    <3>2. req' \in [Request -> Handler] BY <1>12, <3>1 DEF Stop
    <3> QED BY <3>1, <3>2 DEF Harmless
  <2>3. /\ UNCHANGED <<keys, rate, quota>> /\ crashes' \in Nat
        /\ mode' \in [Replica -> {"up", "draining", "down"}] /\ live' \in [Replica -> SUBSET Nat]
    BY <1>12, <1>a DEF Stop, DoorTypes
  <2>4. DoorTypes' BY <1>a, <2>1, <2>2, <2>3 DEF DoorTypes
  <2> QED BY <2>1, <2>2, <2>3, <2>4, HarmlessStep
<1>13. ASSUME UNCHANGED <<req, runs, keys, rate, quota, live>>, crashes' \in Nat,
              mode' \in [Replica -> {"up", "draining", "down"}]
       PROVE  DoorInv'
  <2>1. DoorTypes' BY <1>a, <1>13 DEF DoorTypes
  <2> QED BY <1>13, <2>1, HarmlessStep DEF Harmless
<1>14. ASSUME NEW p \in Replica, Drain(p) \/ Restart(p) PROVE DoorInv'
  BY <1>13, <1>14, <1>a DEF Drain, Restart, DoorTypes
<1>15. CASE UNCHANGED doorVars BY <1>13, <1>15, <1>a DEF doorVars, DoorTypes
<1> QED
  BY <1>1, <1>2, <1>4, <1>5, <1>6, <1>7, <1>8, <1>10, <1>11, <1>12, <1>14, <1>15 DEF ReapAny

\* Idem.claim: the winner owns the key from here on.
LEMMA StepClaim ==
  ASSUME DoorInv, NEW r \in Request, Claim(r)
  PROVE  DoorInv'
<1> DEFINE k == req[r].key
<1>a. DoorTypes /\ req[r] \in Handler /\ k \in Key \cup {NoKey} BY DEF DoorInv, DoorTypes, Handler
<1>b. UNCHANGED <<runs, rate, quota, live, mode, crashes>> BY DEF Claim
<1>c. \A x : RunsOf(x)' = RunsOf(x) BY <1>b DEF RunsOf
<1>d. PICK pc \in {"create", "lookup"} :
        /\ Goto(r, pc)
        /\ \/ pc = "create" /\ k = NoKey /\ keys' = keys
           \/ /\ pc = "create" /\ k # NoKey /\ keys[k] = Absent
              /\ keys' = [keys EXCEPT ![k] = Claimed]
           \/ pc = "lookup" /\ k # NoKey /\ keys[k] # Absent /\ keys' = keys
  BY DEF Claim, Wins
<1> DEFINE h == [req[r] EXCEPT !.pc = pc]
<1>1. h \in Handler /\ h.pc = pc /\ h.key = k /\ h.run = req[r].run
  BY <1>a DEF Handler, DoorPc, Answered
<1>2. req' = [req EXCEPT ![r] = h] BY <1>d DEF Goto
<1> HIDE DEF h
<1>3. /\ req' \in [Request -> Handler] /\ req'[r] = h
      /\ \A q \in Request \ {r} : req'[q] = req[q]
  BY <1>a, <1>1, <1>2, HandlerSet
<1>4. keys' \in [Key -> Nat \cup {Claimed}] BY <1>a, <1>d DEF DoorTypes
<1>5. DoorTypes' BY <1>a, <1>b, <1>3, <1>4 DEF DoorTypes
<1>6. /\ \A x \in Key : keys'[x] = keys[x] \/ (x = k /\ keys[x] = Absent /\ keys'[x] = Claimed)
      /\ k \in Key /\ pc = "create" => keys'[k] = Claimed /\ keys[k] = Absent
  BY <1>a, <1>d, KeyFacts DEF DoorTypes
<1>7. \A x \in Key : KeyInv(x)
  BY DEF DoorInv
<1>8. \A x \in Key : KeyInv(x)'
  BY <1>6, <1>7, <1>c DEF KeyInv, Absent, Claimed
<1>9. \A q \in Request : HandlerInv(q) /\ (Owns(q) => keys[req[q].key] = Claimed)
  BY DEF DoorInv, HandlerInv
<1>10. ASSUME NEW q \in Request \ {r} PROVE HandlerInv(q)'
  BY <1>b, <1>c, <1>3, <1>6, <1>9 DEF HandlerInv, Owns, Absent, Claimed
<1>11. HandlerInv(r)'
  <2>1. CASE pc = "create"
    BY <1>1, <1>3, <1>6, <1>7, <1>c, <2>1 DEF HandlerInv, Owns, KeyInv
  <2>2. CASE pc = "lookup"
    BY <1>1, <1>3, <1>a, <1>d, <2>2 DEF HandlerInv, Owns
  <2> QED BY <2>1, <2>2
<1>12. OneOwner'
  <2>1. \A q \in Request \ {r} : (Owns(q)' <=> Owns(q)) /\ req'[q].key = req[q].key
    BY <1>3 DEF Owns
  <2>2. \A q \in Request \ {r} : Owns(q) /\ Owns(r)' => req[q].key # k
    BY <1>1, <1>3, <1>6, <1>9 DEF Owns, Absent, Claimed
  <2> QED BY <1>1, <1>3, <2>1, <2>2 DEF OneOwner, DoorInv
<1> QED BY <1>5, <1>8, <1>10, <1>11, <1>12 DEF DoorInv

\* store.create: the first run under the key, and the last.
LEMMA StepCreate ==
  ASSUME DoorInv, NEW r \in Request, Create(r)
  PROVE  DoorInv'
<1> DEFINE k == req[r].key
           new == Len(runs) + 1
           row == [conv   |-> IF r \in Turn THEN 1 ELSE new,
                   turn   |-> IF r \in Turn THEN req[r].turn ELSE 1,
                   status |-> "running", key |-> k, at |-> "none"]
           h == [req[r] EXCEPT !.pc = "start", !.run = new]
<1>a. /\ DoorTypes /\ req[r] \in Handler /\ k \in Key \cup {NoKey} /\ req[r].turn \in Nat
      /\ Len(runs) \in Nat /\ DOMAIN runs = 1..Len(runs)
  BY DEF DoorInv, DoorTypes, Handler
<1>b. UNCHANGED <<keys, rate, quota, live, mode, crashes>> BY DEF Create
<1>c. req[r].pc = "create" /\ runs' = Append(runs, row) /\ req' = [req EXCEPT ![r] = h]
  BY <1>a DEF Create
<1>1. row \in RunRow /\ row.key = k BY <1>a DEF RunRow, Site
<1>2. h \in Handler /\ h.pc = "start" /\ h.key = k /\ h.run = new
  <2>1. new \in Nat BY <1>a
  <2> HIDE DEF new
  <2> QED BY <1>a, <2>1 DEF Handler, DoorPc, Answered
<1>d. new \in Nat /\ new \notin DOMAIN runs BY <1>a
<1> HIDE DEF row, h
<1>3. /\ req' \in [Request -> Handler] /\ req'[r] = h
      /\ \A q \in Request \ {r} : req'[q] = req[q]
  BY <1>a, <1>c, <1>2, HandlerSet
<1>4. /\ runs' \in Seq(RunRow) /\ DOMAIN runs' = DOMAIN runs \cup {new}
      /\ runs'[new] = row /\ \A i \in DOMAIN runs : runs'[i] = runs[i]
  <2>1. runs \in Seq(RunRow) BY <1>a DEF DoorTypes
  <2> QED BY <1>a, <1>c, <1>1, <2>1
<1> HIDE DEF new
<1>5. DoorTypes' BY <1>a, <1>b, <1>3, <1>4 DEF DoorTypes
<1>6. \A x \in Key : RunsOf(x)' = IF x = k THEN RunsOf(x) \cup {new} ELSE RunsOf(x)
  BY <1>1, <1>4, <1>d DEF RunsOf
<1>7. /\ HandlerInv(r) /\ (Owns(r) <=> k \in Key)
      /\ k \in Key => keys[k] = Claimed /\ RunsOf(k) = {}
      /\ Owns(r)' <=> k \in Key
  <2>1. HandlerInv(r) BY DEF DoorInv
  <2>2. Owns(r)' <=> k \in Key BY <1>2, <1>3 DEF Owns
  <2>3. Owns(r) <=> k \in Key BY <1>c DEF Owns
  <2> QED BY <1>c, <2>1, <2>2, <2>3 DEF HandlerInv
<1>8. \A x \in Key : KeyInv(x)'
  <2> SUFFICES ASSUME NEW x \in Key PROVE KeyInv(x)' OBVIOUS
  <2>1. KeyInv(x) BY DEF DoorInv
  <2>2. CASE x = k BY <1>b, <1>6, <1>7, <2>2 DEF KeyInv, Absent, Claimed
  <2>3. CASE x # k BY <1>b, <1>6, <2>1, <2>3 DEF KeyInv
  <2> QED BY <2>2, <2>3
<1>9. \A q \in Request \ {r} : (Owns(q)' <=> Owns(q)) /\ req'[q].key = req[q].key
  BY <1>3 DEF Owns
<1>10. OneOwner' BY <1>2, <1>3, <1>7, <1>9 DEF OneOwner, DoorInv
<1>11. ASSUME NEW q \in Request \ {r} PROVE HandlerInv(q)'
  <2>1. HandlerInv(q) /\ req'[q] = req[q] BY <1>3 DEF DoorInv
  <2>2. Owns(q) /\ k \in Key => req[q].key # k BY <1>7 DEF DoorInv, OneOwner
  <2> QED BY <1>b, <1>4, <1>6, <2>1, <2>2 DEF HandlerInv, Owns
<1>12. HandlerInv(r)'
  BY <1>b, <1>1, <1>2, <1>3, <1>4, <1>7 DEF HandlerInv, Owns
<1> QED BY <1>5, <1>8, <1>10, <1>11, <1>12 DEF DoorInv

\* idem.store: the key names the run its owner created.
LEMMA StepSeal ==
  ASSUME DoorInv, NEW r \in Request, Seal(r)
  PROVE  DoorInv'
<1> DEFINE k == req[r].key
           h == [req[r] EXCEPT !.pc = "accepted"]
<1>a. /\ DoorTypes /\ req[r] \in Handler /\ k \in Key \cup {NoKey} /\ req[r].run \in Nat
      /\ Len(runs) \in Nat /\ DOMAIN runs = 1..Len(runs)
  BY DEF DoorInv, DoorTypes, Handler
<1>b. UNCHANGED <<runs, rate, quota, live, mode, crashes>> BY DEF Seal
<1>c. /\ req[r].pc = "seal" /\ req' = [req EXCEPT ![r] = h]
      /\ keys' = IF k = NoKey THEN keys ELSE [keys EXCEPT ![k] = req[r].run]
  BY DEF Seal, Goto
<1>d. \A x : RunsOf(x)' = RunsOf(x) BY <1>b DEF RunsOf
<1>1. h \in Handler /\ h.pc = "accepted" /\ h.key = k /\ h.run = req[r].run
  BY <1>a DEF Handler, DoorPc, Answered
<1> HIDE DEF h
<1>2. /\ req' \in [Request -> Handler] /\ req'[r] = h
      /\ \A q \in Request \ {r} : req'[q] = req[q]
  BY <1>a, <1>c, <1>1, HandlerSet
<1>3. keys' \in [Key -> Nat \cup {Claimed}] BY <1>a, <1>c DEF DoorTypes
<1>4. DoorTypes' BY <1>a, <1>b, <1>2, <1>3 DEF DoorTypes
<1>5. HandlerInv(r) /\ (k \in Key => Owns(r) /\ keys[k] = Claimed)
      /\ req[r].run \in DOMAIN runs /\ runs[req[r].run].key = k
  BY <1>c DEF DoorInv, HandlerInv, Owns
<1>6. \A x \in Key : keys'[x] = IF x = k THEN req[r].run ELSE keys[x]
  BY <1>a, <1>c, KeyFacts DEF DoorTypes
<1>7. req[r].run \in RunsOf(k) /\ req[r].run \notin {Absent, Claimed}
  BY <1>5, <1>a DEF RunsOf, Absent, Claimed
<1>8. \A x \in Key : KeyInv(x)' BY <1>d, <1>6, <1>7 DEF KeyInv, DoorInv
<1>9. \A q \in Request \ {r} : (Owns(q)' <=> Owns(q)) /\ req'[q].key = req[q].key
  BY <1>2 DEF Owns
<1>10. ~Owns(r)' BY <1>1, <1>2 DEF Owns
<1>11. OneOwner' BY <1>9, <1>10 DEF OneOwner, DoorInv
<1>12. ASSUME NEW q \in Request \ {r} PROVE HandlerInv(q)'
  <2>1. HandlerInv(q) /\ req'[q] = req[q] BY <1>2 DEF DoorInv
  <2>2. Owns(q) => req[q].key # k BY <1>5 DEF DoorInv, OneOwner, Owns
  <2> QED BY <1>b, <1>d, <1>6, <1>7, <2>1, <2>2 DEF HandlerInv, Owns
<1>13. HandlerInv(r)' BY <1>1, <1>2, <1>7, <1>d DEF HandlerInv, Owns
<1> QED BY <1>4, <1>8, <1>11, <1>12, <1>13 DEF DoorInv

\* The invariant holds before the first request.
LEMMA InitDoor == DoorInit => DoorInv
<1> SUFFICES ASSUME DoorInit PROVE DoorInv OBVIOUS
<1> USE KeyFacts DEF DoorInit
<1>1. Root \in RunRow /\ Root.key = NoKey BY DEF Root, RunRow, Site
<1>2. runs \in Seq(RunRow) /\ DOMAIN runs = {1} /\ runs[1].key = NoKey
  <2> HIDE DEF Root
  <2> QED BY <1>1
<1>3. req \in [Request -> Handler] BY DEF Handler, DoorPc, Site
<1>4. DoorTypes BY <1>2, <1>3 DEF DoorTypes, Absent
<1>5. \A k \in Key : RunsOf(k) = {} BY <1>2 DEF RunsOf
<1>6. \A k \in Key : KeyInv(k) BY <1>5 DEF KeyInv
<1>7. \A r \in Request : HandlerInv(r) /\ ~Owns(r) BY DEF HandlerInv, Owns
<1> QED BY <1>4, <1>6, <1>7 DEF DoorInv, OneOwner

\* POST /v1/sessions and turns with an Idempotency-Key: however many requests
\* carry the key, at whichever replicas, through crashes, deploys and failed
\* statements, one run is created under it and every 202 names that run.
THEOREM KeyAlwaysNamesOneRun == DoorSpec => []KeyNamesOneRun
<1>1. DoorInit => DoorInv BY InitDoor
<1>2. DoorInv /\ [DoorNext]_doorVars => DoorInv'
  <2> SUFFICES ASSUME DoorInv, [DoorNext]_doorVars PROVE DoorInv' OBVIOUS
  <2> QED BY StepHarmless, StepClaim, StepCreate, StepSeal DEF DoorNext, Handle
<1>3. DoorInv => KeyNamesOneRun
  <2> SUFFICES ASSUME DoorInv, NEW k \in Key
               PROVE  /\ Cardinality(RunsOf(k)) <= 1
                      /\ \A r \in Request : req[r].pc = "accepted" /\ req[r].key = k
                                             => req[r].run \in RunsOf(k)
    BY SameCardinality DEF KeyNamesOneRun
  <2>1. Cardinality(RunsOf(k)) <= 1
    <3>1. CASE RunsOf(k) = {} BY <3>1, FS_EmptySet
    <3>2. CASE RunsOf(k) # {}
      <4>1. PICK i \in RunsOf(k) : TRUE BY <3>2
      <4>2. RunsOf(k) = {i} BY <4>1 DEF DoorInv, KeyInv
      <4>3. Cardinality({i}) = 1 BY FS_Singleton
      <4> QED BY <4>2, <4>3
    <3> QED BY <3>1, <3>2
  <2>2. \A r \in Request : HandlerInv(r) BY DEF DoorInv
  <2> QED BY <2>1, <2>2 DEF HandlerInv
<1> QED BY <1>1, <1>2, <1>3, PTL DEF DoorSpec

-----------------------------------------------------------------------------
(***************************************************************************)
(* Accounts and credentials, for any users, orgs, credentials and          *)
(* concurrent requests and console operations: what a user was deactivated *)
(* from, the user has no row of, so no request resolves there any more.    *)
(* The invariant needs that memberships has one row for a user and an org: *)
(* a DELETE then leaves none.                                              *)
(***************************************************************************)

Membership == [org : Org, role : Roles]

\* The rows of memberships: at most one for a user and an org.
MembershipsOK ==
  /\ mem \in [User -> Seq(Membership)]
  /\ \A u \in User : \A m, n \in DOMAIN mem[u] : mem[u][m].org = mem[u][n].org => m = n

\* An operation keeps its job, whose user and org exist.
OperationsOK ==
  /\ op = [i \in Op |-> [job |-> op[i].job, pc |-> op[i].pc, role |-> op[i].role,
                         bound |-> op[i].bound, org |-> op[i].org]]
  /\ \A i \in Op : op[i].job.user \in User /\ op[i].job.org \in Org

\* Who was deactivated and not added since has no membership.
LeftAreOut == \A u \in User, o \in Org : <<u, o>> \in left => o \notin Orgs(u)

AccountsInv == MembershipsOK /\ OperationsOK /\ LeftAreOut

LEMMA InitAccountsInv == AccountsInit => AccountsInv
<1> SUFFICES ASSUME AccountsInit PROVE AccountsInv
  OBVIOUS
<1>1. MembershipsOK
  BY AccountsAssumption DEF AccountsInit, MembershipsOK, Membership
<1>2. OperationsOK
  BY AccountsAssumption DEF AccountsInit, OperationsOK, Begin
<1>3. LeftAreOut
  BY DEF AccountsInit, LeftAreOut
<1> QED
  BY <1>1, <1>2, <1>3 DEF AccountsInv

\* Memberships name orgs that exist.
LEMMA MemberOrgs ==
  ASSUME MembershipsOK, NEW u \in User
  PROVE  Orgs(u) \subseteq Org
<1>1. mem[u] \in Seq(Membership)
  BY DEF MembershipsOK
<1>2. \A n \in DOMAIN mem[u] : mem[u][n] \in Membership
  BY <1>1
<1> QED
  BY <1>2 DEF Orgs, Membership

\* add_membership keeps the key and adds the org alone.
LEMMA AddedMember ==
  ASSUME MembershipsOK, NEW u \in User, NEW o \in Org, NEW r \in Roles,
         mem' = Added(u, o, r)
  PROVE  /\ MembershipsOK'
         /\ \A v \in User : Orgs(v)' \subseteq Orgs(v) \cup (IF v = u THEN {o} ELSE {})
<1>1. CASE o \in Orgs(u)
  BY <1>1 DEF Added, MembershipsOK, Orgs
<1>2. CASE o \notin Orgs(u)
  <2> PICK row : row = [org |-> o, role |-> r]
    OBVIOUS
  <2>1. row \in Membership /\ row.org = o
    BY DEF Membership
  <2>2. mem' = [mem EXCEPT ![u] = Append(mem[u], row)]
    BY <1>2 DEF Added
  <2>3. mem[u] \in Seq(Membership) /\ \A n \in DOMAIN mem[u] : mem[u][n].org # o
    BY <1>2 DEF MembershipsOK, Orgs
  <2>4. /\ mem'[u] = Append(mem[u], row)
        /\ \A v \in User \ {u} : mem'[v] = mem[v]
        /\ mem' \in [User -> Seq(Membership)]
    BY <2>1, <2>2, <2>3 DEF MembershipsOK
  <2>5. /\ DOMAIN mem[u] = 1..Len(mem[u]) /\ Len(mem[u]) \in Nat
        /\ DOMAIN mem'[u] = 1..Len(mem[u]) + 1
        /\ mem'[u][Len(mem[u]) + 1] = row
        /\ \A n \in 1..Len(mem[u]) : mem'[u][n] = mem[u][n]
    BY <2>1, <2>3, <2>4
  <2>6. \A m, n \in DOMAIN mem'[u] : mem'[u][m].org = mem'[u][n].org => m = n
    BY SMTT(30), <2>1, <2>3, <2>5 DEF MembershipsOK
  <2>7. MembershipsOK'
    <3>1. \A v \in User \ {u} : \A m, n \in DOMAIN mem'[v] :
            mem'[v][m].org = mem'[v][n].org => m = n
      BY <2>4 DEF MembershipsOK
    <3>2. ASSUME NEW v \in User
          PROVE  \A m, n \in DOMAIN mem'[v] : mem'[v][m].org = mem'[v][n].org => m = n
      <4>1. CASE v = u
        BY <4>1, <2>6, Zenon
      <4>2. CASE v \in User \ {u}
        BY <4>2, <3>1, Zenon
      <4> QED
        BY <4>1, <4>2
    <3>3. mem' \in [User -> Seq(Membership)]
      BY <2>4
    <3> QED
      BY <3>2, <3>3, Zenon DEF MembershipsOK
  <2>8. Orgs(u)' \subseteq Orgs(u) \cup {o}
    BY <2>1, <2>5 DEF Orgs
  <2>9. \A v \in User \ {u} : Orgs(v)' = Orgs(v)
    BY <2>4 DEF Orgs
  <2> QED
    BY <2>7, <2>8, <2>9
<1> QED
  BY <1>1, <1>2

\* A sequence without its k-th element.
LEMMA WithoutRow ==
  ASSUME NEW S, NEW s \in Seq(S), NEW k \in 1..Len(s)
  PROVE  /\ Without(s, k) \in Seq(S)
         /\ Len(Without(s, k)) = Len(s) - 1
         /\ DOMAIN Without(s, k) = 1..Len(s) - 1
         /\ \A n \in 1..Len(s) - 1 : n < k => Without(s, k)[n] = s[n]
         /\ \A n \in 1..Len(s) - 1 : n >= k => Without(s, k)[n] = s[n + 1]
<1>1. Len(s) \in Nat /\ \A i \in 1..Len(s) : s[i] \in S
  OBVIOUS
<1>2. PICK l : l = Len(s)
  OBVIOUS
<1>3. PICK a : a = SubSeq(s, 1, k - 1)
  OBVIOUS
<1>4. PICK b : b = SubSeq(s, k + 1, l)
  OBVIOUS
<1>5. l \in Nat /\ k \in 1..l /\ \A i \in 1..l : s[i] \in S
  BY <1>1, <1>2
<1>6. a \in Seq(S) /\ Len(a) = k - 1 /\ \A n \in 1..k - 1 : a[n] = s[n]
  <2>1. k - 1 \in Int /\ 1 \in Int /\ \A i \in 1..k - 1 : s[i] \in S
    BY <1>5
  <2>2. /\ a \in Seq(S) /\ Len(a) = IF 1 <= k - 1 THEN (k - 1) - 1 + 1 ELSE 0
        /\ \A i \in 1..(k - 1) - 1 + 1 : a[i] = s[1 + i - 1]
    BY <2>1, <1>3, SubSeqProperties
  <2> QED
    BY <2>2, <1>5
<1>7. b \in Seq(S) /\ Len(b) = l - k /\ \A n \in 1..l - k : b[n] = s[k + n]
  <2>1. k + 1 \in Int /\ l \in Int /\ \A i \in k + 1..l : s[i] \in S
    BY <1>5
  <2>2. /\ b \in Seq(S) /\ Len(b) = IF k + 1 <= l THEN l - (k + 1) + 1 ELSE 0
        /\ \A i \in 1..l - (k + 1) + 1 : b[i] = s[(k + 1) + i - 1]
    BY <2>1, <1>4, SubSeqProperties
  <2> QED
    BY <2>2, <1>5
<1>8. PICK d : d = Without(s, k)
  OBVIOUS
<1>9. /\ d \in Seq(S) /\ Len(d) = Len(a) + Len(b)
      /\ \A n \in 1..Len(a) + Len(b) : d[n] = IF n <= Len(a) THEN a[n] ELSE b[n - Len(a)]
  <2>1. d = a \o b
    BY <1>2, <1>3, <1>4, <1>8 DEF Without
  <2> QED
    BY <2>1, <1>6, <1>7, ConcatProperties
<1>10. Len(d) = l - 1 /\ DOMAIN d = 1..l - 1
  BY <1>5, <1>6, <1>7, <1>9
<1>11. \A n \in 1..l - 1 : d[n] = IF n <= k - 1 THEN a[n] ELSE b[n - (k - 1)]
  BY <1>5, <1>6, <1>7, <1>9
<1>12. \A n \in 1..l - 1 : n < k => d[n] = s[n]
  BY <1>5, <1>6, <1>11
<1>13. \A n \in 1..l - 1 : n >= k => d[n] = s[n + 1]
  BY <1>5, <1>7, <1>11
<1> QED
  BY <1>2, <1>8, <1>9, <1>10, <1>12, <1>13

\* DELETE by the key leaves the other rows, and none of the org.
LEMMA DroppedMember ==
  ASSUME MembershipsOK, NEW u \in User, NEW o \in Org, mem' = Dropped(u, o)
  PROVE  /\ MembershipsOK'
         /\ \A v \in User : Orgs(v)' = Orgs(v) \ (IF v = u THEN {o} ELSE {})
<1>1. CASE o \notin Orgs(u)
  BY <1>1 DEF Dropped, MembershipsOK, Orgs
<1>2. CASE o \in Orgs(u)
  <2> PICK s : s = mem[u]
    OBVIOUS
  <2> PICK k : k = RowAt(u, o)
    OBVIOUS
  <2>1. s \in Seq(Membership) /\ Len(s) \in Nat /\ DOMAIN s = 1..Len(s)
    BY DEF MembershipsOK
  <2>2. k \in 1..Len(s) /\ s[k].org = o
    BY <1>2, <2>1 DEF RowAt, Orgs
  <2>3. \A m, n \in 1..Len(s) : s[m].org = s[n].org => m = n
    BY <2>1 DEF MembershipsOK
  <2> PICK d : d = Without(s, k)
    OBVIOUS
  <2>4. /\ d \in Seq(Membership) /\ Len(d) = Len(s) - 1 /\ DOMAIN d = 1..Len(d)
        /\ \A n \in 1..Len(d) : n < k => d[n] = s[n]
        /\ \A n \in 1..Len(d) : n >= k => d[n] = s[n + 1]
    <3>1. /\ d \in Seq(Membership) /\ Len(d) = Len(s) - 1 /\ DOMAIN d = 1..Len(s) - 1
          /\ \A n \in 1..Len(s) - 1 : n < k => d[n] = s[n]
          /\ \A n \in 1..Len(s) - 1 : n >= k => d[n] = s[n + 1]
      BY SMTT(30), <2>1, <2>2, WithoutRow
    <3> QED
      BY <3>1
  <2>5. mem' = [mem EXCEPT ![u] = d]
    BY <1>2 DEF Dropped
  <2>6. /\ mem'[u] = d
        /\ \A v \in User \ {u} : mem'[v] = mem[v]
        /\ mem' \in [User -> Seq(Membership)]
    BY <2>4, <2>5 DEF MembershipsOK
  <2>7. \A m, n \in DOMAIN d : d[m].org = d[n].org => m = n
    <3> DEFINE Was(n) == IF n < k THEN n ELSE n + 1
    <3>1. \A n \in DOMAIN d : Was(n) \in 1..Len(s) /\ Was(n) # k
      BY <2>1, <2>2, <2>4
    <3>2. \A n \in DOMAIN d : d[n] = s[Was(n)]
      BY SMTT(30), <2>1, <2>2, <2>4
    <3>3. \A m, n \in DOMAIN d : Was(m) = Was(n) => m = n
      BY <2>1, <2>2, <2>4
    <3> HIDE DEF Was
    <3> QED
      BY <2>3, <3>1, <3>2, <3>3
  <2>8. MembershipsOK'
    <3>1. \A v \in User \ {u} : \A m, n \in DOMAIN mem'[v] :
            mem'[v][m].org = mem'[v][n].org => m = n
      BY <2>6 DEF MembershipsOK
    <3>2. \A m, n \in DOMAIN mem'[u] : mem'[u][m].org = mem'[u][n].org => m = n
      BY <2>6, <2>7
    <3>3. ASSUME NEW v \in User
          PROVE  \A m, n \in DOMAIN mem'[v] : mem'[v][m].org = mem'[v][n].org => m = n
      <4>1. CASE v = u
        BY <4>1, <3>2, Zenon
      <4>2. CASE v \in User \ {u}
        BY <4>2, <3>1, Zenon
      <4> QED
        BY <4>1, <4>2
    <3>4. mem' \in [User -> Seq(Membership)]
      BY <2>6
    <3> QED
      BY <3>3, <3>4, Zenon DEF MembershipsOK
  <2>9. \A v \in User \ {u} : Orgs(v)' = Orgs(v)
    BY <2>6 DEF Orgs
  <2>10. Orgs(u)' = {d[n].org : n \in DOMAIN d}
    BY <2>6 DEF Orgs
  <2>11. Orgs(u) = {s[n].org : n \in DOMAIN s}
    BY DEF Orgs
  <2>12. \A n \in DOMAIN d : \E m \in DOMAIN s : m # k /\ d[n] = s[m]
    <3> TAKE n \in DOMAIN d
    <3>1. CASE n < k
      BY <3>1, <2>1, <2>2, <2>4
    <3>2. CASE n >= k
      <4>1. n + 1 \in DOMAIN s /\ n + 1 # k /\ d[n] = s[n + 1]
        BY <3>2, <2>1, <2>2, <2>4
      <4> QED
        BY <4>1
    <3> QED
      BY <3>1, <3>2, <2>1, <2>2, <2>4
  <2>13. \A m \in DOMAIN s : m # k => \E n \in DOMAIN d : d[n] = s[m]
    <3> TAKE m \in DOMAIN s
    <3> HAVE m # k
    <3>1. CASE m < k
      BY <3>1, <2>1, <2>2, <2>4
    <3>2. CASE m > k
      <4>1. m - 1 \in DOMAIN d /\ m - 1 >= k /\ (m - 1) + 1 = m
        BY <3>2, <2>1, <2>2, <2>4
      <4> QED
        BY <4>1, <2>4
    <3> QED
      BY <3>1, <3>2, <2>1, <2>2
  <2>14. Orgs(u)' \subseteq Orgs(u) \ {o}
    BY <2>1, <2>2, <2>3, <2>10, <2>11, <2>12
  <2>15. Orgs(u) \ {o} \subseteq Orgs(u)'
    BY <2>2, <2>10, <2>11, <2>13
  <2> QED
    BY <2>8, <2>9, <2>14, <2>15
<1> QED
  BY <1>1, <1>2

\* A step of operation i: the others stand still, and i keeps its job.
OnlyMoves(i) ==
  /\ OperationsOK'
  /\ \A j \in Op \ {i} : op'[j] = op[j]
  /\ op'[i].job = op[i].job

\* An assignment to fields of op[i] other than its job.
Assigns(i, pc, role, bound, org) ==
  /\ DOMAIN op' = Op /\ op' = [j \in Op |-> op'[j]]
  /\ \A j \in Op \ {i} : op'[j] = op[j]
  /\ op'[i] = [job |-> op[i].job, pc |-> pc, role |-> role, bound |-> bound, org |-> org]

LEMMA OperationMoves ==
  ASSUME OperationsOK, NEW i \in Op, NEW pc, NEW role, NEW bound, NEW org,
         Assigns(i, pc, role, bound, org)
  PROVE  /\ OnlyMoves(i)
         /\ op'[i].pc = pc /\ op'[i].org = org
<1>1. \A j \in Op : op'[j] = [job |-> op'[j].job, pc |-> op'[j].pc, role |-> op'[j].role,
                             bound |-> op'[j].bound, org |-> op'[j].org]
  BY DEF OperationsOK, Assigns
<1>2. \A j \in Op : op'[j].job = op[j].job
  BY DEF Assigns
<1>3. OperationsOK'
  BY <1>1, <1>2 DEF OperationsOK, Assigns
<1> QED
  BY <1>3 DEF OnlyMoves, Assigns

\* The await of the next statement.
LEMMA Proceeds ==
  ASSUME OperationsOK, NEW i \in Op, NEW pc, Proceed(i, pc)
  PROVE  OnlyMoves(i) /\ op'[i].pc = pc
<1>1. DOMAIN op = Op /\ op[i] = [job |-> op[i].job, pc |-> op[i].pc, role |-> op[i].role,
                                bound |-> op[i].bound, org |-> op[i].org]
  BY DEF OperationsOK
<1>2. Assigns(i, pc, op[i].role, op[i].bound, op[i].org)
  BY <1>1 DEF Proceed, Assigns
<1> QED
  BY <1>2, OperationMoves

\* What DeactivatedStaysOut says of operation i.
ResolvesWhereMember(i) ==
  Resolving(i) /\ op'[i].pc = "in" => <<op[i].job.user, op'[i].org>> \notin left'

Correct(i) == AccountsInv' /\ OnlyMoves(i) /\ ResolvesWhereMember(i)

\* A statement that changes no membership.
LEMMA Reads ==
  ASSUME AccountsInv, NEW i \in Op, OnlyMoves(i), UNCHANGED <<mem, left>>
  PROVE  AccountsInv'
<1>1. MembershipsOK'
  BY DEF AccountsInv, MembershipsOK
<1>2. LeftAreOut'
  BY DEF AccountsInv, LeftAreOut, Orgs
<1> QED
  BY <1>1, <1>2 DEF AccountsInv, OnlyMoves

\* A membership is added: the user is back.
LEMMA Adds ==
  ASSUME AccountsInv, NEW i \in Op, OnlyMoves(i),
         NEW u \in User, NEW o \in Org, NEW r \in Roles,
         mem' = Added(u, o, r), left' = left \ {<<u, o>>}
  PROVE  AccountsInv'
<1>1. /\ MembershipsOK'
      /\ \A v \in User : Orgs(v)' \subseteq Orgs(v) \cup (IF v = u THEN {o} ELSE {})
  BY AddedMember DEF AccountsInv
<1>2. ASSUME NEW v \in User, NEW p \in Org, <<v, p>> \in left' PROVE p \notin Orgs(v)'
  <2>1. <<v, p>> \in left /\ ~(v = u /\ p = o)
    BY <1>2
  <2>2. p \notin Orgs(v)
    BY <2>1 DEF AccountsInv, LeftAreOut
  <2> QED
    BY <2>1, <2>2, <1>1
<1>3. LeftAreOut'
  BY <1>2 DEF LeftAreOut
<1> QED
  BY <1>1, <1>3 DEF AccountsInv, OnlyMoves

\* A deactivation concludes: the pair joins left if there is no row.
LEMMA Leaves ==
  ASSUME AccountsInv, NEW i \in Op, OnlyMoves(i), UNCHANGED mem,
         NEW u \in User, NEW o \in Org, NEW b \in BOOLEAN,
         b => o \notin Orgs(u),
         left' = IF b THEN left \cup {<<u, o>>} ELSE left
  PROVE  AccountsInv'
<1>1. MembershipsOK'
  BY DEF AccountsInv, MembershipsOK
<1>2. \A v : Orgs(v)' = Orgs(v)
  BY DEF Orgs
<1>3. ASSUME NEW v \in User, NEW p \in Org, <<v, p>> \in left' PROVE p \notin Orgs(v)
  <2>1. CASE <<v, p>> \in left
    BY <2>1 DEF AccountsInv, LeftAreOut
  <2>2. CASE b /\ v = u /\ p = o
    BY <2>2
  <2> QED
    BY <1>3, <2>1, <2>2
<1>4. LeftAreOut'
  BY <1>2, <1>3 DEF LeftAreOut
<1> QED
  BY <1>1, <1>4 DEF AccountsInv, OnlyMoves

\* The request path: credential, binding, the bound org, the oldest, a new one.
LEMMA RequestCorrect ==
  ASSUME AccountsInv, NEW i \in Op,
         \/ ReadCredential(i) \/ ReadBinding(i) \/ Resolve(i) \/ ResolveOldest(i)
         \/ Provision(i)
  PROVE  Correct(i)
<1> PICK me : me = op[i]
  OBVIOUS
<1>1. DOMAIN op = Op /\ me = [job |-> me.job, pc |-> me.pc, role |-> me.role,
                             bound |-> me.bound, org |-> me.org]
  BY DEF AccountsInv, OperationsOK
<1>2. me.job.user \in User
  BY DEF AccountsInv, OperationsOK
<1>3. CASE ReadCredential(i)
  <2>1. PICK pc, role, bound, org :
          op' = [op EXCEPT ![i] = [me EXCEPT !.pc = pc, !.bound = bound, !.org = org,
                                             !.role = role]]
    BY <1>1, <1>3 DEF ReadCredential
  <2>2. Assigns(i, pc, role, bound, org)
    BY <1>1, <2>1 DEF Assigns
  <2>3. OnlyMoves(i)
    BY <2>2, OperationMoves DEF AccountsInv
  <2>4. ~Resolving(i)
    BY <1>3 DEF ReadCredential, At, Resolving
  <2> QED
    BY SMTT(30), <1>3, <2>3, <2>4, Reads DEF ReadCredential, Correct, ResolvesWhereMember
<1>4. CASE ReadBinding(i)
  <2>1. PICK bound : op' = [op EXCEPT ![i].pc = "bound", ![i].bound = bound]
    BY <1>4 DEF ReadBinding
  <2>2. Assigns(i, "bound", me.role, bound, me.org)
    BY <1>1, <2>1 DEF Assigns
  <2>3. OnlyMoves(i)
    BY <2>2, OperationMoves DEF AccountsInv
  <2>4. ~Resolving(i)
    BY <1>4 DEF ReadBinding, At, Resolving
  <2> QED
    BY <1>4, <2>3, <2>4, Reads DEF ReadBinding, Correct, ResolvesWhereMember
<1>5. CASE Resolve(i)
  <2>1. UNCHANGED <<mem, left>>
    BY <1>5 DEF Resolve
  <2>2. CASE BindingHolds(me.job.user, me.bound)
    <3>1. op' = [op EXCEPT ![i].pc = "in", ![i].org = me.bound,
                           ![i].role = RoleIn(me.job.user, me.bound)]
      BY <1>5, <2>2 DEF Resolve
    <3>2. PICK role : op' = [op EXCEPT ![i].pc = "in", ![i].org = me.bound, ![i].role = role]
      BY <3>1
    <3>3. Assigns(i, "in", role, me.bound, me.bound)
      BY <1>1, <3>2 DEF Assigns
    <3>4. OnlyMoves(i) /\ op'[i].org = me.bound
      BY <3>3, OperationMoves DEF AccountsInv
    <3>5. me.bound \in Orgs(me.job.user)
      BY <2>2 DEF BindingHolds
    <3>6. me.bound \in Org
      BY <1>2, <3>5, MemberOrgs DEF AccountsInv
    <3>7. <<me.job.user, me.bound>> \notin left
      BY <1>2, <3>5, <3>6 DEF AccountsInv, LeftAreOut
    <3> QED
      BY <2>1, <3>4, <3>7, Reads DEF Correct, ResolvesWhereMember
  <2>3. CASE ~BindingHolds(me.job.user, me.bound)
    <3>1. Proceed(i, "oldest")
      BY <1>5, <2>3 DEF Resolve, Proceed
    <3>2. OnlyMoves(i) /\ op'[i].pc = "oldest"
      BY <3>1, Proceeds DEF AccountsInv
    <3> QED
      BY <2>1, <3>2, Reads DEF Correct, ResolvesWhereMember
  <2> QED
    BY <2>2, <2>3
<1>6. CASE ResolveOldest(i)
  <2>1. UNCHANGED <<mem, left>>
    BY <1>6 DEF ResolveOldest
  <2> PICK mine : mine = mem[me.job.user]
    OBVIOUS
  <2>2. CASE mine # <<>>
    <3>1. PICK org, role : /\ org = Head(mine).org
                           /\ op' = [op EXCEPT ![i].pc = "in", ![i].org = org,
                                               ![i].role = role]
      BY <1>6, <2>2 DEF ResolveOldest
    <3>2. Assigns(i, "in", role, me.bound, org)
      BY <1>1, <3>1 DEF Assigns
    <3>3. OnlyMoves(i) /\ op'[i].org = org
      BY <3>2, OperationMoves DEF AccountsInv
    <3>4. mine \in Seq(Membership)
      BY <1>2 DEF AccountsInv, MembershipsOK
    <3>5. 1 \in DOMAIN mine /\ mine[1] \in Membership /\ org = mine[1].org
      BY <2>2, <3>1, <3>4
    <3>6. org \in Orgs(me.job.user) /\ org \in Org
      BY <3>5 DEF Orgs, Membership
    <3>7. <<me.job.user, org>> \notin left
      BY <1>2, <3>6 DEF AccountsInv, LeftAreOut
    <3> QED
      BY SMTT(30), <2>1, <3>3, <3>7, Reads DEF Correct, ResolvesWhereMember
  <2>3. CASE mine = <<>>
    <3>1. Proceed(i, "provision")
      BY <1>6, <2>3 DEF ResolveOldest, Proceed
    <3>2. OnlyMoves(i) /\ op'[i].pc = "provision"
      BY <3>1, Proceeds DEF AccountsInv
    <3> QED
      BY <2>1, <3>2, Reads DEF Correct, ResolvesWhereMember
  <2> QED
    BY <2>2, <2>3
<1>7. CASE Provision(i)
  <2> PICK u, o : u = me.job.user /\ o = HomeOf[u]
    OBVIOUS
  <2>1. u \in User /\ o \in Org /\ "owner" \in Roles
    BY <1>2, AccountsAssumption DEF Roles
  <2>2. mem' = Added(u, o, "owner") /\ left' = left \ {<<u, o>>}
    BY <1>7 DEF Provision
  <2>3. op' = [op EXCEPT ![i].pc = "in", ![i].org = o, ![i].role = "owner"]
    BY <1>7 DEF Provision
  <2>4. Assigns(i, "in", "owner", me.bound, o)
    BY <1>1, <2>3 DEF Assigns
  <2>5. OnlyMoves(i) /\ op'[i].org = o
    BY <2>4, OperationMoves DEF AccountsInv
  <2>6. AccountsInv'
    BY <2>1, <2>2, <2>5, Adds
  <2> QED
    BY <2>2, <2>5, <2>6 DEF Correct, ResolvesWhereMember
<1> QED
  BY <1>3, <1>4, <1>5, <1>6, <1>7

\* set_role, remove_membership and scim_deactivate.
LEMMA LeavingCorrect ==
  ASSUME AccountsInv, NEW i \in Op,
         \/ ReadRole(i) \/ CountOwners(i) \/ WriteRole(i) \/ DropMember(i)
         \/ RevokeBound(i) \/ ReadRemaining(i) \/ RevokeUnbound(i)
  PROVE  Correct(i)
<1> PICK u, o : u = op[i].job.user /\ o = op[i].job.org
  OBVIOUS
<1>1. DOMAIN op = Op /\ op[i] = [job |-> op[i].job, pc |-> op[i].pc, role |-> op[i].role,
                                bound |-> op[i].bound, org |-> op[i].org]
  BY DEF AccountsInv, OperationsOK
<1>2. u \in User /\ o \in Org
  BY DEF AccountsInv, OperationsOK
<1>3. CASE ReadRole(i)
  <2>1. PICK pc, role : op' = [op EXCEPT ![i].role = role, ![i].pc = pc]
    BY <1>3 DEF ReadRole
  <2>2. Assigns(i, pc, role, op[i].bound, op[i].org)
    BY <1>1, <2>1 DEF Assigns
  <2>3. OnlyMoves(i)
    BY <2>2, OperationMoves DEF AccountsInv
  <2>4. ~Resolving(i)
    BY <1>3 DEF ReadRole, Resolving
  <2> QED
    BY <1>3, <2>3, <2>4, Reads DEF ReadRole, Correct, ResolvesWhereMember
<1>4. CASE CountOwners(i)
  <2>1. PICK pc : Proceed(i, pc)
    BY <1>4 DEF CountOwners
  <2>2. OnlyMoves(i)
    BY <2>1, Proceeds DEF AccountsInv
  <2>3. ~Resolving(i)
    BY <1>4 DEF CountOwners, Resolving
  <2> QED
    BY <1>4, <2>2, <2>3, Reads DEF CountOwners, Correct, ResolvesWhereMember
<1>5. CASE WriteRole(i)
  <2>1. OnlyMoves(i) /\ ~Resolving(i)
    BY <1>5, Proceeds DEF AccountsInv, WriteRole, At, Resolving
  <2>a. PICK s : s = mem[u]
    OBVIOUS
  <2>b. PICK d : d = [n \in DOMAIN s |-> IF s[n].org = o THEN [s[n] EXCEPT !.role = "member"]
                                                        ELSE s[n]]
    OBVIOUS
  <2>2. mem' = [mem EXCEPT ![u] = d]
    BY <1>5, <2>a, <2>b DEF WriteRole
  <2>3. /\ s \in Seq(Membership) /\ Len(s) \in Nat /\ DOMAIN s = 1..Len(s)
        /\ \A n \in DOMAIN s : s[n] \in Membership
    BY <1>2, <2>a DEF AccountsInv, MembershipsOK
  <2>4. \A n \in DOMAIN s : d[n] \in Membership /\ d[n].org = s[n].org
    <3> TAKE n \in DOMAIN s
    <3>1. CASE s[n].org = o
      <4>1. d[n] = [s[n] EXCEPT !.role = "member"]
        BY <3>1, <2>b
      <4>2. s[n] \in [org : Org, role : Roles] /\ "member" \in Roles
        BY <2>3 DEF Membership, Roles
      <4> QED
        BY <4>1, <4>2 DEF Membership
    <3>2. CASE s[n].org # o
      BY <3>2, <2>b, <2>3
    <3> QED
      BY <3>1, <3>2
  <2>5. d \in Seq(Membership) /\ DOMAIN d = DOMAIN s
    <3>1. d = [n \in 1..Len(s) |-> d[n]]
      BY <2>b, <2>3
    <3> QED
      BY <2>3, <2>4, <3>1
  <2>6. mem'[u] = d /\ \A v \in User \ {u} : mem'[v] = mem[v]
    BY <2>2, <1>2 DEF AccountsInv, MembershipsOK
  <2>7. mem' \in [User -> Seq(Membership)]
    BY <2>2, <2>5, <1>2 DEF AccountsInv, MembershipsOK
  <2>8. \A v \in User : \A m, n \in DOMAIN mem'[v] :
          mem'[v][m].org = mem'[v][n].org => m = n
    <3>1. \A m, n \in DOMAIN s : s[m].org = s[n].org => m = n
      BY <2>a, <1>2 DEF AccountsInv, MembershipsOK
    <3>2. \A m, n \in DOMAIN d : d[m].org = d[n].org => m = n
      BY <2>4, <2>5, <3>1
    <3>3. \A v \in User \ {u} : \A m, n \in DOMAIN mem'[v] :
            mem'[v][m].org = mem'[v][n].org => m = n
      BY <2>6 DEF AccountsInv, MembershipsOK
    <3> QED
      BY <2>6, <3>2, <3>3
  <2>9. Orgs(u)' \subseteq Orgs(u)
    BY <2>a, <2>4, <2>5, <2>6 DEF Orgs
  <2>10. \A v \in User \ {u} : Orgs(v)' = Orgs(v)
    BY <2>6 DEF Orgs
  <2>11. LeftAreOut'
    BY <1>5, <2>9, <2>10 DEF WriteRole, AccountsInv, LeftAreOut
  <2>12. MembershipsOK'
    BY <2>7, <2>8 DEF MembershipsOK
  <2> QED
    BY <2>1, <2>11, <2>12 DEF AccountsInv, OnlyMoves, Correct, ResolvesWhereMember
<1>6. CASE DropMember(i)
  <2>1. PICK pc : Proceed(i, pc)
    BY <1>6 DEF DropMember
  <2>2. OnlyMoves(i) /\ ~Resolving(i)
    BY <1>6, <2>1, Proceeds DEF AccountsInv, DropMember, Resolving
  <2>3. /\ MembershipsOK'
        /\ \A v \in User : Orgs(v)' = Orgs(v) \ (IF v = u THEN {o} ELSE {})
    BY <1>2, <1>6, DroppedMember DEF AccountsInv, DropMember
  <2>4. LeftAreOut'
    BY <1>6, <2>3 DEF DropMember, AccountsInv, LeftAreOut
  <2> QED
    BY <2>2, <2>3, <2>4 DEF AccountsInv, OnlyMoves, Correct, ResolvesWhereMember
<1>7. CASE RevokeBound(i)
  <2>1. OnlyMoves(i) /\ ~Resolving(i)
    BY <1>7, Proceeds DEF AccountsInv, RevokeBound, At, Resolving
  <2> QED
    BY <1>7, <2>1, Reads DEF RevokeBound, Correct, ResolvesWhereMember
<1>8. CASE ReadRemaining(i)
  <2>1. PICK pc : Proceed(i, pc)
    BY <1>8 DEF ReadRemaining
  <2>2. OnlyMoves(i) /\ ~Resolving(i)
    BY <1>8, <2>1, Proceeds DEF AccountsInv, ReadRemaining, At, Resolving
  <2> PICK b \in BOOLEAN : b <=> (mem[u] # <<>> /\ o \notin Orgs(u))
    OBVIOUS
  <2>3. left' = (IF b THEN left \cup {<<u, o>>} ELSE left) /\ UNCHANGED mem
    BY <1>8 DEF ReadRemaining
  <2>4. b => o \notin Orgs(u)
    OBVIOUS
  <2>5. AccountsInv'
    BY <1>2, <2>2, <2>3, <2>4, Leaves
  <2> QED
    BY <2>2, <2>5 DEF Correct, ResolvesWhereMember
<1>9. CASE RevokeUnbound(i)
  <2>1. OnlyMoves(i) /\ ~Resolving(i)
    BY <1>9, Proceeds DEF AccountsInv, RevokeUnbound, At, Resolving
  <2> PICK b \in BOOLEAN : b <=> o \notin Orgs(u)
    OBVIOUS
  <2>2. left' = (IF b THEN left \cup {<<u, o>>} ELSE left) /\ UNCHANGED mem
    BY <1>9 DEF RevokeUnbound
  <2>3. b => o \notin Orgs(u)
    OBVIOUS
  <2>4. AccountsInv'
    BY <1>2, <2>1, <2>2, <2>3, Leaves
  <2> QED
    BY <2>1, <2>4 DEF Correct, ResolvesWhereMember
<1> QED
  BY <1>3, <1>4, <1>5, <1>6, <1>7, <1>8, <1>9

\* LinkSso, ScimProvision and Join: the operations that add a member.
LEMMA JoiningCorrect ==
  ASSUME AccountsInv, NEW i \in Op, LinkSso(i) \/ ScimProvision(i) \/ Join(i)
  PROVE  Correct(i)
<1> PICK u, o : u = op[i].job.user /\ o = op[i].job.org
  OBVIOUS
<1>1. u \in User /\ o \in Org /\ "member" \in Roles
  BY DEF AccountsInv, OperationsOK, Roles
<1>2. PICK pc : Proceed(i, pc)
  BY DEF LinkSso, ScimProvision, Join
<1>3. OnlyMoves(i)
  BY <1>2, Proceeds DEF AccountsInv
<1>4. ~Resolving(i)
  BY DEF LinkSso, ScimProvision, Join, At, Resolving
<1>5. \/ UNCHANGED <<mem, left>>
      \/ mem' = Added(u, o, "member") /\ left' = left \ {<<u, o>>}
  BY DEF LinkSso, ScimProvision, Join
<1>6. CASE UNCHANGED <<mem, left>>
  BY <1>3, <1>4, <1>6, Reads DEF Correct, ResolvesWhereMember
<1>7. CASE mem' = Added(u, o, "member") /\ left' = left \ {<<u, o>>}
  <2>1. AccountsInv'
    BY <1>1, <1>3, <1>7, Adds
  <2> QED
    BY <1>3, <1>4, <2>1 DEF Correct, ResolvesWhereMember
<1> QED
  BY <1>5, <1>6, <1>7

\* The statements on token rows.
LEMMA CredentialsCorrect ==
  ASSUME AccountsInv, NEW i \in Op,
         \/ TestSwitch(i) \/ WriteSwitch(i) \/ MintSession(i) \/ Login(i) \/ TestMint(i)
         \/ MintApi(i) \/ Discard(i) \/ ReadOld(i) \/ MintSuccessor(i) \/ RetireOld(i)
         \/ BulkRevoke(i)
  PROVE  Correct(i)
<1>1. CASE ReadOld(i)
  <2>1. DOMAIN op = Op /\ op[i] = [job |-> op[i].job, pc |-> op[i].pc, role |-> op[i].role,
                                  bound |-> op[i].bound, org |-> op[i].org]
    BY DEF AccountsInv, OperationsOK
  <2>2. \/ \E bound : op' = [op EXCEPT ![i].pc = "mint", ![i].bound = bound]
        \/ op' = [op EXCEPT ![i].pc = "refused"]
    BY <1>1 DEF ReadOld
  <2>3. \E pc, bound : Assigns(i, pc, op[i].role, bound, op[i].org)
    <3>1. CASE \E bound : op' = [op EXCEPT ![i].pc = "mint", ![i].bound = bound]
      <4> PICK bound : op' = [op EXCEPT ![i].pc = "mint", ![i].bound = bound]
        BY <3>1
      <4> Assigns(i, "mint", op[i].role, bound, op[i].org)
        BY <2>1 DEF Assigns
      <4> QED
        OBVIOUS
    <3>2. CASE op' = [op EXCEPT ![i].pc = "refused"]
      <4> Assigns(i, "refused", op[i].role, op[i].bound, op[i].org)
        BY <2>1, <3>2 DEF Assigns
      <4> QED
        OBVIOUS
    <3> QED
      BY <2>2, <3>1, <3>2
  <2>4. OnlyMoves(i)
    BY <2>3, OperationMoves DEF AccountsInv
  <2>5. ~Resolving(i)
    BY <1>1 DEF ReadOld, At, Resolving
  <2> QED
    BY <1>1, <2>4, <2>5, Reads DEF ReadOld, Correct, ResolvesWhereMember
<1>2. CASE ~ReadOld(i)
  <2>1. \E pc : Proceed(i, pc)
    BY <1>2 DEF TestSwitch, WriteSwitch, MintSession, Login, TestMint, MintApi, Discard,
                MintSuccessor, RetireOld, BulkRevoke
  <2>2. OnlyMoves(i)
    BY <2>1, Proceeds DEF AccountsInv
  <2>3. ~Resolving(i)
    BY <1>2 DEF TestSwitch, WriteSwitch, MintSession, Login, TestMint, MintApi, Discard,
                MintSuccessor, RetireOld, BulkRevoke, At, Resolving
  <2>4. UNCHANGED <<mem, left>>
    BY <1>2 DEF TestSwitch, WriteSwitch, MintSession, Login, TestMint, MintApi, Discard,
                MintSuccessor, RetireOld, BulkRevoke
  <2> QED
    BY <2>2, <2>3, <2>4, Reads DEF Correct, ResolvesWhereMember
<1> QED
  BY <1>1, <1>2

\* Every step keeps the invariant, and a request resolves where left is not.
LEMMA AccountsStep ==
  ASSUME AccountsInv, [AccountsNext]_accountVars
  PROVE  /\ AccountsInv'
         /\ \A i \in Op : ResolvesWhereMember(i)
<1>1. CASE UNCHANGED accountVars
  BY <1>1 DEF accountVars, AccountsInv, MembershipsOK, OperationsOK, LeftAreOut, Orgs,
              ResolvesWhereMember, Resolving
<1>2. CASE \E t \in Token : Expire(t)
  BY <1>2 DEF Expire, AccountsInv, MembershipsOK, OperationsOK, LeftAreOut, Orgs,
              ResolvesWhereMember, Resolving
<1>3. ASSUME NEW i \in Op, Step(i)
      PROVE  AccountsInv' /\ \A j \in Op : ResolvesWhereMember(j)
  <2>1. Correct(i)
    BY <1>3, RequestCorrect, LeavingCorrect, JoiningCorrect, CredentialsCorrect DEF Step
  <2>2. \A j \in Op \ {i} : op'[j] = op[j]
    BY <2>1 DEF Correct, OnlyMoves
  <2>3. \A j \in Op \ {i} : ResolvesWhereMember(j)
    BY <2>2 DEF ResolvesWhereMember, Resolving
  <2> QED
    BY <2>1, <2>3 DEF Correct
<1> QED
  BY <1>1, <1>2, <1>3 DEF AccountsNext

\* Nobody who was deactivated and not added since has a membership.
THEOREM DeactivatedHaveNoRow == AccountsSpec => []AccountsInv
<1>1. AccountsInv /\ [AccountsNext]_accountVars => AccountsInv'
  BY AccountsStep
<1> QED
  BY InitAccountsInv, <1>1, PTL DEF AccountsSpec

\* scim_deactivate takes a user out of an org for every later request.
THEOREM DeactivatedAlwaysOut == AccountsSpec => DeactivatedStaysOut
<1>1. AccountsInv /\ [AccountsNext]_accountVars =>
        [\A i \in Op : Resolving(i) /\ op'[i].pc = "in"
           => <<op[i].job.user, op'[i].org>> \notin left']_accountVars
  BY AccountsStep DEF ResolvesWhereMember
<1> QED
  BY DeactivatedHaveNoRow, <1>1, PTL DEF AccountsSpec, DeactivatedStaysOut

-----------------------------------------------------------------------------
(***************************************************************************)
(* A finished revocation leaves nothing it set out to revoke, for any rows *)
(* and concurrent operations.  The invariant: a credential that was in the *)
(* scope of a revocation is gone, or still in that scope with the DELETE   *)
(* that takes it to come.                                                  *)
(***************************************************************************)

\* A row that is there has all its columns.
RowOK(t) ==
  \/ tok[t] \in {Unborn, Gone}
  \/ /\ Exists(t) /\ tok[t].purpose \in Purposes
     /\ tok[t] = [live |-> tok[t].live, user |-> tok[t].user, purpose |-> tok[t].purpose,
                  org |-> tok[t].org, finite |-> tok[t].finite]

\* The DELETE of revocation i that takes t is still to come.
Awaits(i, t) ==
  /\ Exists(t)
  /\ \/ /\ op[i].job.kind = "deactivate"
        /\ op[i].pc \in {"count", "write", "refused", "revoke"}
        /\ tok[t].user = op[i].job.user /\ tok[t].org = op[i].job.org
     \/ /\ op[i].job.kind = "deactivate" /\ op[i].pc = "unbound"
        /\ tok[t].user = op[i].job.user /\ tok[t].org = None
     \/ /\ op[i].job.kind = "bulk" /\ op[i].pc \in {"session", "service"}
        /\ tok[t].org = op[i].job.org
        /\ tok[t].purpose \in (IF op[i].pc = "session" THEN {"session", "service"}
                                                       ELSE {"service"})

Settled(i, t) == tok[t] = Gone \/ Awaits(i, t)

RowsOK == tok = [t \in Token |-> tok[t]] /\ \A t \in Token : RowOK(t)

DoomedOK ==
  /\ doomed \subseteq Op \X Token
  /\ \A i \in Op, t \in Token : <<i, t>> \in doomed => Settled(i, t)

RevokedInv == RowsOK /\ DoomedOK

\* What a step may do to a row: nothing, delete it, change how long it lives,
\* or write one that was never there.
Kept(t) ==
  /\ RowOK(t)'
  /\ tok[t] = Gone => tok'[t] = Gone
  /\ Exists(t) => \/ tok'[t] = Gone
                  \/ /\ Exists(t)' /\ tok'[t].user = tok[t].user
                     /\ tok'[t].org = tok[t].org /\ tok'[t].purpose = tok[t].purpose

LEMMA GoneIsNoRow == ~(Gone.live \in {"yes", "expired"}) /\ Gone # Unborn
  BY DEF Gone, Unborn

\* A row that is left alone.
LEMMA Stays ==
  ASSUME RowsOK, NEW t \in Token, tok'[t] = tok[t]
  PROVE  Kept(t)
<1>1. Exists(t)' <=> Exists(t)
  BY DEF Exists
<1> QED
  BY <1>1 DEF Kept, RowsOK, RowOK

\* DELETE.
LEMMA Deletes ==
  ASSUME RowsOK, NEW T, tok' = Delete(T)
  PROVE  /\ tok' = [t \in Token |-> tok'[t]]
         /\ \A t \in Token : Kept(t)
         /\ \A t \in T \cap Token : tok'[t] = Gone
<1>1. ASSUME NEW t \in Token PROVE Kept(t)
  <2>1. CASE t \in T
    <3>1. tok'[t] = Gone
      BY <2>1 DEF Delete
    <3> QED
      BY <3>1 DEF Kept, RowOK
  <2>2. CASE t \notin T
    <3>1. tok'[t] = tok[t]
      BY <2>2 DEF Delete
    <3> QED
      BY <3>1, Stays
  <2> QED
    BY <2>1, <2>2
<1> QED
  BY <1>1 DEF Delete

\* INSERT.
LEMMA Mints ==
  ASSUME RowsOK, NEW x \in Token, tok[x] = Unborn,
         NEW u, NEW p \in Purposes, NEW o, NEW f, tok' = Minted(x, TokenRow(u, p, o, f))
  PROVE  tok' = [t \in Token |-> tok'[t]] /\ \A t \in Token : Kept(t)
<1>1. ASSUME NEW t \in Token PROVE Kept(t)
  <2>1. CASE t = x
    <3>1. tok'[x] = TokenRow(u, p, o, f)
      BY DEF RowsOK, Minted
    <3>2. RowOK(x)'
      BY <3>1 DEF RowOK, TokenRow, Exists
    <3>3. tok[x] # Gone /\ ~Exists(x)
      BY GoneIsNoRow DEF Exists, Unborn
    <3> QED
      BY <2>1, <3>2, <3>3 DEF Kept
  <2>2. CASE t # x
    <3>1. tok'[t] = tok[t]
      BY <2>2 DEF RowsOK, Minted
    <3> QED
      BY <3>1, Stays
  <2> QED
    BY <2>1, <2>2
<1> QED
  BY <1>1 DEF Minted, RowsOK

\* An UPDATE of how long a row lives, or its DELETE.
LEMMA Ages ==
  ASSUME RowsOK, NEW x \in Token, Exists(x), NEW row,
         \/ row = Gone
         \/ \E how \in {"yes", "expired"} : \E f :
              row = [live |-> how, user |-> tok[x].user, purpose |-> tok[x].purpose,
                     org |-> tok[x].org, finite |-> f],
         tok' = [tok EXCEPT ![x] = row]
  PROVE  tok' = [t \in Token |-> tok'[t]] /\ \A t \in Token : Kept(t)
<1>1. tok'[x] = row /\ tok[x] # Gone /\ tok[x].purpose \in Purposes
  <2>1. tok'[x] = row
    BY DEF RowsOK
  <2>2. tok[x] # Gone /\ tok[x] # Unborn
    BY GoneIsNoRow DEF Exists, Unborn
  <2> QED
    BY <2>1, <2>2 DEF RowsOK, RowOK
<1>2. ASSUME NEW t \in Token PROVE Kept(t)
  <2>1. CASE t = x
    <3>1. CASE row = Gone
      BY <1>1, <2>1, <3>1 DEF Kept, RowOK
    <3>2. CASE row # Gone
      <4> PICK how \in {"yes", "expired"} : \E f :
            row = [live |-> how, user |-> tok[x].user, purpose |-> tok[x].purpose,
                   org |-> tok[x].org, finite |-> f]
        BY <3>2
      <4> PICK f :
            row = [live |-> how, user |-> tok[x].user, purpose |-> tok[x].purpose,
                   org |-> tok[x].org, finite |-> f]
        OBVIOUS
      <4>1. /\ tok'[x].live = how /\ tok'[x].user = tok[x].user
            /\ tok'[x].purpose = tok[x].purpose /\ tok'[x].org = tok[x].org
            /\ tok'[x].finite = f
        BY <1>1
      <4>2. Exists(x)'
        BY <4>1 DEF Exists
      <4>3. RowOK(x)'
        BY <1>1, <4>1, <4>2 DEF RowOK
      <4> QED
        BY <1>1, <2>1, <4>1, <4>2, <4>3 DEF Kept
    <3> QED
      BY <3>1, <3>2
  <2>2. CASE t # x
    <3>1. tok'[t] = tok[t]
      BY <2>2 DEF RowsOK
    <3> QED
      BY <3>1, Stays
  <2> QED
    BY <2>1, <2>2
<1> QED
  BY <1>2 DEF RowsOK

LEMMA InitRevokedInv == AccountsInit => RevokedInv
<1> SUFFICES ASSUME AccountsInit PROVE RevokedInv
  OBVIOUS
<1>1. ASSUME NEW t \in Token PROVE RowOK(t)
  <2>1. tok[t] = Tok0[t]
    BY DEF AccountsInit
  <2>2. CASE Tok0[t] = Unborn
    BY <2>1, <2>2 DEF RowOK
  <2>3. CASE Tok0[t] # Unborn
    <3> PICK u \in User \cup Org, p \in Purposes, o \in Org \cup {None}, f \in BOOLEAN :
          tok[t] = TokenRow(u, p, o, f)
      BY <2>1, <2>3, AccountsAssumption
    <3> QED
      BY DEF RowOK, TokenRow, Exists
  <2> QED
    BY <2>2, <2>3
<1>2. RowsOK
  BY <1>1, AccountsAssumption DEF AccountsInit, RowsOK
<1> QED
  BY <1>2 DEF AccountsInit, RevokedInv, DoomedOK

\* The revocations of the other operations stay as good as they were.
LEMMA OthersSettled ==
  ASSUME RevokedInv, NEW j \in Op, op'[j] = op[j],
         NEW t \in Token, Kept(t), <<j, t>> \in doomed
  PROVE  Settled(j, t)'
<1>1. Settled(j, t)
  BY DEF RevokedInv, DoomedOK
<1>2. CASE tok[t] = Gone
  BY <1>2 DEF Kept, Settled
<1>3. CASE Awaits(j, t)
  <2>1. CASE tok'[t] = Gone
    BY <2>1 DEF Settled
  <2>2. CASE tok'[t] # Gone
    <3>1. /\ Exists(t)' /\ tok'[t].user = tok[t].user
          /\ tok'[t].org = tok[t].org /\ tok'[t].purpose = tok[t].purpose
      BY <1>3, <2>2 DEF Kept, Awaits
    <3> QED
      BY <1>3, <3>1 DEF Awaits, Settled
  <2> QED
    BY <2>1, <2>2
<1> QED
  BY <1>1, <1>2, <1>3 DEF Settled

\* Putting a step together: the rows kept, the pairs of operation i settled.
LEMMA StepSettles ==
  ASSUME RevokedInv, NEW i \in Op, OnlyMoves(i),
         tok' = [t \in Token |-> tok'[t]], \A t \in Token : Kept(t),
         NEW T \in SUBSET Token, doomed' \subseteq doomed \cup {<<i, t>> : t \in T},
         \A t \in Token : <<i, t>> \in doomed' => Settled(i, t)'
  PROVE  RevokedInv'
<1>1. RowsOK'
  BY DEF RowsOK, Kept
<1>2. doomed' \subseteq Op \X Token
  BY DEF RevokedInv, DoomedOK
<1>3. ASSUME NEW j \in Op, NEW t \in Token, <<j, t>> \in doomed' PROVE Settled(j, t)'
  <2>1. CASE j = i
    BY <1>3, <2>1
  <2>2. CASE j # i
    <3>1. <<j, t>> \in doomed /\ op'[j] = op[j]
      BY <1>3, <2>2 DEF OnlyMoves
    <3> QED
      BY <3>1, OthersSettled
  <2> QED
    BY <2>1, <2>2
<1> QED
  BY <1>1, <1>2, <1>3 DEF RevokedInv, DoomedOK

\* A step of an operation that revokes nothing, or has nothing left to revoke:
\* what it has doomed is gone.
LEMMA QuietStep ==
  ASSUME RevokedInv, NEW i \in Op, OnlyMoves(i),
         tok' = [t \in Token |-> tok'[t]], \A t \in Token : Kept(t),
         doomed' = doomed, \A t \in Token : ~Awaits(i, t)
  PROVE  RevokedInv'
<1>1. ASSUME NEW t \in Token, <<i, t>> \in doomed' PROVE Settled(i, t)'
  <2>1. tok[t] = Gone
    BY <1>1 DEF RevokedInv, DoomedOK, Settled
  <2> QED
    BY <2>1 DEF Kept, Settled
<1> QED
  BY <1>1, StepSettles

LEMMA NoRowTouched ==
  ASSUME RowsOK, UNCHANGED tok
  PROVE  tok' = [t \in Token |-> tok'[t]] /\ \A t \in Token : Kept(t)
<1>1. ASSUME NEW t \in Token PROVE Kept(t)
  BY Stays
<1> QED
  BY <1>1 DEF RowsOK

\* A step that inserts a row.
LEMMA MintKeeps ==
  ASSUME RevokedInv, NEW i \in Op, OnlyMoves(i), doomed' = doomed,
         \A t \in Token : ~Awaits(i, t),
         NEW x \in Token, tok[x] = Unborn, NEW u, NEW p \in Purposes, NEW o, NEW f,
         tok' = Minted(x, TokenRow(u, p, o, f))
  PROVE  RevokedInv'
<1>1. tok' = [t \in Token |-> tok'[t]] /\ \A t \in Token : Kept(t)
  BY Mints DEF RevokedInv
<1> QED
  BY <1>1, QuietStep

\* Operations that read, change memberships, mint or rotate.
LEMMA OrdinaryKeeps ==
  ASSUME RevokedInv, NEW i \in Op, OnlyMoves(i),
         \/ ReadCredential(i) \/ ReadBinding(i) \/ Resolve(i) \/ ResolveOldest(i)
         \/ Provision(i) \/ WriteRole(i) \/ TestSwitch(i) \/ LinkSso(i) \/ MintSession(i)
         \/ Login(i) \/ TestMint(i) \/ MintApi(i) \/ ScimProvision(i) \/ Join(i)
         \/ ReadOld(i) \/ MintSuccessor(i) \/ RetireOld(i)
  PROVE  RevokedInv'
<1>1. \A t \in Token : ~Awaits(i, t)
  BY DEF ReadCredential, ReadBinding, Resolve, ResolveOldest, Provision, WriteRole,
         TestSwitch, LinkSso, MintSession, Login, TestMint, MintApi, ScimProvision, Join,
         ReadOld, MintSuccessor, RetireOld, At, Awaits
<1>2. doomed' = doomed
  BY DEF ReadCredential, ReadBinding, Resolve, ResolveOldest, Provision, WriteRole,
         TestSwitch, LinkSso, MintSession, Login, TestMint, MintApi, ScimProvision, Join,
         ReadOld, MintSuccessor, RetireOld
<1>3. CASE MintSession(i) \/ Login(i) \/ MintApi(i) \/ MintSuccessor(i)
  <2>1. "api" \in Purposes /\ "session" \in Purposes
    BY DEF Purposes
  <2>2. CASE MintSession(i)
    <3>1. PICK x \in Token :
            /\ tok[x] = Unborn
            /\ tok' = Minted(x, TokenRow(op[i].job.user, "session", op[i].job.org, TRUE))
      BY <2>2 DEF MintSession
    <3> QED
      BY <1>1, <1>2, <2>1, <3>1, MintKeeps
  <2>3. CASE Login(i) /\ tok' # tok
    <3>1. PICK x \in Token :
            /\ tok[x] = Unborn
            /\ tok' = Minted(x, TokenRow(op[i].job.user, "session", None, TRUE))
      BY <2>3 DEF Login
    <3> QED
      BY <1>1, <1>2, <2>1, <3>1, MintKeeps
  <2>4. CASE MintApi(i)
    <3>1. PICK x \in Token, f \in BOOLEAN :
            /\ tok[x] = Unborn
            /\ tok' = Minted(x, TokenRow(op[i].job.user, "api", op[i].job.org, f))
      BY <2>4 DEF MintApi
    <3> QED
      BY <1>1, <1>2, <2>1, <3>1, MintKeeps
  <2>5. CASE MintSuccessor(i)
    <3>1. PICK x \in Token, f \in BOOLEAN :
            /\ tok[x] = Unborn
            /\ tok' = Minted(x, TokenRow(op[i].job.user, "api", op[i].bound, f))
      BY <2>5 DEF MintSuccessor
    <3> QED
      BY <1>1, <1>2, <2>1, <3>1, MintKeeps
  <2>6. CASE UNCHANGED tok
    BY <1>1, <1>2, <2>6, NoRowTouched, QuietStep DEF RevokedInv
  <2> QED
    BY <1>3, <2>2, <2>3, <2>4, <2>5, <2>6
<1>4. CASE UNCHANGED tok
  BY <1>1, <1>2, <1>4, NoRowTouched, QuietStep DEF RevokedInv
<1>6. CASE \E x, row : /\ Exists(x) /\ row \in Retired(tok[x])
                       /\ tok' = [tok EXCEPT ![x] = row]
  <2> PICK x, row : /\ Exists(x) /\ row \in Retired(tok[x])
                    /\ tok' = [tok EXCEPT ![x] = row]
    BY <1>6
  <2>1. CASE x \in Token
    <3>1. tok[x] = [live |-> tok[x].live, user |-> tok[x].user,
                    purpose |-> tok[x].purpose, org |-> tok[x].org,
                    finite |-> tok[x].finite]
      BY <2>1, GoneIsNoRow DEF RevokedInv, RowsOK, RowOK, Exists, Unborn
    <3>2. \/ row = Gone
          \/ row = [live |-> "yes", user |-> tok[x].user, purpose |-> tok[x].purpose,
                    org |-> tok[x].org, finite |-> TRUE]
      BY <3>1 DEF Retired
    <3>3. \/ row = Gone
          \/ \E how \in {"yes", "expired"} : \E f :
               row = [live |-> how, user |-> tok[x].user, purpose |-> tok[x].purpose,
                      org |-> tok[x].org, finite |-> f]
      BY <3>2
    <3> QED
      BY <1>1, <1>2, <2>1, <3>3, Ages, QuietStep DEF RevokedInv
  <2>2. CASE x \notin Token
    <3>1. tok' = tok
      BY <2>2 DEF RevokedInv, RowsOK
    <3> QED
      BY <1>1, <1>2, <3>1, NoRowTouched, QuietStep DEF RevokedInv
  <2> QED
    BY <2>1, <2>2
<1>7. CASE RetireOld(i)
  BY <1>4, <1>6, <1>7 DEF RetireOld
<1>8. CASE ~RetireOld(i) /\ ~MintSession(i) /\ ~Login(i) /\ ~MintApi(i) /\ ~MintSuccessor(i)
  <2>1. UNCHANGED tok
    BY <1>8 DEF ReadCredential, ReadBinding, Resolve, ResolveOldest, Provision,
         WriteRole, TestSwitch, LinkSso, TestMint, ScimProvision, Join, ReadOld
  <2> QED
    BY <1>4, <2>1
<1> QED
  BY <1>3, <1>7, <1>8

\* set_session_org: a pair whose session leaves the scope is dropped with it.
LEMMA SwitchKeeps ==
  ASSUME RevokedInv, NEW i \in Op, OnlyMoves(i), WriteSwitch(i)
  PROVE  RevokedInv'
<1> PICK x, o : x = op[i].job.tok /\ o = op[i].job.org
  OBVIOUS
<1>1. /\ tok' = IF Exists(x) THEN [tok EXCEPT ![x].org = o] ELSE tok
      /\ doomed' = {d \in doomed : ~(d[2] = x /\ Exists(x) /\ tok[x].org # o)}
  BY DEF WriteSwitch
<1>2. \A t \in Token : ~Awaits(i, t)
  BY DEF WriteSwitch, At, Awaits
<1>3. CASE ~Exists(x) \/ x \notin Token
  <2>1. tok' = tok
    BY <1>1, <1>3 DEF RevokedInv, RowsOK
  <2>2. doomed' = doomed
    <3>1. \A d \in doomed : d[2] \in Token
      BY DEF RevokedInv, DoomedOK
    <3> QED
      BY <1>1, <1>3, <3>1
  <2> QED
    BY <1>2, <2>1, <2>2, NoRowTouched, QuietStep DEF RevokedInv
<1>4. CASE Exists(x) /\ x \in Token
  <2>1. tok[x] = [live |-> tok[x].live, user |-> tok[x].user, purpose |-> tok[x].purpose,
                  org |-> tok[x].org, finite |-> tok[x].finite]
        /\ tok[x].purpose \in Purposes
    BY <1>4, GoneIsNoRow DEF RevokedInv, RowsOK, RowOK, Exists, Unborn
  <2>2. /\ tok'[x] = [live |-> tok[x].live, user |-> tok[x].user,
                      purpose |-> tok[x].purpose, org |-> o, finite |-> tok[x].finite]
        /\ \A t \in Token \ {x} : tok'[t] = tok[t]
        /\ tok' = [t \in Token |-> tok'[t]]
    BY <1>1, <1>4, <2>1 DEF RevokedInv, RowsOK
  <2>3. /\ tok'[x].live = tok[x].live /\ tok'[x].user = tok[x].user
        /\ tok'[x].purpose = tok[x].purpose /\ tok'[x].org = o
        /\ tok'[x].finite = tok[x].finite
    BY <2>2
  <2>4. Exists(x)' /\ RowOK(x)'
    BY <1>4, <2>1, <2>2, <2>3 DEF Exists, RowOK
  <2>5. \A t \in Token \ {x} : Kept(t)
    BY <2>2, Stays DEF RevokedInv
  <2>6. RowsOK'
    <3>1. \A t \in Token : RowOK(t)'
      BY <2>4, <2>5 DEF Kept
    <3> QED
      BY <2>2, <3>1 DEF RowsOK
  <2>7. doomed' \subseteq Op \X Token
    BY <1>1 DEF RevokedInv, DoomedOK
  <2>8. ASSUME NEW j \in Op, NEW t \in Token, <<j, t>> \in doomed' PROVE Settled(j, t)'
    <3>1. <<j, t>> \in doomed /\ (t = x => tok[x].org = o)
      BY <1>1, <1>4, <2>8
    <3>2. CASE j = i
      <4>1. tok[t] = Gone
        BY <1>2, <3>1, <3>2 DEF RevokedInv, DoomedOK, Settled
      <4>2. t # x
        BY <1>4, <4>1, GoneIsNoRow DEF Exists
      <4> QED
        BY <2>2, <4>1, <4>2 DEF Settled
    <3>3. CASE j # i
      <4>1. Kept(t)
        <5>1. CASE t = x
          BY <2>3, <2>4, <3>1, <5>1, <1>4, GoneIsNoRow DEF Kept, Exists
        <5> QED
          BY <2>5, <5>1
      <4> QED
        BY <3>1, <3>3, <4>1, OthersSettled DEF OnlyMoves
    <3> QED
      BY <3>2, <3>3
  <2> QED
    BY <2>6, <2>7, <2>8 DEF RevokedInv, DoomedOK
<1> QED
  BY <1>3, <1>4

\* set_role, remove_membership and the statements of scim_deactivate.
LEMMA LeavingKeeps ==
  ASSUME AccountsInv, RevokedInv, NEW i \in Op, OnlyMoves(i),
         \/ ReadRole(i) \/ CountOwners(i) \/ DropMember(i) \/ RevokeBound(i)
         \/ ReadRemaining(i) \/ RevokeUnbound(i)
  PROVE  RevokedInv'
<1> PICK u, o : u = op[i].job.user /\ o = op[i].job.org
  OBVIOUS
<1>a. /\ op'[i].job = op[i].job
      /\ DOMAIN op = Op /\ op[i] = [job |-> op[i].job, pc |-> op[i].pc, role |-> op[i].role,
                                    bound |-> op[i].bound, org |-> op[i].org]
  BY DEF OnlyMoves, AccountsInv, OperationsOK
<1>b. \A t \in Token : <<i, t>> \in doomed => Settled(i, t)
  BY DEF RevokedInv, DoomedOK
<1>1. CASE ReadRole(i)
  <2>1. UNCHANGED tok
    BY <1>1 DEF ReadRole
  <2>2. /\ tok' = [t \in Token |-> tok'[t]]
        /\ \A t \in Token : Kept(t)
    BY <2>1, NoRowTouched DEF RevokedInv
  <2>3. PICK T : /\ T = (IF op[i].job.kind = "deactivate" THEN Bound(u, o) ELSE {})
                 /\ doomed' = doomed \cup {<<i, t>> : t \in T}
    BY <1>1 DEF ReadRole, Dooms
  <2>4. T \in SUBSET Token
    BY <2>3 DEF Bound
  <2>5. op[i].job.kind = "deactivate" => op'[i].pc \in {"count", "write", "revoke"}
    BY <1>1, <1>a DEF ReadRole
  <2>6. ASSUME NEW t \in Token, <<i, t>> \in doomed' PROVE Settled(i, t)'
    <3>1. CASE <<i, t>> \in doomed
      <4>1. tok[t] = Gone
        BY <1>1, <1>b, <3>1 DEF ReadRole, Settled, Awaits
      <4> QED
        BY <2>1, <4>1 DEF Settled
    <3>2. CASE t \in T
      <4>1. Exists(t) /\ tok[t].user = u /\ tok[t].org = o /\ op[i].job.kind = "deactivate"
        BY <2>3, <3>2 DEF Bound
      <4> QED
        BY <1>a, <2>1, <2>5, <4>1 DEF Settled, Awaits, Exists
    <3> QED
      BY <2>3, <2>6, <3>1, <3>2
  <2> QED
    BY <2>2, <2>3, <2>4, <2>6, StepSettles
<1>2. CASE CountOwners(i) \/ DropMember(i)
  <2>1. UNCHANGED <<tok, doomed>>
    BY <1>2 DEF CountOwners, DropMember
  <2>2. /\ tok' = [t \in Token |-> tok'[t]]
        /\ \A t \in Token : Kept(t)
    BY <2>1, NoRowTouched DEF RevokedInv
  <2>3. op[i].job.kind = "deactivate" =>
          /\ op[i].pc \in {"count", "write"}
          /\ op'[i].pc \in {"refused", "write", "revoke"}
    BY <1>2, <1>a DEF CountOwners, DropMember, Proceed
  <2>4. op[i].job.kind # "bulk"
    BY <1>2 DEF CountOwners, DropMember, Leaving
  <2>5. ASSUME NEW t \in Token, <<i, t>> \in doomed' PROVE Settled(i, t)'
    <3>1. Settled(i, t)
      BY <1>b, <2>1, <2>5
    <3> QED
      BY <1>a, <2>1, <2>3, <2>4, <3>1 DEF Settled, Awaits, Exists
  <2> QED
    BY <2>1, <2>2, <2>5, StepSettles
<1>3. CASE RevokeBound(i)
  <2>1. tok' = Delete(Bound(u, o)) /\ doomed' = doomed
    BY <1>3 DEF RevokeBound
  <2>2. /\ tok' = [t \in Token |-> tok'[t]]
        /\ \A t \in Token : Kept(t)
        /\ \A t \in Bound(u, o) \cap Token : tok'[t] = Gone
    BY <2>1, Deletes DEF RevokedInv
  <2>3. ASSUME NEW t \in Token, <<i, t>> \in doomed' PROVE Settled(i, t)'
    <3>1. tok[t] = Gone \/ t \in Bound(u, o)
      BY <1>3, <1>b, <2>1, <2>3 DEF RevokeBound, At, Settled, Awaits, Bound
    <3> QED
      BY <2>2, <3>1 DEF Settled, Kept
  <2> QED
    BY <2>1, <2>2, <2>3, StepSettles
<1>4. CASE ReadRemaining(i)
  <2>1. UNCHANGED tok
    BY <1>4 DEF ReadRemaining
  <2>2. /\ tok' = [t \in Token |-> tok'[t]]
        /\ \A t \in Token : Kept(t)
    BY <2>1, NoRowTouched DEF RevokedInv
  <2>3. PICK T : /\ T = (IF mem[u] = <<>> THEN Bound(u, None) ELSE {})
                 /\ doomed' = doomed \cup {<<i, t>> : t \in T}
    BY <1>4 DEF ReadRemaining, Dooms
  <2>4. T \in SUBSET Token
    BY <2>3 DEF Bound
  <2>5. mem[u] = <<>> => op'[i].pc = "unbound" /\ op[i].job.kind = "deactivate"
    BY <1>4, <1>a DEF ReadRemaining, Proceed, At
  <2>6. ASSUME NEW t \in Token, <<i, t>> \in doomed' PROVE Settled(i, t)'
    <3>1. CASE <<i, t>> \in doomed
      <4>1. tok[t] = Gone
        BY <1>4, <1>b, <3>1 DEF ReadRemaining, At, Settled, Awaits
      <4> QED
        BY <2>1, <4>1 DEF Settled
    <3>2. CASE t \in T
      <4>1. Exists(t) /\ tok[t].user = u /\ tok[t].org = None /\ mem[u] = <<>>
        BY <2>3, <3>2 DEF Bound
      <4> QED
        BY <1>a, <2>1, <2>5, <4>1 DEF Settled, Awaits, Exists
    <3> QED
      BY <2>3, <2>6, <3>1, <3>2
  <2> QED
    BY <2>2, <2>3, <2>4, <2>6, StepSettles
<1>5. CASE RevokeUnbound(i)
  <2>1. tok' = Delete(Bound(u, None)) /\ doomed' = doomed
    BY <1>5 DEF RevokeUnbound
  <2>2. /\ tok' = [t \in Token |-> tok'[t]]
        /\ \A t \in Token : Kept(t)
        /\ \A t \in Bound(u, None) \cap Token : tok'[t] = Gone
    BY <2>1, Deletes DEF RevokedInv
  <2>3. ASSUME NEW t \in Token, <<i, t>> \in doomed' PROVE Settled(i, t)'
    <3>1. tok[t] = Gone \/ t \in Bound(u, None)
      BY <1>5, <1>b, <2>1, <2>3 DEF RevokeUnbound, At, Settled, Awaits, Bound
    <3> QED
      BY <2>2, <3>1 DEF Settled, Kept
  <2> QED
    BY <2>1, <2>2, <2>3, StepSettles
<1> QED
  BY <1>1, <1>2, <1>3, <1>4, <1>5

\* logout and revoke_token: one DELETE, and the operation is done.
LEMMA DiscardKeeps ==
  ASSUME RevokedInv, NEW i \in Op, OnlyMoves(i), Discard(i)
  PROVE  RevokedInv'
<1>1. PICK T : /\ T = {t \in Token : t = op[i].job.tok /\ Exists(t)}
               /\ tok' = Delete(T) /\ doomed' = doomed \cup {<<i, t>> : t \in T}
  BY DEF Discard, Dooms
<1>2. /\ tok' = [t \in Token |-> tok'[t]]
      /\ \A t \in Token : Kept(t)
      /\ \A t \in T \cap Token : tok'[t] = Gone
  BY <1>1, Deletes DEF RevokedInv
<1>3. ASSUME NEW t \in Token, <<i, t>> \in doomed' PROVE Settled(i, t)'
  <2>1. CASE <<i, t>> \in doomed
    <3>1. tok[t] = Gone
      BY <2>1 DEF RevokedInv, DoomedOK, Discard, Settled, Awaits
    <3> QED
      BY <1>2, <3>1 DEF Kept, Settled
  <2>2. CASE t \in T
    BY <1>2, <2>2 DEF Settled
  <2> QED
    BY <1>1, <1>3, <2>1, <2>2
<1>4. T \in SUBSET Token
  BY <1>1
<1> QED
  BY <1>1, <1>2, <1>3, <1>4, StepSettles

\* revoke_org_credentials: each DELETE takes its purpose, the rest awaits.
LEMMA BulkKeeps ==
  ASSUME AccountsInv, RevokedInv, NEW i \in Op, OnlyMoves(i), BulkRevoke(i)
  PROVE  RevokedInv'
<1> PICK o, p : /\ o = op[i].job.org
                /\ p = IF op[i].pc = "start" THEN "api" ELSE op[i].pc
  OBVIOUS
<1>1. PICK D : /\ D = {t \in Token : Exists(t) /\ tok[t].org = o /\ tok[t].purpose = p}
               /\ tok' = Delete(D)
  BY DEF BulkRevoke
<1>2. PICK T : /\ T = {t \in Token : op[i].pc = "start" /\ Exists(t) /\ tok[t].org = o}
               /\ doomed' = doomed \cup {<<i, t>> : t \in T}
  BY DEF BulkRevoke, Dooms
<1>3. /\ tok' = [t \in Token |-> tok'[t]]
      /\ \A t \in Token : Kept(t)
      /\ \A t \in D \cap Token : tok'[t] = Gone
  BY <1>1, Deletes DEF RevokedInv
<1>4. /\ op[i].job.kind = "bulk" /\ op[i].pc \in {"start", "session", "service"}
      /\ op'[i].job = op[i].job
      /\ op'[i].pc = BulkNext[p]
  <2>1. Proceed(i, BulkNext[p])
    BY DEF BulkRevoke
  <2>2. op'[i].pc = BulkNext[p]
    BY <2>1, Proceeds DEF AccountsInv
  <2> QED
    BY <2>2 DEF BulkRevoke, OnlyMoves
<1>5. /\ op[i].pc = "start"   => p = "api" /\ op'[i].pc = "session"
      /\ op[i].pc = "session" => p = "session" /\ op'[i].pc = "service"
      /\ op[i].pc = "service" => p = "service"
  BY <1>4 DEF BulkNext
<1>6. ASSUME NEW t \in Token, <<i, t>> \in doomed' PROVE Settled(i, t)'
  <2>1. CASE tok'[t] = Gone
    BY <2>1 DEF Settled
  <2>2. CASE tok'[t] # Gone
    <3>1. t \notin D /\ tok'[t] = tok[t]
      BY <1>1, <1>3, <2>2 DEF Delete
    <3>2. Exists(t)' <=> Exists(t)
      BY <3>1 DEF Exists
    <3>3. CASE <<i, t>> \in doomed
      <4>1. Awaits(i, t)
        BY <2>2, <3>1, <3>3 DEF RevokedInv, DoomedOK, Settled
      <4>2. /\ Exists(t) /\ op[i].pc = "session" /\ tok[t].org = o
            /\ tok[t].purpose = "service"
        BY <1>1, <1>4, <1>5, <3>1, <4>1 DEF Awaits
      <4>3. /\ op'[i].job.kind = "bulk" /\ op'[i].pc = "service" /\ Exists(t)'
            /\ tok'[t].org = op'[i].job.org /\ tok'[t].purpose = "service"
        BY <1>4, <1>5, <3>1, <3>2, <4>2
      <4>4. Awaits(i, t)'
        BY <4>3 DEF Awaits
      <4> QED
        BY <4>4 DEF Settled
    <3>4. CASE t \in T
      <4>1. Exists(t) /\ op[i].pc = "start" /\ tok[t].org = o /\ tok[t].purpose # "api"
        BY <1>1, <1>2, <1>5, <3>1, <3>4
      <4>2. tok[t].purpose \in {"session", "service"}
        BY <4>1, GoneIsNoRow DEF RevokedInv, RowsOK, RowOK, Exists, Unborn, Purposes
      <4>3. /\ op'[i].job.kind = "bulk" /\ op'[i].pc = "session" /\ Exists(t)'
            /\ tok'[t].org = op'[i].job.org /\ tok'[t].purpose \in {"session", "service"}
        BY <1>4, <1>5, <3>1, <3>2, <4>1, <4>2
      <4>4. Awaits(i, t)'
        BY <4>3 DEF Awaits
      <4> QED
        BY <4>4 DEF Settled
    <3> QED
      BY <1>2, <1>6, <3>3, <3>4
  <2> QED
    BY <2>1, <2>2
<1> QED
  BY <1>2, <1>3, <1>6, StepSettles

LEMMA RevokedStep ==
  ASSUME AccountsInv, RevokedInv, [AccountsNext]_accountVars
  PROVE  RevokedInv'
<1>1. CASE UNCHANGED accountVars
  BY <1>1 DEF accountVars, RevokedInv, RowsOK, DoomedOK, RowOK, Settled, Awaits, Exists
<1>2. ASSUME NEW x \in Token, Expire(x) PROVE RevokedInv'
  <2>1. Exists(x) /\ UNCHANGED <<op, doomed>>
    BY <1>2 DEF Expire, Exists
  <2>2. tok[x] = [live |-> tok[x].live, user |-> tok[x].user, purpose |-> tok[x].purpose,
                  org |-> tok[x].org, finite |-> tok[x].finite]
    BY <2>1, GoneIsNoRow DEF RevokedInv, RowsOK, RowOK, Exists, Unborn
  <2>3. PICK row : /\ row = [live |-> "expired", user |-> tok[x].user,
                             purpose |-> tok[x].purpose, org |-> tok[x].org,
                             finite |-> tok[x].finite]
                   /\ tok' = [tok EXCEPT ![x] = row]
    <3>1. tok' = [tok EXCEPT ![x] = [tok[x] EXCEPT !.live = "expired"]]
      BY <1>2 DEF Expire
    <3>2. [tok[x] EXCEPT !.live = "expired"]
            = [live |-> "expired", user |-> tok[x].user, purpose |-> tok[x].purpose,
               org |-> tok[x].org, finite |-> tok[x].finite]
      BY <2>2
    <3> QED
      BY <3>1, <3>2
  <2>4. /\ tok' = [t \in Token |-> tok'[t]]
        /\ \A t \in Token : Kept(t)
    BY <2>1, <2>3, Ages DEF RevokedInv
  <2>5. RowsOK'
    BY <2>4 DEF RowsOK, Kept
  <2>6. \A j \in Op, t \in Token : <<j, t>> \in doomed => Settled(j, t)'
    BY <2>1, <2>4, OthersSettled
  <2> QED
    BY <2>1, <2>5, <2>6 DEF RevokedInv, DoomedOK
<1>3. ASSUME NEW i \in Op, Step(i) PROVE RevokedInv'
  <2>1. OnlyMoves(i)
    BY <1>3, RequestCorrect, LeavingCorrect, JoiningCorrect, CredentialsCorrect
       DEF Step, Correct
  <2> QED
    BY <1>3, <2>1, OrdinaryKeeps, SwitchKeeps, LeavingKeeps, DiscardKeeps, BulkKeeps
       DEF Step
<1> QED
  BY <1>1, <1>2, <1>3 DEF AccountsNext

\* A finished revocation leaves none of the credentials it began with.
THEOREM RevokedAlwaysStays == AccountsSpec => []RevokedStaysRevoked
<1>1. RevokedInv /\ AccountsInv /\ [AccountsNext]_accountVars => RevokedInv'
  BY RevokedStep
<1>2. RevokedInv => RevokedStaysRevoked
  <2> SUFFICES ASSUME RevokedInv, NEW d \in doomed, op[d[1]].pc = "done"
               PROVE  tok[d[2]].live = "gone"
    BY DEF RevokedStaysRevoked
  <2>1. d[1] \in Op /\ d[2] \in Token /\ <<d[1], d[2]>> \in doomed
    BY DEF RevokedInv, DoomedOK
  <2>2. Settled(d[1], d[2])
    BY <2>1 DEF RevokedInv, DoomedOK
  <2> QED
    BY <2>2 DEF Settled, Awaits, Gone
<1> QED
  BY InitRevokedInv, DeactivatedHaveNoRow, <1>1, <1>2, PTL DEF AccountsSpec
=============================================================================
