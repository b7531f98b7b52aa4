--------------------------- MODULE BreakerCluster ---------------------------
(***************************************************************************)
(* Gateway replicas, each with its own CircuitBreaker, the OPTIONAL Redis  *)
(* key that makes a trip visible to peers, and the resilient calls that    *)
(* drive both (the breaker statements of Gateway.complete).                *)
(*                                                                         *)
(* A call is a coroutine: everything between two awaits is one step.  Its  *)
(* program counter names the await it is suspended at:                     *)
(*   peer    peer_open(), after allow() said yes                           *)
(*   wire    runner.chat()                                                 *)
(*   record  _emit_span + record_open(), after on_failure() tripped        *)
(*   sleep   the backoff before the next attempt                           *)
(*   clear   _emit_span + clear_open(), after on_success() closed          *)
(* `via` is the state in which allow() admitted the call.  streak          *)
(* is a history variable: transient failures of the provider seen by the   *)
(* replica since its last success, counted up to Threshold.                *)
(***************************************************************************)
EXTENDS CircuitBreaker, FiniteSets

CONSTANTS Replica, Upstream, Call,
          MaxRetries,      \* same-model retries of a resilient call
          RedisFaults   \* TRUE: a Redis command may fail

ASSUME ClusterAssumption == MaxRetries \in Nat /\ RedisFaults \in BOOLEAN

VARIABLES st,      \* st[r][p]: breaker state of provider p at replica r
          redis,   \* redis[p]: remaining TTL of breaker:open:p; 0 no key, -1 no expiry
          call,    \* call[c]: the coroutine
          streak   \* history: consecutive transient failures

breakerVars == <<st, redis, call, streak>>

\* Mutant: SET without an expiry.
NoTtl == -1

\* ex=max(1, int(reset_seconds))
RedisTtl == IF Reset < 1 THEN 1 ELSE Reset

Pc == {"idle", "peer", "wire", "record", "sleep", "clear"}
CallState == [pc : Pc, rep : Replica, prov : Upstream,
              attempt : 0..MaxRetries, via : {"closed", "half-open"}]

\* Types, with the caps the code promises: failures stop counting at
\* fail_threshold, the shared key lives at most reset_seconds, and no call makes
\* more than MaxRetries + 1 attempts.
TypeOK ==
  /\ st \in [Replica -> [Upstream -> BreakerState]]
  /\ redis \in [Upstream -> 0..RedisTtl]
  /\ call \in [Call -> CallState]
  /\ streak \in [Replica -> [Upstream -> 0..Threshold]]

Idle(r, p) == [pc |-> "idle", rep |-> r, prov |-> p, attempt |-> 0,
               via |-> "closed"]

BreakerInit ==
  /\ st = [r \in Replica |-> [p \in Upstream |-> Closed]]
  /\ redis = [p \in Upstream |-> 0]
  /\ call \in [Call -> {Idle(r, p) : r \in Replica, p \in Upstream}]
  /\ streak = [r \in Replica |-> [p \in Upstream |-> 0]]

StOf(c) == st[call[c].rep][call[c].prov]
SetSt(c, s) == st' = [st EXCEPT ![call[c].rep][call[c].prov] = s]
Goto(c, pc) == call' = [call EXCEPT ![c].pc = pc]
Finish(c) ==
  call' = [call EXCEPT ![c] = Idle(call[c].rep, call[c].prov)]

\* A Redis command either takes effect or, when Redis is down, is swallowed.
BestEffort(effect) ==
  \/ effect
  \/ RedisFaults /\ UNCHANGED redis

-----------------------------------------------------------------------------
\* allow() is TRUE: the call goes on to await peer_open().  (When it is
\* FALSE the call fast-fails with CircuitOpen and touches nothing.)
Admit(c, r, p) ==
  /\ call[c].pc = "idle"
  /\ Allow(st[r][p])
  /\ call' = [call EXCEPT ![c] = [pc |-> "peer", rep |-> r, prov |-> p,
                                  attempt |-> 0, via |-> Snapshot(st[r][p])]]
  /\ UNCHANGED <<st, redis, streak>>

\* peer_open(): the key, seen as absent when Redis fails (fail open).
PeerOpen(c) ==
  /\ call[c].pc = "peer"
  /\ \/ redis[call[c].prov] # 0 /\ Finish(c)
     \/ (redis[call[c].prov] = 0 \/ RedisFaults) /\ Goto(c, "wire")
  /\ UNCHANGED <<st, redis, streak>>

\* The upstream answers: on_success(), and clear_open() if that closed.
Succeed(c) ==
  /\ call[c].pc = "wire"
  /\ SetSt(c, OnSuccess(StOf(c)))
  /\ IF WasOpen(StOf(c)) THEN Goto(c, "clear") ELSE Finish(c)
  /\ streak' = [streak EXCEPT ![call[c].rep][call[c].prov] = 0]
  /\ UNCHANGED redis

ClearOpen(c) ==
  /\ call[c].pc = "clear"
  /\ BestEffort(redis' = [redis EXCEPT ![call[c].prov] = 0])
  /\ Finish(c)
  /\ UNCHANGED <<st, streak>>

\* Same-model retry only with budget left and the breaker allowing, as
\* read now (s is the breaker state the test sees); otherwise stop.
RetryOrStop(c, s) ==
  IF call[c].attempt < MaxRetries /\ Allow(s) THEN Goto(c, "sleep") ELSE Finish(c)

\* A transient failure (429, 5xx, timeout, connection): on_failure().
FailTransient(c) ==
  /\ call[c].pc = "wire"
  /\ SetSt(c, OnFailure(StOf(c)))
  /\ IF Trips(StOf(c)) THEN Goto(c, "record")
                       ELSE RetryOrStop(c, OnFailure(StOf(c)))
  /\ streak' = [streak EXCEPT ![call[c].rep][call[c].prov] =
                  IF @ < Threshold THEN @ + 1 ELSE @]
  /\ UNCHANGED redis

\* record_open(), then the retry test the code evaluates after it.
RecordOpen(c) ==
  /\ call[c].pc = "record"
  /\ BestEffort(redis' = [redis EXCEPT ![call[c].prov] = RedisTtl])
  /\ RetryOrStop(c, StOf(c))
  /\ UNCHANGED <<st, streak>>

\* The backoff ends: the loop goes straight to runner.chat() again.
Retry(c) ==
  /\ call[c].pc = "sleep"
  /\ call' = [call EXCEPT ![c].pc = "wire", ![c].attempt = @ + 1]
  /\ UNCHANGED <<st, redis, streak>>

\* A client error (4xx): never recorded on the breaker.
FailPermanent(c) ==
  /\ call[c].pc = "wire"
  /\ Finish(c)
  /\ UNCHANGED <<st, redis, streak>>

\* A replica dies and restarts with an empty _states; its calls are gone.
Restart(r) ==
  /\ st' = [st EXCEPT ![r] = [p \in Upstream |-> Closed]]
  /\ streak' = [streak EXCEPT ![r] = [p \in Upstream |-> 0]]
  /\ call' = [c \in Call |->
                IF call[c].rep = r
                THEN Idle(r, call[c].prov)
                ELSE call[c]]
  /\ UNCHANGED redis

\* Time passes at every clock, Redis's included.
ClockTick ==
  /\ st' = [r \in Replica |-> [p \in Upstream |-> Elapse(st[r][p])]]
  /\ redis' = [p \in Upstream |-> IF redis[p] > 0 THEN redis[p] - 1 ELSE redis[p]]
  /\ UNCHANGED <<call, streak>>

CallStep(c) ==
  \/ PeerOpen(c) \/ Succeed(c) \/ ClearOpen(c) \/ FailTransient(c)
  \/ RecordOpen(c) \/ Retry(c) \/ FailPermanent(c)

BreakerNext ==
  \/ \E c \in Call, r \in Replica, p \in Upstream : Admit(c, r, p)
  \/ \E c \in Call : CallStep(c)
  \/ \E r \in Replica : Restart(r)
  \/ ClockTick

BreakerSpec == BreakerInit /\ [][BreakerNext]_breakerVars

\* Time does not stop; nothing else is guaranteed to happen.
FairBreakers == BreakerSpec /\ WF_breakerVars(ClockTick)

-----------------------------------------------------------------------------
\* What a breaker state s says of n consecutive transient failures.
Tracks(s, n) ==
  /\ s.mode = "open" <=> n = Threshold
  /\ s.fails = n
  /\ s.mode = "closed" => s.left = 0

\* on_failure / on_success: the breaker of a provider is open exactly when
\* the replica has seen Threshold transient failures with no success in
\* between, however many calls are in flight and however late they end; a
\* closed breaker counts precisely that streak and has no window left.
OpenIffStreak ==
  \A r \in Replica, p \in Upstream : Tracks(st[r][p], streak[r][p])

\* allow: no provider is short-circuited forever by a replica's own breaker:
\* late failures may re-arm the window, but only finitely often before the
\* HALF_OPEN trial is due again.
LocalWindowEnds ==
  \A r \in Replica, p \in Upstream : []<>Allow(st[r][p])

\* record_open: the shared OPEN signal "self-expires": once replicas stop
\* tripping on a provider its key goes away for good, also when the replica
\* that published it died, or closed again before its SET landed, and whatever
\* Redis commands were lost.
SharedOpenExpires ==
  \A p \in Upstream :
    <>[](\A c \in Call : call[c].prov = p => call[c].pc # "record")
      => <>[](redis[p] = 0)

\* No breaker sticks: neither a replica's own OPEN nor the shared one lasts.
NoBreakerSticks == LocalWindowEnds /\ SharedOpenExpires

\* breaker.py: HALF_OPEN "allows one trial": of the calls admitted while the
\* window had elapsed, at most one is on the wire.
OneTrial ==
  \A c, d \in Call :
    /\ call[c].via = "half-open" /\ call[c].pc = "wire"
    /\ call[d].via = "half-open" /\ call[d].pc = "wire"
    /\ call[c].rep = call[d].rep /\ call[c].prov = call[d].prov
    => c = d
=============================================================================
