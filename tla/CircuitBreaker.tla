--------------------------- MODULE CircuitBreaker ---------------------------
(***************************************************************************)
(* The per-provider circuit breaker of toto_gateway/breaker.py as          *)
(* operators on the state of ONE provider (class _State).                  *)
(*                                                                         *)
(* The code keeps opened_at and compares clock() - opened_at with          *)
(* reset_seconds.  The model keeps the equivalent countdown: mode is       *)
(* "open" iff opened_at is not None, left is what remains of the OPEN      *)
(* window, so left = 0 says that the window has elapsed.  Time is then     *)
(* unbounded and the state finite.  A provider the breaker has not met yet *)
(* (no entry in the dict _states) is in the state Closed that _st() would  *)
(* create.                                                                 *)
(***************************************************************************)
EXTENDS Integers

CONSTANTS Threshold,  \* fail_threshold: consecutive failures that trip
          Reset       \* reset_seconds, in ticks of the model's clock

ASSUME BreakerAssumption == Threshold \in Nat \ {0} /\ Reset \in Nat

BreakerState ==
  [fails : 0..Threshold, mode : {"closed", "open"}, left : 0..Reset]

Closed == [fails |-> 0, mode |-> "closed", left |-> 0]

\* allow(): CLOSED, or the reset window has elapsed (HALF_OPEN).
Allow(s) == s.mode = "closed" \/ s.left = 0

\* Mutant: a success closes the breaker but keeps the failure count.
OnSuccessKeepsCount(s) == [fails |-> s.fails, mode |-> "closed", left |-> 0]

\* on_success(): the new state; the code returns WasOpen(s).
OnSuccess(s) == Closed
WasOpen(s) == s.mode = "open"

\* on_failure(): the new state; the code returns Trips(s), TRUE exactly on
\* the CLOSED -> OPEN edge.  A failure of an open breaker re-arms the window.
Trips(s) == s.mode = "closed" /\ s.fails + 1 >= Threshold
OnFailure(s) ==
  CASE s.mode = "open" -> [fails |-> s.fails, mode |-> "open", left |-> Reset]
    [] Trips(s)        -> [fails |-> s.fails + 1, mode |-> "open", left |-> Reset]
    [] OTHER           -> [fails |-> s.fails + 1, mode |-> "closed", left |-> 0]

\* One tick of the clock that allow() and is_open() read.
Elapse(s) ==
  [fails |-> s.fails, mode |-> s.mode,
   left  |-> IF s.left > 0 THEN s.left - 1 ELSE 0]

\* snapshot(): the state the admin health route reports.
Snapshot(s) ==
  IF s.mode = "closed" THEN "closed" ELSE IF s.left > 0 THEN "open" ELSE "half-open"

=============================================================================
