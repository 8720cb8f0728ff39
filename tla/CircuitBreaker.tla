---------------------------- MODULE CircuitBreaker ----------------------------
(***************************************************************************)
(* The circuit breaker of crates/plugin-host/src/circuit_breaker.rs, as     *)
(* operators on its state.  ScheduledHost and Supervisor both own one.      *)
(*                                                                         *)
(* The code keeps the instant opened_at and compares the current instant    *)
(* with opened_at + reset_timeout.  Nothing else is ever read from it, so   *)
(* the model keeps how long the breaker has been open, counted in ticks and *)
(* saturated at ResetTimeout: openFor = ResetTimeout iff the reset timeout  *)
(* has elapsed.  This keeps the state finite without bounding the clock.    *)
(***************************************************************************)
EXTENDS Integers

CONSTANTS
    FailureThreshold,  \* CircuitBreakerConfig.failure_threshold, a u32
    ResetTimeout       \* CircuitBreakerConfig.reset_timeout, in clock ticks

ASSUME BreakerAssumption ==
    /\ FailureThreshold \in Nat
    /\ ResetTimeout \in Nat

NotOpen == -1          \* opened_at = None

\* record_failure counts before it compares, so a threshold of 0 acts as 1.
MaxFailures == IF FailureThreshold = 0 THEN 1 ELSE FailureThreshold

Breaker ==
    [consecutive_failures : 0 .. MaxFailures,
     openFor              : NotOpen .. ResetTimeout,
     probe                : BOOLEAN]   \* half_open_probe_in_flight

NewBreaker == [consecutive_failures |-> 0, openFor |-> NotOpen, probe |-> FALSE]

IsOpen(b)  == b.openFor # NotOpen          \* opened_at.is_some()
Elapsed(b) == b.openFor >= ResetTimeout    \* now >= opened_at + reset_timeout

\* What the operations below keep true: a closed breaker is short of the
\* threshold, and the probe slot is only taken once the timeout has elapsed.
Consistent(b) ==
    /\ b \in Breaker
    /\ ~IsOpen(b) => b.consecutive_failures < MaxFailures
    /\ b.probe => IsOpen(b) /\ Elapsed(b)

(***************************************************************************)
(* CircuitBreaker::state.  A breaker whose timeout has elapsed is reported  *)
(* as half open only once a probe has been admitted.                        *)
(***************************************************************************)
BreakerState(b) ==
    CASE ~IsOpen(b)                         -> "Closed"
      [] IsOpen(b) /\ Elapsed(b) /\ b.probe -> "HalfOpen"
      [] OTHER                              -> "Open"

(***************************************************************************)
(* allow_request: its answer, and the state it leaves behind.  Only the     *)
(* first request after the timeout changes anything: it takes the probe     *)
(* slot.                                                                    *)
(***************************************************************************)
TakesProbe(b) == IsOpen(b) /\ Elapsed(b) /\ ~b.probe

Allows(b) == ~IsOpen(b) \/ TakesProbe(b)

AfterAllow(b) == IF TakesProbe(b) THEN [b EXCEPT !.probe = TRUE] ELSE b

\* Faulty variant: closes the breaker and leaves the probe slot taken.
SuccessKeepsProbe(b) == [b EXCEPT !.consecutive_failures = 0, !.openFor = NotOpen]
RecordSuccess(b) == NewBreaker

\* The part of record_failure that a closed breaker reaches.
CountFailure(b) ==
    LET failures == b.consecutive_failures + 1
    IN  IF failures >= FailureThreshold
        THEN [consecutive_failures |-> failures, openFor |-> 0, probe |-> FALSE]
        ELSE [b EXCEPT !.consecutive_failures = failures]

\* Faulty variant: the early return of an open breaker keeps the probe slot.
FailureKeepsProbe(b) ==
    IF IsOpen(b) THEN [b EXCEPT !.openFor = 0] ELSE CountFailure(b)

\* Faulty variant: no early return, an open breaker goes on counting.
FailureCountsOn(b) == CountFailure(b)

RecordFailure(b) ==
    IF IsOpen(b) THEN [b EXCEPT !.openFor = 0, !.probe = FALSE] ELSE CountFailure(b)

\* One tick of the clock, as the breaker sees it.
AfterTick(b) ==
    IF IsOpen(b) /\ ~Elapsed(b) THEN [b EXCEPT !.openFor = @ + 1] ELSE b
===============================================================================
