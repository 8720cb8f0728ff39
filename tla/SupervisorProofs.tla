--------------------------- MODULE SupervisorProofs ---------------------------
(***************************************************************************)
(* What holds of RuntimeSupervisor for every threshold and timeout, with    *)
(* handles that notice the exit of a process and with the one that does not.*)
(***************************************************************************)
EXTENDS Supervisor, TLAPS

\* Every operation leaves a consistent breaker consistent.  In particular the
\* failure count never passes the threshold: record_failure counts only while
\* the breaker is closed, and opens it on reaching the threshold.
LEMMA BreakerConsistent ==
    ASSUME NEW b, Consistent(b)
    PROVE  /\ Consistent(NewBreaker)
           /\ Consistent(AfterAllow(b))
           /\ Consistent(RecordSuccess(b))
           /\ Consistent(RecordFailure(b))
           /\ Consistent(AfterTick(b))
  <1> USE BreakerAssumption
      DEF Consistent, Breaker, NotOpen, MaxFailures, IsOpen, Elapsed
  <1>1. Consistent(NewBreaker) /\ Consistent(RecordSuccess(b))
    BY DEF RecordSuccess, NewBreaker
  <1>2. Consistent(AfterAllow(b))
    BY DEF AfterAllow, TakesProbe
  <1>3. Consistent(RecordFailure(b))
    <2>1. CASE IsOpen(b)
      <3>1. RecordFailure(b) = [consecutive_failures |-> b.consecutive_failures,
                                openFor |-> 0, probe |-> FALSE]
        BY <2>1 DEF RecordFailure
      <3> QED BY <3>1
    <2>2. CASE ~IsOpen(b) /\ b.consecutive_failures + 1 >= FailureThreshold
      <3>1. RecordFailure(b) = [consecutive_failures |-> b.consecutive_failures + 1,
                                openFor |-> 0, probe |-> FALSE]
        BY <2>2 DEF RecordFailure, CountFailure
      <3> QED BY <2>2, <3>1
    <2>3. CASE ~IsOpen(b) /\ ~(b.consecutive_failures + 1 >= FailureThreshold)
      <3>1. RecordFailure(b) =
                [b EXCEPT !.consecutive_failures = b.consecutive_failures + 1]
        BY <2>3 DEF RecordFailure, CountFailure
      <3> QED BY <2>3, <3>1
    <2> QED BY <2>1, <2>2, <2>3
  <1>4. Consistent(AfterTick(b))
    BY DEF AfterTick
  <1> QED BY <1>1, <1>2, <1>3, <1>4

LEMMA TypingInit == Init => TypeOK
  <1>1. Consistent(NewBreaker)
    BY BreakerAssumption
       DEF Consistent, Breaker, NewBreaker, NotOpen, MaxFailures, IsOpen, Elapsed
  <1> QED BY <1>1, SupervisorAssumption DEF Init, TypeOK, Consistent, Processes

\* What a step does to the breaker is one of the operations of CircuitBreaker.
LEMMA BreakerSteps ==
    ASSUME [Next]_vars
    PROVE  breaker' \in {breaker, AfterAllow(breaker), RecordSuccess(breaker),
                         RecordFailure(breaker), AfterTick(breaker)}
  BY DEF Next, Step, vars, Start, Probe, Shutdown, ReportFailure, ShutdownFails,
         ShutdownSucceeds, FoundHealthy, Restart, StartFails, StartSucceeds,
         HandshakeFails, HandshakeSucceeds, Exit, Tick

LEMMA TypingStep == TypeOK /\ [Next]_vars => TypeOK'
  <1> SUFFICES ASSUME TypeOK, [Next]_vars PROVE TypeOK'
    OBVIOUS
  <1>1. Consistent(breaker') /\ breaker' \in Breaker
    BY BreakerSteps, BreakerConsistent DEF TypeOK, Consistent
  <1> USE <1>1, SupervisorAssumption DEF TypeOK, Processes, Return
  <1>2. CASE Start \/ Probe \/ Shutdown
    BY <1>2 DEF Start, Probe, Shutdown
  <1>3. CASE ReportFailure
    BY <1>3 DEF ReportFailure, AddOne
  <1>4. CASE ShutdownFails \/ ShutdownSucceeds
    BY <1>4 DEF ShutdownFails, ShutdownSucceeds
  <1>5. CASE FoundHealthy
    BY <1>5 DEF FoundHealthy
  <1>6. CASE Restart
    BY <1>6 DEF Restart, AddOne
  <1>7. CASE StartFails \/ StartSucceeds
    BY <1>7 DEF StartFails, StartSucceeds
  <1>8. CASE HandshakeFails \/ HandshakeSucceeds
    BY <1>8 DEF HandshakeFails, HandshakeSucceeds
  <1>9. CASE Exit
    BY <1>9 DEF Exit
  <1>10. CASE Tick \/ UNCHANGED vars
    BY <1>10 DEF Tick, vars
  <1> QED
    BY <1>2, <1>3, <1>4, <1>5, <1>6, <1>7, <1>8, <1>9, <1>10 DEF Next, Step

\* The supervisor's breaker stays consistent, and a process that was started
\* and not yet accepted exists only during the handshake.
THEOREM TypeCorrect == SafeSpec => []TypeOK
  BY TypingInit, TypingStep, PTL DEF SafeSpec
-------------------------------------------------------------------------------
\* One more failure, reported to the breaker and to the health counters at once.
LEMMA ReportKeepsPace ==
    ASSUME TypeOK, OpenIsReported, ReportFailure
    PROVE  OpenIsReported'
  <1> DEFINE b == RecordFailure(breaker)
             f == AddOne(health.failure_count)
  <1> USE BreakerAssumption, SupervisorAssumption
  <1>1. /\ breaker' = b
        /\ health'.failure_count = f
        /\ health'.timeout_count \in {health.timeout_count, AddOne(health.timeout_count)}
    BY DEF ReportFailure, TypeOK
  <1>2. /\ breaker.consecutive_failures \in 0 .. MaxFailures
        /\ health.failure_count \in 0 .. MaxCount
        /\ health.timeout_count \in 0 .. MaxCount
    BY DEF TypeOK, Breaker
  <1>3. AddOne(health.timeout_count) <= f /\ health.timeout_count <= f
    BY <1>2 DEF OpenIsReported, AddOne
  <1>4. CASE IsOpen(breaker)
    <2>1. b = [consecutive_failures |-> breaker.consecutive_failures,
               openFor |-> 0, probe |-> FALSE]
      BY <1>4 DEF RecordFailure, TypeOK, Breaker
    <2>2. breaker.consecutive_failures <= f /\ f >= FailureThreshold
      BY <1>2, <1>4 DEF OpenIsReported, AddOne, MaxFailures
    <2> QED BY <1>1, <1>3, <2>1, <2>2 DEF OpenIsReported
  <1>5. CASE ~IsOpen(breaker)
    <2>1. /\ b.consecutive_failures = breaker.consecutive_failures + 1
          /\ IsOpen(b) => b.consecutive_failures >= FailureThreshold
      BY <1>2, <1>5 DEF RecordFailure, CountFailure, TypeOK, Breaker, IsOpen
    <2>2. breaker.consecutive_failures + 1 <= MaxFailures
      BY <1>2, <1>5 DEF TypeOK, Consistent, MaxFailures
    <2>3. breaker.consecutive_failures + 1 <= f
      <3>1. breaker.consecutive_failures + 1 <= MaxCount
        BY <1>2, <2>2 DEF MaxFailures
      <3> QED BY <1>2, <3>1 DEF OpenIsReported, AddOne
    <2>4. b.consecutive_failures <= f /\ (IsOpen(b) => f >= FailureThreshold)
      BY <1>2, <2>1, <2>3 DEF AddOne, IsOpen
    <2> QED BY <1>1, <1>3, <2>4 DEF OpenIsReported, IsOpen
  <1> QED BY <1>4, <1>5

LEMMA ReportedStep == TypeOK /\ OpenIsReported /\ [Next]_vars => OpenIsReported'
  <1> SUFFICES ASSUME TypeOK, OpenIsReported, [Next]_vars PROVE OpenIsReported'
    OBVIOUS
  <1> USE DEF OpenIsReported
  <1>1. CASE ReportFailure
    BY <1>1, ReportKeepsPace
  <1>2. ASSUME NEW b, b \in {breaker, AfterAllow(breaker), RecordSuccess(breaker),
                             AfterTick(breaker)}
        PROVE  /\ b.consecutive_failures <= health.failure_count
               /\ IsOpen(b) => health.failure_count >= FailureThreshold
    <2>1. CASE b = RecordSuccess(breaker)
      BY <2>1 DEF RecordSuccess, NewBreaker, IsOpen, NotOpen, TypeOK
    <2>2. CASE b = AfterAllow(breaker)
      BY <2>2 DEF AfterAllow, IsOpen, NotOpen, TypeOK, Breaker
    <2>3. CASE b = AfterTick(breaker)
      BY <2>3 DEF AfterTick, IsOpen, NotOpen, TypeOK, Breaker
    <2> QED BY <1>2, <2>1, <2>2, <2>3
  <1>3. CASE /\ health'.failure_count = health.failure_count
             /\ health'.timeout_count = health.timeout_count
             /\ breaker' \in {breaker, AfterAllow(breaker), RecordSuccess(breaker),
                              AfterTick(breaker)}
    BY <1>2, <1>3 DEF IsOpen
  <1>4. CASE Start \/ Probe \/ Shutdown \/ ShutdownFails \/ ShutdownSucceeds
    BY <1>3, <1>4 DEF Start, Probe, Shutdown, ShutdownFails, ShutdownSucceeds
  <1>5. CASE FoundHealthy \/ StartFails \/ StartSucceeds
    BY <1>3, <1>5 DEF FoundHealthy, StartFails, StartSucceeds
  <1>6. CASE Restart
    BY <1>3, <1>6 DEF Restart, TypeOK
  <1>7. CASE HandshakeFails \/ HandshakeSucceeds \/ Exit \/ Tick \/ UNCHANGED vars
    BY <1>3, <1>7 DEF HandshakeFails, HandshakeSucceeds, Exit, Tick, vars
  <1> QED BY <1>1, <1>4, <1>5, <1>6, <1>7 DEF Next, Step

\* The breaker never shows more failures than the health counters: no path of
\* the supervisor records a failure with one of them only.
THEOREM OpenMatchesHealth == SafeSpec => []OpenIsReported
  <1>1. Init => OpenIsReported
    BY DEF Init, OpenIsReported, NewBreaker, IsOpen
  <1> QED BY <1>1, TypeCorrect, ReportedStep, PTL DEF SafeSpec
-------------------------------------------------------------------------------
LEMMA ClosingStep ==
    TypeOK /\ [Next]_vars =>
        [IsOpen(breaker) /\ ~IsOpen(breaker') => runtime' # "none"]_vars
  <1> SUFFICES ASSUME TypeOK, [Next]_vars, IsOpen(breaker), ~IsOpen(breaker')
               PROVE  runtime' # "none"
    BY DEF vars
  <1>1. ASSUME NEW b \in {breaker, AfterAllow(breaker), RecordFailure(breaker),
                          AfterTick(breaker)}
        PROVE  IsOpen(b)
    <2> USE DEF TypeOK, Breaker, IsOpen, NotOpen
    <2>1. CASE b = AfterAllow(breaker)
      BY <2>1 DEF AfterAllow
    <2>2. CASE b = RecordFailure(breaker)
      BY <2>2 DEF RecordFailure
    <2>3. CASE b = AfterTick(breaker)
      BY <2>3 DEF AfterTick
    <2> QED BY <2>1, <2>2, <2>3
  <1>2. breaker' \notin {breaker, AfterAllow(breaker), RecordFailure(breaker),
                         AfterTick(breaker)}
    BY <1>1
  <1>3. FoundHealthy \/ HandshakeSucceeds
    BY <1>2
    DEF Next, Step, vars, Start, Probe, Shutdown, ReportFailure, ShutdownFails,
        ShutdownSucceeds, Restart, StartFails, StartSucceeds, HandshakeFails, Exit, Tick
  <1> QED BY <1>3 DEF FoundHealthy, LooksAlive, HandshakeSucceeds, TypeOK

\* An open breaker closes only in a step that leaves a runtime in place: the one
\* that was checked, or the one that has just been handshaken.
THEOREM ClosesOnlyWithRuntime == SafeSpec => ClosesWithRuntime
  BY TypeCorrect, ClosingStep, PTL DEF SafeSpec, ClosesWithRuntime
===============================================================================
