------------------------------ MODULE Supervisor ------------------------------
(***************************************************************************)
(* RuntimeSupervisor of crates/plugin-host/src/supervisor.rs: it holds at   *)
(* most one runtime process of one plugin, restarts it when a probe finds   *)
(* it gone, and asks a circuit breaker before each probe.                   *)
(*                                                                         *)
(* Every method takes &mut self, so one method runs at a time; but starting *)
(* a process, the handshake, a ping and a shutdown are calls out of the     *)
(* supervisor: each may fail, time passes and the process may exit while    *)
(* they run.  A method is therefore a sequence of steps.                    *)
(***************************************************************************)
EXTENDS Integers, CircuitBreaker

CONSTANTS
    Handles,   \* the SupervisorRuntimes that factories make
    MaxCount   \* bound: the health counters stop here (u32 in the code)

ASSUME SupervisorAssumption ==
    /\ Handles \subseteq {"child", "watched"}
    /\ MaxCount \in Nat
    /\ MaxCount >= MaxFailures

(***************************************************************************)
(* "child" is the TokioChildRuntime of the repository: its handshake always *)
(* succeeds, and it is alive as long as the Child has an id, which it has   *)
(* until somebody waits for it; nobody does, so its exit is never noticed.  *)
(* "watched" is a handle that notices, as the one of the tests does.        *)
(***************************************************************************)
VARIABLES
    handle,    \* what the supervisor's factory makes
    breaker,   \* circuit_breaker
    health,    \* the counters of RuntimeHealth
    runtime,   \* the process the supervisor holds
    fresh,     \* the process start_runtime has started and not yet accepted
    method,    \* the method that is running, "none" between two calls
    step       \* the call out of the supervisor that it waits for

vars == <<handle, breaker, health, runtime, fresh, method, step>>

Processes == {"none", "alive", "exited"}

TypeOK ==
    /\ handle \in Handles
    /\ breaker \in Breaker /\ Consistent(breaker)
    /\ health \in [restart_count : 0 .. MaxCount,
                   timeout_count : 0 .. MaxCount,
                   failure_count : 0 .. MaxCount]
    /\ runtime \in Processes
    /\ fresh \in Processes
    /\ method \in {"none", "start", "probe", "shutdown"}
    /\ step \in {"none", "check", "start", "handshake", "shutdown"}
    /\ (method = "none") <=> (step = "none")
    /\ (step = "handshake") <=> (fresh # "none")

Init ==
    /\ handle \in Handles
    /\ breaker = NewBreaker
    /\ health = [restart_count |-> 0, timeout_count |-> 0, failure_count |-> 0]
    /\ runtime = "none"
    /\ fresh = "none"
    /\ method = "none"
    /\ step = "none"

Return == method' = "none" /\ step' = "none"

AddOne(n) == IF n < MaxCount THEN n + 1 ELSE n

-------------------------------------------------------------------------------
(***************************************************************************)
(* The methods.  A probe the breaker refuses changes nothing and has no     *)
(* step here.                                                               *)
(***************************************************************************)
\* start does not ask whether a runtime is already held.
Start ==
    /\ method = "none"
    /\ method' = "start"
    /\ step' = "start"
    /\ UNCHANGED <<handle, breaker, health, runtime, fresh>>

Probe ==
    /\ method = "none"
    /\ Allows(breaker)
    /\ breaker' = AfterAllow(breaker)
    /\ method' = "probe"
    /\ step' = "check"
    /\ UNCHANGED <<handle, health, runtime, fresh>>

Shutdown ==
    /\ method = "none"
    /\ runtime # "none"
    /\ method' = "shutdown"
    /\ step' = "shutdown"
    /\ UNCHANGED <<handle, breaker, health, runtime, fresh>>

\* A failed kill leaves the runtime in place.
ShutdownFails ==
    /\ step = "shutdown"
    /\ Return
    /\ UNCHANGED <<handle, breaker, health, runtime, fresh>>

ShutdownSucceeds ==
    /\ step = "shutdown"
    /\ runtime' = "none"
    /\ Return
    /\ UNCHANGED <<handle, breaker, health, fresh>>

\* Faulty variant: a timeout is reported to the breaker only.
UncountedFailure ==
    /\ method = "none"
    /\ breaker' = RecordFailure(breaker)
    /\ health' = [health EXCEPT !.timeout_count = AddOne(@)]
    /\ UNCHANGED <<handle, runtime, fresh, method, step>>

\* record_failure and record_timeout.
ReportFailure ==
    /\ method = "none"
    /\ breaker' = RecordFailure(breaker)
    /\ \E timeouts \in {health.timeout_count, AddOne(health.timeout_count)} :
          health' = [restart_count |-> health.restart_count,
                     timeout_count |-> timeouts,
                     failure_count |-> AddOne(health.failure_count)]
    /\ UNCHANGED <<handle, runtime, fresh, method, step>>

-------------------------------------------------------------------------------
(***************************************************************************)
(* The steps of probe and start_runtime.                                    *)
(***************************************************************************)
\* Faulty variant: a runtime that is held is taken for alive.
HeldLooksAlive == runtime # "none"

\* is_alive, and the ping of a child, which asks for nothing else.
LooksAlive ==
    runtime = "alive" \/ (runtime = "exited" /\ handle = "child")

FoundHealthy ==
    /\ step = "check"
    /\ LooksAlive
    /\ breaker' = RecordSuccess(breaker)
    /\ Return
    /\ UNCHANGED <<handle, health, runtime, fresh>>

\* There is no runtime, it is not alive, or a ping failed that does more than
\* look.  The old one is dropped, not shut down: a process that was alive goes on
\* by itself.
Restart ==
    /\ step = "check"
    /\ handle = "watched" \/ ~LooksAlive
    /\ health' = [health EXCEPT !.restart_count = AddOne(@)]
    /\ runtime' = "none"
    /\ step' = "start"
    /\ UNCHANGED <<handle, breaker, fresh, method>>

\* Faulty variant: a failed restart is taken for a success.
StartFailureIgnored ==
    /\ step = "start"
    /\ breaker' = IF method = "probe" THEN RecordSuccess(breaker) ELSE breaker
    /\ Return
    /\ UNCHANGED <<handle, health, runtime, fresh>>

\* The `?` leaves probe before anything is recorded: the failure does not
\* count, and the half-open slot that allow_request took stays taken.
StartFails ==
    /\ step = "start"
    /\ Return
    /\ UNCHANGED <<handle, breaker, health, runtime, fresh>>

StartSucceeds ==
    /\ step = "start"
    /\ fresh' = "alive"
    /\ step' = "handshake"
    /\ UNCHANGED <<handle, breaker, health, runtime, method>>

\* The same `?`; the process that was started is dropped.
HandshakeFails ==
    /\ step = "handshake"
    /\ handle = "watched"
    /\ fresh' = "none"
    /\ Return
    /\ UNCHANGED <<handle, breaker, health, runtime>>

HandshakeSucceeds ==
    /\ step = "handshake"
    /\ runtime' = fresh
    /\ fresh' = "none"
    /\ breaker' = IF method = "probe" THEN RecordSuccess(breaker) ELSE breaker
    /\ Return
    /\ UNCHANGED <<handle, health>>

\* A process may exit at any time.
Exit ==
    /\ \/ runtime = "alive" /\ runtime' = "exited" /\ UNCHANGED fresh
       \/ fresh = "alive" /\ fresh' = "exited" /\ UNCHANGED runtime
    /\ UNCHANGED <<handle, breaker, health, method, step>>

Tick ==
    /\ breaker' = AfterTick(breaker)
    /\ breaker' # breaker
    /\ UNCHANGED <<handle, health, runtime, fresh, method, step>>

Step ==
    \/ ShutdownFails \/ ShutdownSucceeds
    \/ FoundHealthy \/ Restart
    \/ StartFails \/ StartSucceeds \/ HandshakeFails \/ HandshakeSucceeds

Next == Start \/ Probe \/ Shutdown \/ ReportFailure \/ Step \/ Exit \/ Tick

SafeSpec == Init /\ [][Next]_vars

(***************************************************************************)
(* Time passes, the calls out of the supervisor return, and the host goes   *)
(* on probing, which is what the supervisor is for: nothing else restarts a *)
(* runtime.                                                                 *)
(***************************************************************************)
Spec == SafeSpec /\ WF_vars(Tick) /\ WF_vars(Step) /\ WF_vars(Probe)

-------------------------------------------------------------------------------
(***************************************************************************)
(* Properties.                                                              *)
(***************************************************************************)
(***************************************************************************)
(* The breaker and the health report agree: the breaker has counted no      *)
(* failure that failure_count does not show, so an open breaker comes with  *)
(* at least as many failures, and every timeout is a failure too.           *)
(***************************************************************************)
OpenIsReported ==
    /\ breaker.consecutive_failures <= health.failure_count
    /\ IsOpen(breaker) => health.failure_count >= FailureThreshold
    /\ health.timeout_count <= health.failure_count

(***************************************************************************)
(* An open breaker only closes with a runtime in place: a probe whose       *)
(* restart failed never closes it, whichever of its steps failed.           *)
(***************************************************************************)
ClosesWithRuntime ==
    [][IsOpen(breaker) /\ ~IsOpen(breaker') => runtime' # "none"]_vars

\* From some point on nothing goes wrong any more, and the host only probes.
Wrong == Exit \/ StartFails \/ HandshakeFails \/ ReportFailure
Calm == <>[][~Wrong /\ ~Start /\ ~Shutdown]_vars

(***************************************************************************)
(* "runtime restart on failed probes" (docs/operations.md:94): once nothing *)
(* goes wrong any more, the plugin runs again and again.  The code does not *)
(* keep this: a half-open probe whose restart failed leaves the probe slot  *)
(* taken, and every later probe is refused.                                 *)
(***************************************************************************)
RestartsResume == Calm => []<>(runtime = "alive")

(***************************************************************************)
(* These are the only things that can keep the plugin down: once nothing    *)
(* goes wrong any more, the plugin runs, or the probe slot stays taken for  *)
(* good, or an exited child is taken for alive for good.                    *)
(***************************************************************************)
OnlySlotOrChildBlocksRestarts ==
    Calm => \/ []<>(runtime = "alive")
            \/ <>[](breaker.probe)
            \/ <>[](handle = "child" /\ runtime = "exited")
===============================================================================
