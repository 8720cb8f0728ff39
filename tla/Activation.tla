------------------------------ MODULE Activation ------------------------------
(***************************************************************************)
(* ActivationManager of crates/plugin-host/src/activation.rs and the        *)
(* registry entries it keeps (registry.rs): plugins are started on demand   *)
(* or at host startup, a failed Init puts a plugin in backoff, and a sweep  *)
(* shuts down the runtimes that have been idle.                             *)
(*                                                                         *)
(* Every method takes &mut self, so one method runs at a time; but starting,*)
(* initialising and shutting down a runtime are calls into other processes, *)
(* each may fail, and time passes while they run.  A method is therefore a  *)
(* sequence of steps over the plugins it still has to visit, and the first  *)
(* failure ends it (the `?` of the loops).  A method that is given an       *)
(* unknown plugin id changes nothing and has no step here.                  *)
(*                                                                         *)
(* Instants are kept as distances from the current time, saturated where    *)
(* the code can no longer tell them apart.                                  *)
(***************************************************************************)
EXTENDS Integers

CONSTANTS
    Plugins,         \* the ids in the registry, numbered in BTreeMap key order
    StartupPlugins,  \* those whose activation_mode is Startup
    RetryBackoff,    \* retry_backoff, in clock ticks
    IdleTimeout      \* the idle_timeout the sweeps are given, in clock ticks

ASSUME ActivationAssumption ==
    /\ Plugins \subseteq Nat
    /\ StartupPlugins \subseteq Plugins
    /\ RetryBackoff \in Nat
    /\ IdleTimeout \in Nat

VARIABLES
    entry,      \* the registry entry of each plugin
    runtimes,   \* the keys of active_runtimes
    method,     \* the method that is running, "none" between two calls
    todo,       \* the plugins it has not dealt with yet
    booting,    \* ensure_active is between its checks and the end of Init
    elapsed     \* the ticks since that ensure_active read the clock

vars == <<entry, runtimes, method, todo, booting, elapsed>>

Never == -1     \* an instant that is None

\* Saturation: beyond this nothing that is compared with elapsed changes.
Horizon == IF RetryBackoff > IdleTimeout THEN RetryBackoff ELSE IdleTimeout

AtMost(n, bound) == IF n > bound THEN bound ELSE n

\* A plugin is marked active exactly while it is Ready, and it has an instant
\* to retry at exactly while it is Unhealthy.
Entries ==
    {e \in [status         : {"Inactive", "Ready", "Unhealthy"},
            runtime_active : BOOLEAN,
            retryIn        : Never .. RetryBackoff,   \* until next_retry_at
            idleFor        : Never .. IdleTimeout] :  \* since last_activity_at
        /\ e.runtime_active <=> e.status = "Ready"
        /\ e.retryIn # Never <=> e.status = "Unhealthy"}

Activating == {"ensure", "startup"}
Stopping == {"deactivate", "evict"}

TypeOK ==
    /\ entry \in [Plugins -> Entries]
    /\ runtimes \subseteq Plugins
    /\ method \in {"none"} \cup Activating \cup Stopping
    /\ todo \subseteq Plugins
    /\ booting \in BOOLEAN
    /\ elapsed \in 0 .. Horizon

NewEntry ==
    [status |-> "Inactive", runtime_active |-> FALSE, retryIn |-> Never, idleFor |-> Never]

Init ==
    /\ entry = [p \in Plugins |-> NewEntry]
    /\ runtimes = {}
    /\ method = "none"
    /\ todo = {}
    /\ booting = FALSE
    /\ elapsed = 0

-------------------------------------------------------------------------------
(***************************************************************************)
(* A method is called and takes down which plugins it will visit; it visits *)
(* them in key order and returns when none is left, or at the first failure.*)
(***************************************************************************)
Call(m, ps) ==
    /\ method = "none"
    /\ method' = m
    /\ todo' = ps
    /\ UNCHANGED <<entry, runtimes, booting, elapsed>>

EnsureActive(p) == Call("ensure", {p})
ActivateStartupPlugins == Call("startup", StartupPlugins)
Deactivate(p) == Call("deactivate", {p})

\* The idleness of every plugin is judged by one reading of the clock.
IsIdle(p) ==
    /\ entry[p].runtime_active
    /\ entry[p].idleFor # Never
    /\ entry[p].idleFor >= IdleTimeout

EvictIdlePlugins == Call("evict", {p \in Plugins : IsIdle(p)})

RecordActivity(p) ==
    /\ method = "none"
    /\ entry' = [entry EXCEPT ![p].idleFor = 0]
    /\ UNCHANGED <<runtimes, method, todo, booting, elapsed>>

Visits(methods, p) ==
    /\ method \in methods
    /\ p \in todo
    /\ \A q \in todo : p <= q

Return ==
    /\ method # "none"
    /\ todo = {}
    /\ method' = "none"
    /\ UNCHANGED <<entry, runtimes, todo, booting, elapsed>>

\* The rest of the plugins is not visited.
Abort == method' = "none" /\ todo' = {}

-------------------------------------------------------------------------------
(***************************************************************************)
(* ensure_active.  It goes by the status of the entry alone.                *)
(***************************************************************************)
AlreadyReady(p) ==
    /\ Visits(Activating, p)
    /\ ~booting
    /\ entry[p].status = "Ready"
    /\ todo' = todo \ {p}
    /\ UNCHANGED <<entry, runtimes, method, booting, elapsed>>

\* Faulty variant: a startup plugin in backoff is skipped.
BackoffSkipped(p) ==
    /\ Visits(Activating, p)
    /\ ~booting
    /\ entry[p].status # "Ready"
    /\ entry[p].retryIn > 0
    /\ todo' = todo \ {p}
    /\ UNCHANGED <<entry, runtimes, method, booting, elapsed>>

BackoffActive(p) ==
    /\ Visits(Activating, p)
    /\ ~booting
    /\ entry[p].status # "Ready"
    /\ entry[p].retryIn > 0
    /\ Abort
    /\ UNCHANGED <<entry, runtimes, booting, elapsed>>

\* Faulty variant: no early return for a plugin that is Ready.
BootAnyway(p) ==
    /\ Visits(Activating, p)
    /\ ~booting
    /\ entry[p].retryIn <= 0
    /\ booting' = TRUE
    /\ elapsed' = 0
    /\ UNCHANGED <<entry, runtimes, method, todo>>

\* The checks passed: runtime_factory.start is called, then runtime.init.
Boot(p) ==
    /\ Visits(Activating, p)
    /\ ~booting
    /\ entry[p].status # "Ready"
    /\ entry[p].retryIn <= 0
    /\ booting' = TRUE
    /\ elapsed' = 0
    /\ UNCHANGED <<entry, runtimes, method, todo>>

BootEnds ==
    /\ booting
    /\ booting' = FALSE
    /\ elapsed' = 0

\* No trace is left, not even a backoff.
StartFails(p) ==
    /\ Visits(Activating, p)
    /\ BootEnds
    /\ Abort
    /\ UNCHANGED <<entry, runtimes>>

\* next_retry_at counts from the reading of the clock before the start.
InitFails(p) ==
    /\ Visits(Activating, p)
    /\ BootEnds
    /\ Abort
    /\ entry' = [entry EXCEPT ![p] =
          [status |-> "Unhealthy", runtime_active |-> FALSE,
           retryIn |-> RetryBackoff - AtMost(elapsed, RetryBackoff),
           idleFor |-> entry[p].idleFor]]
    /\ UNCHANGED runtimes

\* So does last_activity_at.
InitSucceeds(p) ==
    /\ Visits(Activating, p)
    /\ BootEnds
    /\ entry' = [entry EXCEPT ![p] =
          [status |-> "Ready", runtime_active |-> TRUE, retryIn |-> Never,
           idleFor |-> AtMost(elapsed, IdleTimeout)]]
    /\ runtimes' = runtimes \cup {p}
    /\ todo' = todo \ {p}
    /\ UNCHANGED method

-------------------------------------------------------------------------------
(***************************************************************************)
(* shutdown_runtime, then deactivate of the registry.  A plugin without a   *)
(* runtime has nothing to shut down, which cannot fail.                     *)
(***************************************************************************)
\* Faulty variant: an entry that is no longer in use stays marked active.
EntryKeepsActive(p) ==
    [entry EXCEPT ![p].status = "Inactive", ![p].retryIn = Never]

EntryDeactivated(p) ==
    [entry EXCEPT ![p] =
        [status |-> "Inactive", runtime_active |-> FALSE, retryIn |-> Never,
         idleFor |-> entry[p].idleFor]]

\* Faulty variant: only the registry is told.
DeactivatesEntryOnly(p) ==
    /\ Visits(Stopping, p)
    /\ entry' = EntryDeactivated(p)
    /\ todo' = todo \ {p}
    /\ UNCHANGED <<runtimes, method, booting, elapsed>>

ShutdownSucceeds(p) ==
    /\ Visits(Stopping, p)
    /\ runtimes' = runtimes \ {p}
    /\ entry' = EntryDeactivated(p)
    /\ todo' = todo \ {p}
    /\ UNCHANGED <<method, booting, elapsed>>

\* Faulty variant: the runtime is only removed once it has been shut down.
ShutdownKeepsRuntime(p) ==
    /\ Visits(Stopping, p)
    /\ p \in runtimes
    /\ Abort
    /\ UNCHANGED <<entry, runtimes, booting, elapsed>>

\* The runtime is removed first, and the entry goes on saying Ready.
ShutdownFails(p) ==
    /\ Visits(Stopping, p)
    /\ p \in runtimes
    /\ runtimes' = runtimes \ {p}
    /\ Abort
    /\ UNCHANGED <<entry, booting, elapsed>>

-------------------------------------------------------------------------------
Later(n, bound) == IF n = Never THEN Never ELSE AtMost(n + 1, bound)

Tick ==
    /\ entry' = [p \in Plugins |->
          [status |-> entry[p].status, runtime_active |-> entry[p].runtime_active,
           retryIn |-> IF entry[p].retryIn > 0 THEN entry[p].retryIn - 1 ELSE entry[p].retryIn,
           idleFor |-> Later(entry[p].idleFor, IdleTimeout)]]
    /\ elapsed' = IF booting THEN AtMost(elapsed + 1, Horizon) ELSE elapsed
    /\ <<entry, elapsed>>' # <<entry, elapsed>>
    /\ UNCHANGED <<runtimes, method, todo, booting>>

Activate(p) ==
    AlreadyReady(p) \/ BackoffActive(p) \/ Boot(p)
        \/ StartFails(p) \/ InitFails(p) \/ InitSucceeds(p)

Stop(p) == ShutdownSucceeds(p) \/ ShutdownFails(p)

Next ==
    \/ \E p \in Plugins :
          \/ EnsureActive(p)
          \/ Deactivate(p)
          \/ RecordActivity(p)
          \/ Activate(p)
          \/ Stop(p)
    \/ ActivateStartupPlugins
    \/ EvictIdlePlugins
    \/ Return
    \/ Tick

SafeSpec == Init /\ [][Next]_vars

\* Time passes.  Nothing makes a host call a method, or a runtime answer.
Spec == SafeSpec /\ WF_vars(Tick)

-------------------------------------------------------------------------------
(***************************************************************************)
(* Properties.                                                              *)
(***************************************************************************)
\* Every runtime the manager holds belongs to a plugin that is Ready, so a
\* later deactivate or sweep can find it; none is left behind by a failure.
RuntimesAreReady == \A p \in runtimes : entry[p].status = "Ready"

(***************************************************************************)
(* active_runtimes.insert never replaces a runtime, which would drop it     *)
(* without a shutdown: while ensure_active starts a plugin, the manager     *)
(* holds no runtime of it.  ensure_active only looks at the status.         *)
(***************************************************************************)
NoRuntimeIsReplaced ==
    booting => \A p \in Plugins : Visits(Activating, p) => p \notin runtimes

(***************************************************************************)
(* activate_startup_plugins returns Ok only when every startup plugin is    *)
(* Ready: those it has passed are, at every point of its loop.              *)
(***************************************************************************)
StartupReadiesAll ==
    method = "startup" => \A p \in StartupPlugins \ todo : entry[p].status = "Ready"

(***************************************************************************)
(* If from some point on no plugin is used or activated and the host goes   *)
(* on sweeping, in the end no plugin is marked active, even when every      *)
(* shutdown fails and ends its sweep: a runtime whose shutdown failed is    *)
(* gone by the next sweep, which then gets past its plugin.                 *)
(***************************************************************************)
GoesQuiet == <>[][\A p \in Plugins : ~RecordActivity(p) /\ ~InitSucceeds(p)]_vars
Sweeping == []<><<EvictIdlePlugins>>_vars
IdleIsEvicted ==
    GoesQuiet /\ Sweeping => <>[](\A p \in Plugins : ~entry[p].runtime_active)
===============================================================================
