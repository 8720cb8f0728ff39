--------------------------- MODULE ActivationProofs ---------------------------
(***************************************************************************)
(* What holds of ActivationManager for every set of plugins, every backoff  *)
(* and every idle timeout.                                                  *)
(***************************************************************************)
EXTENDS Activation, TLAPS

\* Plugins are visited one at a time.
LEMMA OneIsVisited ==
    ASSUME NEW ms, NEW p \in Plugins, NEW q \in Plugins, Visits(ms, p), Visits(ms, q)
    PROVE  p = q
  BY ActivationAssumption DEF Visits

\* Saturation stays within its bound.
LEMMA AtMostBounds ==
    ASSUME NEW n \in Nat, NEW bound \in Nat
    PROVE  AtMost(n, bound) \in 0 .. bound
  BY DEF AtMost

\* Every entry the code writes is one of Entries: shutting down, failing or
\* succeeding to initialise, use, and the passing of time.
LEMMA EntriesStay ==
    ASSUME NEW e \in Entries, NEW n \in Nat
    PROVE  /\ [e EXCEPT !.idleFor = 0] \in Entries
           /\ [status |-> "Ready", runtime_active |-> TRUE, retryIn |-> Never,
               idleFor |-> AtMost(n, IdleTimeout)] \in Entries
           /\ [status |-> "Unhealthy", runtime_active |-> FALSE,
               retryIn |-> RetryBackoff - AtMost(n, RetryBackoff),
               idleFor |-> e.idleFor] \in Entries
           /\ [status |-> "Inactive", runtime_active |-> FALSE, retryIn |-> Never,
               idleFor |-> e.idleFor] \in Entries
           /\ [status |-> e.status, runtime_active |-> e.runtime_active,
               retryIn |-> IF e.retryIn > 0 THEN e.retryIn - 1 ELSE e.retryIn,
               idleFor |-> Later(e.idleFor, IdleTimeout)] \in Entries
  <1> USE ActivationAssumption DEF Entries, Never
  <1>1. [e EXCEPT !.idleFor = 0] \in Entries
    OBVIOUS
  <1>2. [status |-> "Ready", runtime_active |-> TRUE, retryIn |-> Never,
         idleFor |-> AtMost(n, IdleTimeout)] \in Entries
    BY DEF AtMost
  <1>3. [status |-> "Unhealthy", runtime_active |-> FALSE,
         retryIn |-> RetryBackoff - AtMost(n, RetryBackoff),
         idleFor |-> e.idleFor] \in Entries
    BY DEF AtMost
  <1>4. [status |-> "Inactive", runtime_active |-> FALSE, retryIn |-> Never,
         idleFor |-> e.idleFor] \in Entries
    OBVIOUS
  <1>5. [status |-> e.status, runtime_active |-> e.runtime_active,
         retryIn |-> IF e.retryIn > 0 THEN e.retryIn - 1 ELSE e.retryIn,
         idleFor |-> Later(e.idleFor, IdleTimeout)] \in Entries
    BY DEF Later, AtMost
  <1> QED BY <1>1, <1>2, <1>3, <1>4, <1>5
-------------------------------------------------------------------------------
\* Only ensure_active starts a runtime, and it does so for some plugin.
Typing == TypeOK /\ (booting => method \in Activating /\ todo # {})

LEMMA TypingInit == Init => Typing
  <1>1. NewEntry \in Entries
    BY ActivationAssumption DEF NewEntry, Entries, Never
  <1>2. 0 \in 0 .. Horizon
    BY ActivationAssumption DEF Horizon
  <1> QED BY <1>1, <1>2 DEF Init, Typing, TypeOK

LEMMA TypingStep == Typing /\ [Next]_vars => Typing'
  <1> SUFFICES ASSUME Typing, [Next]_vars PROVE Typing'
    OBVIOUS
  <1>a. Horizon \in Nat /\ 0 \in 0 .. Horizon
    BY ActivationAssumption DEF Horizon
  <1>b. /\ entry \in [Plugins -> Entries]
        /\ elapsed \in Nat
        /\ \A p \in Plugins : entry[p] \in Entries
    BY <1>a DEF Typing, TypeOK
  <1> USE DEF Typing, TypeOK, Activating, Stopping
  <1>1. ASSUME NEW m \in Activating \cup Stopping, NEW ps \in SUBSET Plugins, Call(m, ps)
        PROVE  Typing'
    BY <1>1 DEF Call
  <1>2. ASSUME NEW p \in Plugins, EnsureActive(p) \/ Deactivate(p) PROVE Typing'
    BY <1>1, <1>2 DEF EnsureActive, Deactivate
  <1>3. CASE ActivateStartupPlugins \/ EvictIdlePlugins
    <2>1. {p \in Plugins : IsIdle(p)} \subseteq Plugins
      OBVIOUS
    <2> QED BY <1>1, <1>3, <2>1, ActivationAssumption
            DEF ActivateStartupPlugins, EvictIdlePlugins
  <1>4. ASSUME NEW p \in Plugins, RecordActivity(p) PROVE Typing'
    <2>1. [entry[p] EXCEPT !.idleFor = 0] \in Entries
      BY <1>b, EntriesStay
    <2>2. entry' = [entry EXCEPT ![p] = [entry[p] EXCEPT !.idleFor = 0]]
      BY <1>4 DEF RecordActivity
    <2> QED BY <1>4, <2>1, <2>2 DEF RecordActivity
  <1>5. ASSUME NEW p \in Plugins, AlreadyReady(p) \/ BackoffActive(p) \/ Boot(p)
        PROVE  Typing'
    <2>1. CASE AlreadyReady(p)
      BY <2>1 DEF AlreadyReady
    <2>2. CASE BackoffActive(p)
      BY <2>2 DEF BackoffActive, Abort
    <2>3. CASE Boot(p)
      BY <2>3, <1>a DEF Boot, Visits
    <2> QED BY <1>5, <2>1, <2>2, <2>3
  <1>6. ASSUME NEW p \in Plugins, StartFails(p) PROVE Typing'
    BY <1>6, <1>a DEF StartFails, BootEnds, Abort
  <1>7. ASSUME NEW p \in Plugins, InitFails(p) PROVE Typing'
    <2>1. [status |-> "Unhealthy", runtime_active |-> FALSE,
           retryIn |-> RetryBackoff - AtMost(elapsed, RetryBackoff),
           idleFor |-> entry[p].idleFor] \in Entries
      BY <1>b, EntriesStay
    <2>2. entry' \in [Plugins -> Entries]
      BY <1>7, <2>1 DEF InitFails
    <2> QED BY <1>7, <1>a, <2>2 DEF InitFails, BootEnds, Abort
  <1>8. ASSUME NEW p \in Plugins, InitSucceeds(p) PROVE Typing'
    <2>1. [status |-> "Ready", runtime_active |-> TRUE, retryIn |-> Never,
           idleFor |-> AtMost(elapsed, IdleTimeout)] \in Entries
      BY <1>b, EntriesStay
    <2>2. entry' \in [Plugins -> Entries]
      BY <1>8, <2>1 DEF InitSucceeds
    <2> QED BY <1>8, <1>a, <2>2 DEF InitSucceeds, BootEnds
  <1>9. ASSUME NEW p \in Plugins, Stop(p) PROVE Typing'
    <2>1. EntryDeactivated(p) \in [Plugins -> Entries]
      BY <1>b, EntriesStay DEF EntryDeactivated
    <2> QED BY <1>9, <2>1 DEF Stop, ShutdownSucceeds, ShutdownFails, Abort, Visits
  <1>10. CASE Return
    BY <1>10 DEF Return
  <1>11. CASE Tick
    <2>1. \A p \in Plugins : entry'[p] \in Entries
      BY <1>11, <1>b, EntriesStay DEF Tick
    <2>2. AtMost(elapsed + 1, Horizon) \in 0 .. Horizon
      BY <1>a, <1>b, AtMostBounds
    <2> QED BY <1>11, <2>1, <2>2 DEF Tick
  <1>12. CASE UNCHANGED vars
    BY <1>12 DEF vars
  <1> QED
    BY <1>2, <1>3, <1>4, <1>5, <1>6, <1>7, <1>8, <1>9, <1>10, <1>11, <1>12
    DEF Next, Activate

\* Every registry entry keeps its shape: runtime_active exactly while Ready, an
\* instant to retry at exactly while Unhealthy.
THEOREM TypeCorrect == SafeSpec => []TypeOK
  <1>1. Typing => TypeOK
    BY DEF Typing
  <1> QED BY TypingInit, TypingStep, <1>1, PTL DEF SafeSpec
-------------------------------------------------------------------------------
(***************************************************************************)
(* The runtimes and the entries.  The inductive invariant: a runtime that   *)
(* is held belongs to a plugin that is Ready, and a plugin that is being    *)
(* started is not Ready, so the new runtime takes the place of none.        *)
(***************************************************************************)
BootingIsNotReady ==
    booting => \A p \in Plugins : Visits(Activating, p) => entry[p].status # "Ready"

Held == RuntimesAreReady /\ BootingIsNotReady /\ StartupReadiesAll

LEMMA HeldInit == Init => Held
  BY DEF Init, Held, RuntimesAreReady, BootingIsNotReady, StartupReadiesAll

\* What each kind of step does to the status of the plugins.
LEMMA StatusSteps ==
    ASSUME Typing, NEW p \in Plugins, NEW q \in Plugins
    PROVE  /\ RecordActivity(p) \/ Tick => entry'[q].status = entry[q].status
           /\ InitFails(p) \/ ShutdownSucceeds(p) =>
                 (q # p => entry'[q].status = entry[q].status)
           /\ InitSucceeds(p) =>
                 entry'[q].status = IF q = p THEN "Ready" ELSE entry[q].status
  <1> USE DEF Typing, TypeOK
  <1>0. entry[p] \in Entries
    OBVIOUS
  <1>1. ASSUME RecordActivity(p) PROVE entry'[q].status = entry[q].status
    <2>1. [entry[p] EXCEPT !.idleFor = 0].status = entry[p].status
      BY <1>0 DEF Entries
    <2>2. entry' = [entry EXCEPT ![p] = [entry[p] EXCEPT !.idleFor = 0]]
      BY <1>1 DEF RecordActivity
    <2> QED BY <2>1, <2>2
  <1>2. ASSUME InitFails(p), q # p PROVE entry'[q].status = entry[q].status
    BY <1>2 DEF InitFails
  <1>3. ASSUME ShutdownSucceeds(p), q # p PROVE entry'[q].status = entry[q].status
    BY <1>3 DEF ShutdownSucceeds, EntryDeactivated
  <1>4. ASSUME InitSucceeds(p)
        PROVE  entry'[q].status = IF q = p THEN "Ready" ELSE entry[q].status
    BY <1>4 DEF InitSucceeds
  <1>5. ASSUME Tick PROVE entry'[q].status = entry[q].status
    BY <1>5 DEF Tick
  <1> QED BY <1>1, <1>2, <1>3, <1>4, <1>5

LEMMA HeldStep == Typing /\ Held /\ [Next]_vars => Held'
  <1> SUFFICES ASSUME Typing, Held, [Next]_vars PROVE Held'
    OBVIOUS
  <1> USE ActivationAssumption
      DEF Held, RuntimesAreReady, BootingIsNotReady, StartupReadiesAll, Typing, TypeOK,
          Activating, Stopping
  <1>1. ASSUME NEW p \in Plugins, EnsureActive(p) \/ Deactivate(p) PROVE Held'
    <2>1. CASE EnsureActive(p)
      BY <2>1 DEF EnsureActive, Call
    <2>2. CASE Deactivate(p)
      BY <2>2 DEF Deactivate, Call
    <2> QED BY <1>1, <2>1, <2>2
  <1>2. CASE ActivateStartupPlugins \/ EvictIdlePlugins
    <2>1. CASE ActivateStartupPlugins
      BY <2>1 DEF ActivateStartupPlugins, Call
    <2>2. CASE EvictIdlePlugins
      BY <2>2 DEF EvictIdlePlugins, Call
    <2> QED BY <1>2, <2>1, <2>2
  <1>3. ASSUME NEW p \in Plugins, RecordActivity(p) PROVE Held'
    <2>1. \A q \in Plugins : entry'[q].status = entry[q].status
      BY <1>3, StatusSteps
    <2> QED BY <1>3, <2>1 DEF RecordActivity, Visits
  <1>4. ASSUME NEW p \in Plugins, AlreadyReady(p) \/ BackoffActive(p) PROVE Held'
    <2>1. CASE AlreadyReady(p)
      BY <2>1 DEF AlreadyReady
    <2>2. CASE BackoffActive(p)
      BY <2>2 DEF BackoffActive, Abort
    <2> QED BY <1>4, <2>1, <2>2
  <1>5. ASSUME NEW p \in Plugins, Boot(p) PROVE Held'
    <2>1. ASSUME NEW q \in Plugins, Visits(Activating, q)' PROVE q = p
      BY <1>5, <2>1, OneIsVisited DEF Boot, Visits
    <2> QED BY <1>5, <2>1 DEF Boot
  <1>6. ASSUME NEW p \in Plugins, StartFails(p) PROVE Held'
    BY <1>6 DEF StartFails, BootEnds, Abort
  <1>7. ASSUME NEW p \in Plugins, InitFails(p) PROVE Held'
    <2>1. p \notin runtimes
      BY <1>7 DEF InitFails, BootEnds
    <2>2. \A q \in Plugins \ {p} : entry'[q].status = entry[q].status
      BY <1>7, StatusSteps
    <2> QED BY <1>7, <2>1, <2>2 DEF InitFails, BootEnds, Abort
  <1>8. ASSUME NEW p \in Plugins, InitSucceeds(p) PROVE Held'
    <2>1. /\ \A q \in Plugins \ {p} : entry'[q].status = entry[q].status
          /\ entry'[p].status = "Ready"
      BY <1>8, StatusSteps
    <2> QED BY <1>8, <2>1 DEF InitSucceeds, BootEnds
  <1>9. ASSUME NEW p \in Plugins, Stop(p) PROVE Held'
    <2>1. CASE ShutdownSucceeds(p)
      <3>1. \A q \in Plugins \ {p} : entry'[q].status = entry[q].status
        BY <2>1, StatusSteps
      <3> QED BY <2>1, <3>1 DEF ShutdownSucceeds, Visits
    <2>2. CASE ShutdownFails(p)
      BY <2>2 DEF ShutdownFails, Abort, Visits
    <2> QED BY <1>9, <2>1, <2>2 DEF Stop
  <1>10. CASE Return
    BY <1>10 DEF Return, Visits
  <1>11. CASE Tick
    <2>1. \A q \in Plugins : entry'[q].status = entry[q].status
      BY <1>11, StatusSteps
    <2> QED BY <1>11, <2>1 DEF Tick, Visits
  <1>12. CASE UNCHANGED vars
    BY <1>12 DEF vars, Visits
  <1> QED
    BY <1>1, <1>2, <1>3, <1>4, <1>5, <1>6, <1>7, <1>8, <1>9, <1>10, <1>11, <1>12
    DEF Next, Activate

\* The inductive invariant of the three theorems below.
THEOREM RuntimesMatchEntries == SafeSpec => [](Typing /\ Held)
  BY TypingInit, TypingStep, HeldInit, HeldStep, PTL DEF SafeSpec

\* The manager never holds a runtime of a plugin that is not Ready: no failed
\* Init, deactivation or sweep leaves one behind.
THEOREM HeldRuntimesAreReady == SafeSpec => []RuntimesAreReady
  <1>1. Held => RuntimesAreReady
    BY DEF Held
  <1> QED BY RuntimesMatchEntries, <1>1, PTL

\* ensure_active never puts a runtime in the place of one that is still held,
\* although it only looks at the plugin's status.
THEOREM NothingIsReplaced == SafeSpec => []NoRuntimeIsReplaced
  <1>1. Held => NoRuntimeIsReplaced
    BY DEF Held, RuntimesAreReady, BootingIsNotReady, NoRuntimeIsReplaced
  <1> QED BY RuntimesMatchEntries, <1>1, PTL

\* activate_startup_plugins passes over no startup plugin that is not Ready.
THEOREM StartupIsComplete == SafeSpec => []StartupReadiesAll
  <1>1. Held => StartupReadiesAll
    BY DEF Held
  <1> QED BY RuntimesMatchEntries, <1>1, PTL
===============================================================================
