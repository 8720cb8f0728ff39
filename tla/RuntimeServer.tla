----------------------------- MODULE RuntimeServer -----------------------------
(***************************************************************************)
(* The plugin's runtime process: the socket server of                       *)
(* packages/plugin-runtime/src/socket-server.ts with its dispatcher         *)
(* (dispatcher.ts) and, unless the plugin is serial, its worker pool        *)
(* (worker-pool.ts, request-worker.ts).                                     *)
(*                                                                         *)
(* The server is one event loop.  A data event brings a chunk of frames and *)
(* starts an async function that handles them in turn, awaiting each; the   *)
(* next chunk starts another one beside it.  What is ready to go on without *)
(* waiting for anything (a settled promise, the next frame of a loop) goes  *)
(* on before the next event: Drained says that nothing is.                  *)
(*                                                                         *)
(* withTimeout only gives up waiting: the handler goes on, and what it      *)
(* comes to is kept in result apart from what its request was answered.     *)
(*                                                                         *)
(* Left out: whether an answer can still be written (a write to a socket    *)
(* that is gone changes nothing here), handlers that never yield, and the   *)
(* pool's own timer, which is later than the server's.  The promise that    *)
(* withTimeout derives with finally rejects unhandled when a handler fails; *)
(* process-main.ts listens for that, and the process goes on.               *)
(***************************************************************************)
EXTENDS Integers, Sequences, FiniteSets, Queues

CONSTANTS
    Inits,        \* the requests that call Init
    Calls,        \* the requests that call another method
    Unhandled,    \* frames answered on the spot: bad version, unknown method,
                  \* undecodable payload, control messages
    NoRequest,    \* in the place of a request where there is none
    Workers,      \* the threads of the pool
    HasTimeout,   \* the manifest sets initTimeoutMs and requestTimeoutMs
    Pipelining    \* clients send a request before the last one is answered

Requests == Inits \cup Calls \cup Unhandled

ASSUME ServerAssumption ==
    /\ NoRequest \notin Requests
    /\ Inits \cap Calls = {}
    /\ Inits \cap Unhandled = {}
    /\ Calls \cap Unhandled = {}
    /\ HasTimeout \in BOOLEAN
    /\ Pipelining \in BOOLEAN

VARIABLES
    pooled,       \* createWorkerPoolIfNeeded made a pool; never changes
    server,       \* "up", "closing" (close was called), "exited"
    pc,           \* where each request is in handleEnvelope
    behind,       \* the frame each one waits for in its chunk
    result,       \* what the invocation of each request came to
    outcome,      \* what each request was answered, decided by the race
    snapshot,     \* the Init that configSnapshot of the dispatcher is from, if any
    lastInit,     \* lastInitRequest
    given,        \* task.initRequest of each task of the pool
    tasks,        \* the pool's queue
    worker        \* the pool's threads

dispatchVars == <<snapshot, lastInit>>
poolVars == <<given, tasks, worker>>
vars == <<pooled, server, pc, behind, result, outcome, dispatchVars, poolVars>>

\* A handler returns or throws.  What an Init handler returns may be an outcome ok
\* or, "Declined", an outcome error; for a call, and for a result that cannot be
\* encoded, the difference is in the bytes of the answer only.
Results == {"Returned", "Declined", "Failed"}
Answered == {"Returned", "Declined"}   \* with what the handler returned
Rejections == {"Refused", "NotInitialized"}

NewWorker ==
    [state |-> "new", config |-> NoRequest, task |-> NoRequest, phase |-> "idle"]
BrokenWorker ==
    [state |-> "broken", config |-> NoRequest, task |-> NoRequest, phase |-> "idle"]

TypeOK ==
    /\ pooled \in BOOLEAN
    /\ server \in {"up", "closing", "exited"}
    /\ pc \in [Requests -> {"idle", "queued", "running", "settled", "done"}]
    /\ behind \in [Requests -> Requests \cup {NoRequest}]
    /\ result \in [Requests -> Results \cup {"none"}]
    /\ outcome \in [Requests -> Results \cup Rejections \cup {"Timeout", "none"}]
    /\ snapshot \in Inits \cup {NoRequest}
    /\ lastInit \in Inits \cup {NoRequest}
    /\ given \in [Calls -> Inits \cup {NoRequest}]
    /\ tasks \in Seq(Calls)
    /\ worker \in [Workers ->
          [state  : {"new", "broken", "loaded", "ready"},
           config : Inits \cup {NoRequest},
           task   : Calls \cup {NoRequest},
           phase  : {"idle", "init", "call"}]]
    /\ \A w \in Workers : worker[w].phase = "idle" <=> worker[w].task = NoRequest

Init ==
    /\ pooled \in BOOLEAN
    /\ server = "up"
    /\ pc = [r \in Requests |-> "idle"]
    /\ behind = [r \in Requests |-> NoRequest]
    /\ result = [r \in Requests |-> "none"]
    /\ outcome = [r \in Requests |-> "none"]
    /\ snapshot = NoRequest
    /\ lastInit = NoRequest
    /\ given = [r \in Calls |-> NoRequest]
    /\ tasks = <<>>
    /\ worker = [w \in Workers |-> NewWorker]

-------------------------------------------------------------------------------
(***************************************************************************)
(* The event loop.                                                          *)
(***************************************************************************)
\* The loop over the frames of its chunk has come to r.
IsNext(r) ==
    pc[r] = "queued" /\ (behind[r] # NoRequest => pc[behind[r]] = "done")

Drained == \A r \in Requests : pc[r] # "settled" /\ ~IsNext(r)

\* A chunk of one frame, or of two (bound: no chunk holds more).
Arrive(r, s) ==
    /\ server = "up"
    /\ Drained
    /\ pc[r] = "idle"
    /\ s # NoRequest => s # r /\ pc[s] = "idle"
    /\ Pipelining \/ (s = NoRequest /\ \A q \in Requests : pc[q] \in {"idle", "done"})
    /\ pc' = [q \in Requests |-> IF q \in {r, s} THEN "queued" ELSE pc[q]]
    /\ behind' = [q \in Requests |-> IF q = s THEN r ELSE behind[q]]
    /\ UNCHANGED <<pooled, server, result, outcome, dispatchVars, poolVars>>

-------------------------------------------------------------------------------
(***************************************************************************)
(* handleEnvelope and handleRpcRequest up to the await of the invocation.   *)
(***************************************************************************)
initialized == snapshot # NoRequest

Decide(r, o) ==
    /\ pc' = [pc EXCEPT ![r] = "settled"]
    /\ outcome' = [outcome EXCEPT ![r] = o]

Refuse(r) ==
    /\ IsNext(r)
    /\ r \in Unhandled
    /\ Decide(r, "Refused")
    /\ UNCHANGED <<pooled, server, behind, result, dispatchVars, poolVars>>

\* runtime.initialize, or runtime.invoke when there is no pool: the handler is
\* called at once.
Invoke(r) ==
    /\ IsNext(r)
    /\ r \in Inits \/ (r \in Calls /\ ~pooled /\ initialized)
    /\ pc' = [pc EXCEPT ![r] = "running"]
    /\ UNCHANGED <<pooled, server, behind, result, outcome, dispatchVars, poolVars>>

\* runtime.invoke throws.
FindUninitialized(r) ==
    /\ IsNext(r)
    /\ r \in Calls /\ ~pooled /\ ~initialized
    /\ Decide(r, "NotInitialized")
    /\ UNCHANGED <<pooled, server, behind, result, dispatchVars, poolVars>>

\* workerPool.run: nobody asks whether there has been an Init.
Submit(r) ==
    /\ IsNext(r)
    /\ r \in Calls /\ pooled
    /\ pc' = [pc EXCEPT ![r] = "running"]
    /\ given' = [given EXCEPT ![r] = lastInit]
    /\ tasks' = Append(tasks, r)
    /\ UNCHANGED <<pooled, server, behind, result, outcome, dispatchVars, worker>>

-------------------------------------------------------------------------------
(***************************************************************************)
(* The end of an invocation, and of the race with its timer.                *)
(***************************************************************************)
\* Faulty variant: a late result replaces the timeout.
SettleAlways(r, res) ==
    /\ result' = [result EXCEPT ![r] = res]
    /\ outcome' = [outcome EXCEPT ![r] = res]
    /\ pc' = [pc EXCEPT ![r] = IF pc[r] = "running" THEN "settled" ELSE pc[r]]

\* The first to settle decides the race.
Settle(r, res) ==
    /\ result' = [result EXCEPT ![r] = res]
    /\ outcome' = [outcome EXCEPT ![r] = IF pc[r] = "running" THEN res ELSE outcome[r]]
    /\ pc' = [pc EXCEPT ![r] = IF pc[r] = "running" THEN "settled" ELSE pc[r]]

\* A handler is at work in the server's own thread, awaited or abandoned.
Executing(r) ==
    /\ pc[r] \in {"running", "settled", "done"}
    /\ r \in Inits \/ (r \in Calls /\ ~pooled)
    /\ outcome[r] # "NotInitialized"
    /\ result[r] = "none"

\* It returns or throws.  An Init that returns anything, an error included and
\* however late, makes the dispatcher initialized and replaces its configuration.
HandlerEnds(r, res) ==
    /\ Executing(r)
    /\ res = "Declined" => r \in Inits
    /\ Settle(r, res)
    /\ snapshot' = IF r \in Inits /\ res # "Failed" THEN r ELSE snapshot
    /\ UNCHANGED <<pooled, server, behind, lastInit, poolVars>>

TimeOut(r) ==
    /\ HasTimeout
    /\ Drained
    /\ pc[r] = "running"
    /\ Decide(r, "Timeout")
    /\ UNCHANGED <<pooled, server, behind, result, dispatchVars, poolVars>>

\* Faulty variant: an Init is remembered even if it timed out or threw.
AnswerAnyInit(r) ==
    /\ pc[r] = "settled"
    /\ pc' = [pc EXCEPT ![r] = "done"]
    /\ lastInit' = IF r \in Inits THEN r ELSE lastInit
    /\ UNCHANGED <<pooled, server, behind, result, outcome, snapshot, poolVars>>

\* Faulty variant: a request that failed ends the loop over its chunk.
AnswerOrThrow(r) ==
    /\ pc[r] = "settled"
    /\ pc' = [pc EXCEPT ![r] = "done"]
    /\ lastInit' = IF r \in Inits /\ outcome[r] \in Answered THEN r ELSE lastInit
    /\ behind' = [q \in Requests |->
                     IF behind[q] = r /\ outcome[r] \notin Answered THEN q ELSE behind[q]]
    /\ UNCHANGED <<pooled, server, result, outcome, snapshot, poolVars>>

\* The rest of handleRpcRequest, and the write.  An Init that threw or was too
\* late is not remembered; one that declined is.
Answer(r) ==
    /\ pc[r] = "settled"
    /\ pc' = [pc EXCEPT ![r] = "done"]
    /\ lastInit' = IF r \in Inits /\ outcome[r] \in Answered THEN r ELSE lastInit
    /\ UNCHANGED <<pooled, server, behind, result, outcome, snapshot, poolVars>>

-------------------------------------------------------------------------------
(***************************************************************************)
(* The threads of the pool: runWorkerDispatchTask.  Piscina gives a thread  *)
(* one task at a time; it ends idle threads and starts new ones.            *)
(***************************************************************************)
\* Faulty variant: an idle thread holds on to its task.
IdleWithTask(wk) == [wk EXCEPT !.phase = "idle"]

Idle(wk) ==
    [state |-> wk.state, config |-> wk.config, task |-> NoRequest, phase |-> "idle"]

\* A thread takes a task, and loads the plugin if it has not.  It runs the
\* Init handler first if it has not yet and the task came with a request for it.
Take(w) ==
    /\ worker[w].phase = "idle"
    /\ worker[w].state # "broken"
    /\ tasks # <<>>
    /\ tasks' = Tail(tasks)
    /\ worker' = [worker EXCEPT ![w] =
          [state |-> IF worker[w].state = "new" THEN "loaded" ELSE worker[w].state,
           config |-> worker[w].config,
           task |-> Head(tasks),
           phase |-> IF worker[w].state # "ready" /\ given[Head(tasks)] # NoRequest
                     THEN "init" ELSE "call"]]
    /\ UNCHANGED <<pooled, server, pc, behind, result, outcome, dispatchVars, given>>

\* The import fails.  The thread keeps the rejected promise in workerStates, so
\* every later task fails on it, too.
FailToLoad(w) ==
    /\ Drained
    /\ worker[w].phase = "idle"
    /\ worker[w].state \in {"new", "broken"}
    /\ tasks # <<>>
    /\ tasks' = Tail(tasks)
    /\ worker' = [worker EXCEPT ![w] = BrokenWorker]
    /\ Settle(Head(tasks), "Failed")
    /\ UNCHANGED <<pooled, server, behind, dispatchVars, given>>

\* The Init handler returns, whatever it returns.
InitWorker(w) ==
    /\ worker[w].phase = "init"
    /\ worker' = [worker EXCEPT ![w] =
          [state |-> "ready", config |-> given[worker[w].task],
           task |-> worker[w].task, phase |-> "call"]]
    /\ UNCHANGED <<pooled, server, pc, behind, result, outcome, dispatchVars, given, tasks>>

\* The Init handler throws, and the task fails with it.
FailToInitWorker(w) ==
    /\ Drained
    /\ worker[w].phase = "init"
    /\ worker' = [worker EXCEPT ![w] = Idle(worker[w])]
    /\ Settle(worker[w].task, "Failed")
    /\ UNCHANGED <<pooled, server, behind, dispatchVars, given, tasks>>

FinishTask(w, res) ==
    /\ res # "Declined"
    /\ Drained
    /\ worker[w].phase = "call"
    /\ worker' = [worker EXCEPT ![w] = Idle(worker[w])]
    /\ Settle(worker[w].task, res)
    /\ UNCHANGED <<pooled, server, behind, dispatchVars, given, tasks>>

\* An idle thread ends after its idle timeout, or on an error nobody catches; the
\* next task finds a new one.
Recycle(w) ==
    /\ worker[w].phase = "idle"
    /\ worker[w].state # "new"
    /\ worker' = [worker EXCEPT ![w] = NewWorker]
    /\ UNCHANGED <<pooled, server, pc, behind, result, outcome, dispatchVars, given, tasks>>

-------------------------------------------------------------------------------
(***************************************************************************)
(* close: the sockets are destroyed, so no chunk arrives any more, then the *)
(* pool is, which rejects its tasks, and in the end the process exits.      *)
(* Handlers in the server's own thread are not waited for.                  *)
(***************************************************************************)
Close ==
    /\ server = "up"
    /\ Drained
    /\ server' = "closing"
    /\ UNCHANGED <<pooled, pc, behind, result, outcome, dispatchVars, poolVars>>

AbortQueued ==
    /\ server = "closing"
    /\ tasks # <<>>
    /\ tasks' = Tail(tasks)
    /\ Settle(Head(tasks), "Failed")
    /\ UNCHANGED <<pooled, server, behind, dispatchVars, given, worker>>

AbortRunning(w) ==
    /\ server = "closing"
    /\ worker[w].phase # "idle"
    /\ worker' = [worker EXCEPT ![w] = NewWorker]
    /\ Settle(worker[w].task, "Failed")
    /\ UNCHANGED <<pooled, server, behind, dispatchVars, given, tasks>>

Exit ==
    /\ server = "closing"
    /\ tasks = <<>>
    /\ \A w \in Workers : worker[w].phase = "idle"
    /\ server' = "exited"
    /\ UNCHANGED <<pooled, pc, behind, result, outcome, dispatchVars, poolVars>>

-------------------------------------------------------------------------------
Begin(r) == Refuse(r) \/ Invoke(r) \/ FindUninitialized(r) \/ Submit(r)

Handle(r) ==
    \/ \E s \in Requests \cup {NoRequest} : Arrive(r, s)
    \/ Begin(r)
    \/ \E res \in Results : HandlerEnds(r, res)
    \/ TimeOut(r)
    \/ Answer(r)

Work(w) ==
    \/ Take(w)
    \/ FailToLoad(w)
    \/ InitWorker(w)
    \/ FailToInitWorker(w)
    \/ \E res \in Results : FinishTask(w, res)
    \/ Recycle(w)
    \/ AbortRunning(w)

Next ==
    /\ server # "exited"
    /\ \/ \E r \in Requests : Handle(r)
       \/ \E w \in Workers : Work(w)
       \/ Close
       \/ AbortQueued
       \/ Exit

SafeSpec == Init /\ [][Next]_vars

(***************************************************************************)
(* The event loop goes on with what is ready, and timers fire.  A handler   *)
(* need not end, a thread need not finish, and no chunk has to arrive.      *)
(***************************************************************************)
Spec ==
    /\ SafeSpec
    /\ \A r \in Requests :
          /\ WF_vars(server # "exited" /\ (Begin(r) \/ Answer(r)))
          /\ WF_vars(server # "exited" /\ TimeOut(r))

-------------------------------------------------------------------------------
(***************************************************************************)
(* Properties.                                                              *)
(***************************************************************************)
(***************************************************************************)
(* The threads of the pool are only configured by an Init whose handler     *)
(* returned in time, be it an error.  An Init that was answered with a      *)
(* timeout can still make the dispatcher initialized, but it never reaches a*)
(* thread, neither through lastInitRequest nor through a task submitted     *)
(* while it was running.                                                    *)
(***************************************************************************)
Accepted(i) == i # NoRequest => outcome[i] \in Answered

ConfigWasAccepted ==
    /\ Accepted(lastInit)
    /\ \A r \in Calls : Accepted(given[r])
    /\ \A w \in Workers : Accepted(worker[w].config)

(***************************************************************************)
(* CallService again, as the client of the runtime sees it: a request is    *)
(* answered once, with what its own handler came to, a timeout, or a        *)
(* refusal, after which the plugin has not seen it and never will.          *)
(***************************************************************************)
Status ==
    [r \in Requests |->
        CASE pc[r] \in {"idle", "queued"}     -> "idle"
          [] pc[r] \in {"running", "settled"} -> "running"
          [] pc[r] = "done"                   -> outcome[r]]

Service == INSTANCE CallService
    WITH Calls <- Requests, Answers <- Results, status <- Status, answer <- result

ServiceIsSafe == Service!SafeSpec

(***************************************************************************)
(* Every request that arrives is answered unless the process exits first,   *)
(* even if handlers hang and every thread of the pool with them, and even   *)
(* if it waits behind such a request in its chunk.                          *)
(***************************************************************************)
EveryRequestIsAnswered ==
    HasTimeout =>
        \A r \in Requests : pc[r] # "idle" ~> pc[r] = "done" \/ server = "exited"
===============================================================================
