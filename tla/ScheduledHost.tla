----------------------------- MODULE ScheduledHost -----------------------------
(***************************************************************************)
(* ScheduledPluginHost of crates/plugin-host/src/scheduler.rs: threads call *)
(* invoke, one worker thread sends the queued requests to the plugin one at *)
(* a time, and both sides share a circuit breaker behind a mutex.           *)
(*                                                                         *)
(* A call is one execution of invoke.  Its steps are the points where it    *)
(* touches state other threads see: the request-id counter, the breaker,    *)
(* the bounded queue, its private response channel and, when it times out,  *)
(* the breaker again.  Everything may happen between two of them.  The      *)
(* worker releases the breaker's mutex before it answers, so recording a    *)
(* result and delivering it are two steps too.                              *)
(*                                                                         *)
(* The transport is code the host is given: it may answer with anything, it *)
(* may panic (which ends the worker thread), and it may never return.       *)
(***************************************************************************)
EXTENDS Integers, Sequences, FiniteSets, CircuitBreaker, Queues

CONSTANTS
    Calls,            \* the calls of invoke, each made once
    NoCall,           \* the worker's item when it has none
    MaxQueueDepth,    \* config.max_queue_depth; 0 makes the channel a rendezvous
    RequestTimeout,   \* config.request_timeout, in clock ticks
    TransportKinds,   \* what the transport is taken to return, of ResultKinds
    MayMisaddress,    \* whether it may answer with the id of another request
    MayPanic          \* whether it may panic

\* The variants of Result<ProtocolMessage, PluginHostError> the host tells apart.
ResultKinds == {"RpcResponse", "Error", "OtherMessage", "Err"}

ASSUME HostAssumption ==
    /\ NoCall \notin Calls
    /\ IsFiniteSet(Calls)
    /\ MaxQueueDepth \in Nat
    /\ RequestTimeout \in Nat
    /\ TransportKinds \subseteq ResultKinds
    /\ MayMisaddress \in BOOLEAN
    /\ MayPanic \in BOOLEAN

VARIABLES
    breaker,       \* Arc<Mutex<CircuitBreaker>>
    nextId,        \* Arc<AtomicU64>, the next request id
    pc,            \* where each call is in invoke
    id,            \* the request id of each call, 0 before it has one
    waited,        \* the ticks each call has spent in recv_timeout, 0 outside it
    outcome,       \* what each call returned
    reply,         \* what the worker sent on each call's response channel
    queue,         \* the sync_channel: the calls whose WorkItem is in it
    workerPc,      \* where the worker thread is
    workerItem,    \* the call whose WorkItem the worker holds
    result         \* what transport.send returned for that item

callerVars == <<nextId, pc, id, waited, outcome>>
workerVars == <<reply, workerPc, workerItem, result>>
vars == <<breaker, callerVars, queue, workerVars>>

Results == [kind : ResultKinds, id : Nat]
NoResult == [kind |-> "none", id |-> 0]

CallPcs == {"idle", "started", "admitted", "waiting", "expired", "done"}
WorkerPcs == {"recv", "send", "record", "reply", "dead"}
Rejections == {"CircuitOpen", "Overloaded", "WorkerGone"}
Answers == {"Ok", "UnexpectedRequestId", "Framework", "UnexpectedMessage", "Transport"}

TypeOK ==
    /\ breaker \in Breaker
    /\ nextId \in Nat \ {0}
    /\ pc \in [Calls -> CallPcs]
    /\ id \in [Calls -> Nat]
    /\ waited \in [Calls -> 0 .. RequestTimeout]
    /\ outcome \in [Calls -> {"none", "Timeout"} \cup Rejections \cup Answers]
    /\ reply \in [Calls -> Results \cup {NoResult}]
    /\ queue \in Seq(Calls)
    /\ workerPc \in WorkerPcs
    /\ workerItem \in Calls \cup {NoCall}
    /\ result \in Results \cup {NoResult}

Init ==
    /\ breaker = NewBreaker
    /\ nextId = 1
    /\ pc = [c \in Calls |-> "idle"]
    /\ id = [c \in Calls |-> 0]
    /\ waited = [c \in Calls |-> 0]
    /\ outcome = [c \in Calls |-> "none"]
    /\ reply = [c \in Calls |-> NoResult]
    /\ queue = <<>>
    /\ workerPc = "recv"
    /\ workerItem = NoCall
    /\ result = NoResult

-------------------------------------------------------------------------------
(***************************************************************************)
(* The calling threads.                                                     *)
(***************************************************************************)
Finish(c, o) ==
    /\ pc' = [pc EXCEPT ![c] = "done"]
    /\ outcome' = [outcome EXCEPT ![c] = o]

\* next_request_id.fetch_add, then the request is encoded.  A request that does
\* not encode returns here with nothing but the id used up.
Start(c) ==
    /\ pc[c] = "idle"
    /\ id' = [id EXCEPT ![c] = nextId]
    /\ nextId' = nextId + 1
    /\ pc' = [pc EXCEPT ![c] = "started"]
    /\ UNCHANGED <<breaker, waited, outcome, queue, workerVars>>

\* The breaker's verdict, under its mutex.
Admit(c) ==
    /\ pc[c] = "started"
    /\ \/ /\ Allows(breaker)
          /\ pc' = [pc EXCEPT ![c] = "admitted"]
          /\ UNCHANGED outcome
       \/ /\ ~Allows(breaker)
          /\ Finish(c, "CircuitOpen")
    /\ breaker' = AfterAllow(breaker)
    /\ UNCHANGED <<nextId, id, waited, queue, workerVars>>

(***************************************************************************)
(* try_send.  A channel of depth 0 takes an item only while the worker is   *)
(* blocked in recv; the worker may also be idle and not have got there, so  *)
(* both outcomes are possible then.                                         *)
(***************************************************************************)
HasRoom ==
    IF MaxQueueDepth = 0
    THEN workerPc = "recv" /\ queue = <<>>
    ELSE Len(queue) < MaxQueueDepth

IsFull == Len(queue) >= MaxQueueDepth

Enqueue(c) ==
    /\ pc[c] = "admitted"
    /\ workerPc # "dead"
    /\ HasRoom
    /\ queue' = Append(queue, c)
    /\ pc' = [pc EXCEPT ![c] = "waiting"]
    /\ UNCHANGED <<breaker, nextId, id, waited, outcome, workerVars>>

\* Faulty variant: a full queue counts as a failure of the plugin.
OverloadAsFailure(c) ==
    /\ pc[c] = "admitted"
    /\ workerPc # "dead"
    /\ IsFull
    /\ breaker' = RecordFailure(breaker)
    /\ Finish(c, "Overloaded")
    /\ UNCHANGED <<nextId, id, waited, queue, workerVars>>

\* Neither rejection tells the breaker, whose probe slot this call may hold.
Overload(c) ==
    /\ pc[c] = "admitted"
    /\ workerPc # "dead"
    /\ IsFull
    /\ Finish(c, "Overloaded")
    /\ UNCHANGED <<breaker, nextId, id, waited, queue, workerVars>>

FindWorkerGone(c) ==
    /\ pc[c] = "admitted"
    /\ workerPc = "dead"
    /\ Finish(c, "WorkerGone")
    /\ UNCHANGED <<breaker, nextId, id, waited, queue, workerVars>>

\* Faulty variant: trusts the channel and does not compare the ids.
DecodeAnyId(ownId, r) ==
    CASE r.kind = "RpcResponse"  -> "Ok"
      [] r.kind = "Error"        -> "Framework"
      [] r.kind = "OtherMessage" -> "UnexpectedMessage"
      [] OTHER                   -> "Transport"

\* The `?` on the received result, then decode_response_message.  "Ok" stands
\* for a payload that does not decode, too: that is between plugin and caller.
Decode(ownId, r) ==
    CASE r.kind = "Err"                           -> "Transport"
      [] r.kind = "OtherMessage"                  -> "UnexpectedMessage"
      [] r.kind \in {"RpcResponse", "Error"} /\ r.id # ownId -> "UnexpectedRequestId"
      [] r.kind = "RpcResponse" /\ r.id = ownId   -> "Ok"
      [] r.kind = "Error" /\ r.id = ownId         -> "Framework"

Receive(c) ==
    /\ pc[c] = "waiting"
    /\ reply[c] # NoResult
    /\ Finish(c, Decode(id[c], reply[c]))
    /\ waited' = [waited EXCEPT ![c] = 0]
    /\ UNCHANGED <<breaker, nextId, id, queue, workerVars>>

\* Every WorkItem, and with it its response_tx, died with the worker.
SenderDropped == workerPc = "dead"

\* Faulty variant: recv, which has no deadline.
ExpireWhenDropped(c) ==
    /\ pc[c] = "waiting"
    /\ reply[c] = NoResult
    /\ SenderDropped
    /\ pc' = [pc EXCEPT ![c] = "expired"]
    /\ waited' = [waited EXCEPT ![c] = 0]
    /\ UNCHANGED <<breaker, nextId, id, outcome, queue, workerVars>>

\* recv_timeout fails: the time is up, or the sender was dropped.
Expire(c) ==
    /\ pc[c] = "waiting"
    /\ reply[c] = NoResult
    /\ waited[c] = RequestTimeout \/ SenderDropped
    /\ pc' = [pc EXCEPT ![c] = "expired"]
    /\ waited' = [waited EXCEPT ![c] = 0]
    /\ UNCHANGED <<breaker, nextId, id, outcome, queue, workerVars>>

\* The failure is recorded once the breaker's mutex is free.
RecordTimeout(c) ==
    /\ pc[c] = "expired"
    /\ breaker' = RecordFailure(breaker)
    /\ Finish(c, "Timeout")
    /\ UNCHANGED <<nextId, id, waited, queue, workerVars>>

-------------------------------------------------------------------------------
(***************************************************************************)
(* The worker thread.  It never looks at the breaker before it sends, and   *)
(* it does not know that a caller has given up.                             *)
(***************************************************************************)
Take ==
    /\ workerPc = "recv"
    /\ queue # <<>>
    /\ workerItem' = Head(queue)
    /\ queue' = Tail(queue)
    /\ workerPc' = "send"
    /\ UNCHANGED <<breaker, callerVars, reply, result>>

\* transport.send returns: an answer with the request's id or another one
\* that was handed out, or something that has no request id.
TransportResults ==
    {r \in [kind : TransportKinds, id : 1 .. nextId - 1] :
        ~MayMisaddress \/ r.kind \in {"OtherMessage", "Err"} => r.id = id[workerItem]}

TransportReturns ==
    /\ workerPc = "send"
    /\ result' \in TransportResults
    /\ workerPc' = "record"
    /\ UNCHANGED <<breaker, callerVars, queue, reply, workerItem>>

\* transport.send panics: the worker unwinds and drops its item and the queue.
TransportPanics ==
    /\ MayPanic
    /\ workerPc = "send"
    /\ workerPc' = "dead"
    /\ workerItem' = NoCall
    /\ queue' = <<>>
    /\ UNCHANGED <<breaker, callerVars, reply, result>>

\* Only an RpcResponse, whatever its id, counts as a success.
RecordResult ==
    /\ workerPc = "record"
    /\ breaker' = IF result.kind = "RpcResponse"
                  THEN RecordSuccess(breaker)
                  ELSE RecordFailure(breaker)
    /\ workerPc' = "reply"
    /\ UNCHANGED <<callerVars, queue, reply, workerItem, result>>

\* Faulty variant: a failed send goes straight back to recv.
ReplyOnSuccess ==
    /\ workerPc = "reply"
    /\ reply' = IF result.kind = "RpcResponse"
                THEN [reply EXCEPT ![workerItem] = result]
                ELSE reply
    /\ workerPc' = "recv"
    /\ workerItem' = NoCall
    /\ result' = NoResult
    /\ UNCHANGED <<breaker, callerVars, queue>>

\* response_tx.send; it makes no difference whether anybody still listens.
Reply ==
    /\ workerPc = "reply"
    /\ reply' = [reply EXCEPT ![workerItem] = result]
    /\ workerPc' = "recv"
    /\ workerItem' = NoCall
    /\ result' = NoResult
    /\ UNCHANGED <<breaker, callerVars, queue>>

-------------------------------------------------------------------------------
(***************************************************************************)
(* Time passes for the breaker and for the calls in recv_timeout.           *)
(***************************************************************************)
Tick ==
    /\ breaker' = AfterTick(breaker)
    /\ waited' = [c \in Calls |->
                     IF pc[c] = "waiting" /\ waited[c] < RequestTimeout
                     THEN waited[c] + 1
                     ELSE waited[c]]
    /\ <<breaker, waited>>' # <<breaker, waited>>
    /\ UNCHANGED <<nextId, pc, id, outcome, queue, workerVars>>

Call(c) ==
    \/ Start(c)
    \/ Admit(c)
    \/ Enqueue(c)
    \/ Overload(c)
    \/ FindWorkerGone(c)
    \/ Receive(c)
    \/ Expire(c)
    \/ RecordTimeout(c)

Worker == Take \/ RecordResult \/ Reply

Transport == TransportReturns \/ TransportPanics

Next == (\E c \in Calls : Call(c)) \/ Worker \/ Transport \/ Tick

SafeSpec == Init /\ [][Next]_vars

(***************************************************************************)
(* Threads that can run do run and time passes.  A call need not be made,   *)
(* and the transport need not ever return: send has no deadline.            *)
(***************************************************************************)
Fairness ==
    /\ \A c \in Calls : WF_vars(Call(c) /\ pc[c] # "idle")
    /\ WF_vars(Worker)
    /\ WF_vars(Tick)

Spec == SafeSpec /\ Fairness

-------------------------------------------------------------------------------
(***************************************************************************)
(* Properties.                                                              *)
(***************************************************************************)
\* The worker holds c's item and has not told the breaker how it went.
InTransport(c) == workerItem = c /\ workerPc \in {"send", "record"}

InQueue(c) == Holds(queue, c)

(***************************************************************************)
(* While a half-open probe is in flight, something on its way will free the *)
(* slot: a call that was admitted and has not reached the queue, an item in *)
(* the queue, or the item at the transport.  Otherwise allow_request would  *)
(* turn every later call away for good (allow_request never frees the slot; *)
(* the Overloaded return of invoke does not free it either, and relies on   *)
(* the items that fill the queue to do so).  A dead worker is excused, and  *)
(* so is a rendezvous channel, where a full channel need not hold an item.  *)
(***************************************************************************)
ProbeHasOwner ==
    breaker.probe /\ workerPc # "dead" /\ MaxQueueDepth > 0 =>
        \E c \in Calls : pc[c] = "admitted" \/ InQueue(c) \/ InTransport(c)

(***************************************************************************)
(* A call that waits will hear from the worker unless the worker dies: its  *)
(* item is queued or with the worker until its answer is on the channel.    *)
(* Nothing is dropped between try_send, recv and response_tx.send.          *)
(***************************************************************************)
NoCallIsLost ==
    \A c \in Calls :
        pc[c] = "waiting" /\ reply[c] = NoResult /\ workerPc # "dead"
            => InQueue(c) \/ workerItem = c

(***************************************************************************)
(* A result is returned to the call it was meant for: a call ends Ok or     *)
(* with a framework error only on a message that carries its own id, and no *)
(* other call ever has that id.                                             *)
(***************************************************************************)
OwnAnswer ==
    \A c \in Calls :
        outcome[c] \in {"Ok", "Framework"} =>
            /\ reply[c].id = id[c]
            /\ \A d \in Calls \ {c} : id[d] # id[c]

\* The calls that recorded a timeout, and those whose result the worker
\* recorded as a failure.
TimedOut == {c \in Calls : outcome[c] = "Timeout"}
Failed ==
    {c \in Calls :
        \/ reply[c].kind \notin {"none", "RpcResponse"}
        \/ workerItem = c /\ workerPc = "reply" /\ result.kind # "RpcResponse"}

(***************************************************************************)
(* The breaker counts nothing but those: it can only be open when that many *)
(* timeouts and failures were recorded.  One call may count for both.       *)
(***************************************************************************)
FailuresAreRecorded ==
    breaker.consecutive_failures <= Cardinality(TimedOut) + Cardinality(Failed)

(***************************************************************************)
(* The promises of CallService.  An answer is given when the worker sends   *)
(* it on the response channel.                                              *)
(***************************************************************************)
Status ==
    [c \in Calls |->
        CASE pc[c] = "idle" -> "idle"
          [] pc[c] = "done" -> outcome[c]
          [] OTHER          -> "running"]

Answered ==
    [c \in Calls |->
        IF reply[c] = NoResult THEN "none" ELSE Decode(id[c], reply[c])]

Service == INSTANCE CallService WITH status <- Status, answer <- Answered

(***************************************************************************)
(* Every call returns exactly once, a rejected call never reaches the       *)
(* plugin, and a call returns what the plugin answered to it or times out:  *)
(* even when the transport hangs or panics.                                 *)
(***************************************************************************)
ServiceHolds == Service!Spec

(***************************************************************************)
(* As long as the worker keeps coming back to its loop, a half-open probe   *)
(* is settled one way or the other, so the breaker does not stay half open. *)
(***************************************************************************)
ProbeIsSettled ==
    MaxQueueDepth > 0 /\ []<>(workerPc = "recv") => (breaker.probe ~> ~breaker.probe)
===============================================================================
