----------------------------- MODULE Connection ------------------------------
(* One connection of the socket server, byte by byte: the data handler puts  *)
(* frames together and answers them one after the other while later chunks   *)
(* start handlers of their own, and the metrics count what became of them    *)
(* (packages/plugin-runtime/src/socket-server.ts, protocol.ts, metrics.ts).  *)
(* Init and the thread pool's own state are RuntimeServer's; here a pool has *)
(* one thread and a queue, whose length the metrics report.                  *)
EXTENDS Framing, FiniteSets, SequencesExt, Functions

CONSTANTS
    Requests,      \* the frames the host sends, in this order: a sequence
    PayloadOf,     \* the bytes of each envelope
    Kinds          \* kinds of envelopes considered

ASSUME ConnectionAssumption ==
    /\ Requests \in Seq(Range(Requests))
    /\ PayloadOf \in [Range(Requests) -> Seq(Byte)]
    /\ \A r \in Range(Requests) : FitsHeader(Len(PayloadOf[r]))
    /\ IsInjective(Requests) /\ IsInjective(PayloadOf)
    /\ Kinds \subseteq {"rpc", "ping", "shutdown", "refused", "badPayload",
                        "malformed"}

Ids == Range(Requests)

VARIABLES
    pooled,    \* the server has a worker pool
    kind,      \* kind[r]: what frame r holds
    got,       \* bytes of the stream that have arrived
    buffer,    \* buffer of the data handler
    threw,     \* a data handler rejected on a frame it could not decode
    up,        \* the process runs
    loops,     \* for each data handler at work, the envelopes it has left
    decoded,   \* history: the envelopes decoded, in order
    task,      \* task[r]: the invocation of r
    outcome,   \* outcome[r]: what r came to
    ended,     \* socket.end() was called
    answers,   \* what was written: [id, body]
    counts,    \* RuntimeMetrics.requests, by outcome
    gauge      \* RuntimeMetrics.queueDepth

wire == <<pooled, kind, got, buffer, threw, up, decoded>>
metrics == <<counts, gauge>>
vars == <<wire, loops, task, outcome, ended, answers, metrics>>

Outcomes == {"none", "answered", "success", "typed_error", "failed", "timeout",
             "unencodable"}
Bytes == FlattenSeq([i \in DOMAIN Requests |-> EncodeFrame(PayloadOf[Requests[i]])])
Waiting == {r \in Ids : task[r] = "waiting"}
Open(r) == task[r] # "none" /\ outcome[r] = "none"

TypeOK ==
    /\ kind \in [Ids -> Kinds]
    /\ got \in 0..Len(Bytes)
    /\ buffer \in Seq(Byte)
    /\ \A l \in loops : l # <<>> /\ Range(l) \subseteq Ids
    /\ task \in [Ids -> {"none", "waiting", "running", "over"}]
    /\ outcome \in [Ids -> Outcomes]
    /\ Range(answers) \subseteq
         [id : Ids, body : {"rpcResponse", "control", "frameworkError"}]
    /\ counts \in [{"success", "typed_error", "framework_failure"} -> Nat]
    /\ gauge \in 0..Cardinality(Ids)

Init ==
    /\ pooled \in BOOLEAN
    /\ kind \in [Ids -> Kinds]
    /\ got = 0
    /\ buffer = <<>>
    /\ threw = FALSE
    /\ up = TRUE
    /\ loops = {}
    /\ decoded = <<>>
    /\ task = [r \in Ids |-> "none"]
    /\ outcome = [r \in Ids |-> "none"]
    /\ ended = FALSE
    /\ answers = <<>>
    /\ counts = [o \in {"success", "typed_error", "framework_failure"} |-> 0]
    /\ gauge = 0

(* fromBinary on the payload of a frame; it throws on a malformed one.       *)
Envelope(payload) == CHOOSE r \in Ids : PayloadOf[r] = payload

(* Faulty variant: the chunk is decoded without what was left before it.     *)
DataAlone(n) ==
    LET chunk == SubSeq(Bytes, got + 1, got + n)
        result == TryDecodeFrames(chunk)
        envelopes == [i \in DOMAIN result.frames |-> Envelope(result.frames[i])]
    IN  /\ got' = got + n
        /\ buffer' = result.remainder
        /\ decoded' = decoded \o envelopes
        /\ loops' = IF envelopes = <<>> THEN loops ELSE loops \cup {envelopes}
        /\ UNCHANGED <<pooled, kind, threw, up, task, outcome, ended, answers, metrics>>

(* A chunk of n bytes arrives. When a frame cannot be decoded the handler    *)
(* rejects: the chunk stays in the buffer, no frame of it is handled, and    *)
(* the rejection, which nobody handles, may end the process.                 *)
Data(n) ==
    LET all == buffer \o SubSeq(Bytes, got + 1, got + n)
        result == TryDecodeFrames(all)
        envelopes == [i \in DOMAIN result.frames |-> Envelope(result.frames[i])]
        throws == \E r \in Range(envelopes) : kind[r] = "malformed"
    IN  /\ up
        /\ got' = got + n
        /\ buffer' = IF throws THEN all ELSE result.remainder
        /\ threw' = (threw \/ throws)
        /\ up' \in {TRUE, ~throws}
        /\ decoded' = IF throws THEN decoded ELSE decoded \o envelopes
        /\ loops' = IF throws \/ envelopes = <<>> THEN loops
                    ELSE loops \cup {envelopes}
        /\ UNCHANGED <<pooled, kind, task, outcome, ended, answers, metrics>>

(* The loop whose current envelope is r goes on to the next one.             *)
Done(r) ==
    loops' = {IF Head(l) = r THEN Tail(l) ELSE l : l \in loops} \ {<<>>}

Current(r) == up /\ task[r] = "none" /\ outcome[r] = "none"
                 /\ \E l \in loops : Head(l) = r

(* socket.write, which is in vain after socket.end.                          *)
Write(r, body) ==
    answers' = IF ended THEN answers ELSE Append(answers, [id |-> r, body |-> body])

Record(os) == counts' = [o \in DOMAIN counts |-> counts[o] + (IF o \in os THEN 1 ELSE 0)]
UpdateQueueDepth == gauge' = Cardinality(Waiting')

(* handleEnvelope where no handler is called: a ping; what is refused (an    *)
(* envelope of another version or body, a method nobody knows); and a        *)
(* payload that cannot be decoded, which alone is counted.                   *)
Reply(r) ==
    /\ Current(r)
    /\ kind[r] \in {"ping", "refused", "badPayload"}
    /\ UNCHANGED <<wire, task, ended>>
    /\ outcome' = [outcome EXCEPT ![r] = "answered"]
    /\ Write(r, IF kind[r] = "ping" THEN "control" ELSE "frameworkError")
    /\ Done(r)
    /\ IF kind[r] = "badPayload"
       THEN Record({"framework_failure"}) /\ UpdateQueueDepth
       ELSE UNCHANGED metrics

Shutdown(r) ==
    /\ Current(r)
    /\ kind[r] = "shutdown"
    /\ outcome' = [outcome EXCEPT ![r] = "answered"]
    /\ ended' = TRUE
    /\ Done(r)
    /\ UNCHANGED <<wire, task, answers, metrics>>

(* handleRpcRequest up to its await: the gauge is read before the task joins *)
(* the queue.                                                                *)
Invoke(r) ==
    /\ Current(r)
    /\ kind[r] = "rpc"
    /\ gauge' = Cardinality(Waiting)
    /\ task' = [task EXCEPT ![r] = IF pooled THEN "waiting" ELSE "running"]
    /\ UNCHANGED <<wire, loops, outcome, ended, answers, counts>>

(* The pool's thread takes a task.                                           *)
Start(r) ==
    /\ up
    /\ task[r] = "waiting"
    /\ \A q \in Ids : task[q] # "running"
    /\ task' = [task EXCEPT ![r] = "running"]
    /\ UNCHANGED <<wire, loops, outcome, ended, answers, metrics>>

(* determineMetricOutcome, and the catch: a result that cannot be encoded    *)
(* has been counted when it turns into an error, and is counted again.       *)
Counted(o) ==
    CASE o \in {"failed", "timeout"} -> {"framework_failure"}
      [] o = "unencodable" -> {"success", "framework_failure"}
      [] OTHER -> {o}

(* Faulty variant: a failure updates no queue depth.                         *)
SettleQuietly(r, o) ==
    /\ outcome' = [outcome EXCEPT ![r] = o]
    /\ Record(Counted(o))
    /\ IF o \in {"success", "typed_error"} THEN UpdateQueueDepth ELSE UNCHANGED gauge
    /\ Write(r, IF o \in {"success", "typed_error"} THEN "rpcResponse"
                ELSE "frameworkError")
    /\ Done(r)

(* The rest of handleRpcRequest.                                             *)
Settle(r, o) ==
    /\ outcome' = [outcome EXCEPT ![r] = o]
    /\ Record(Counted(o))
    /\ UpdateQueueDepth
    /\ Write(r, IF o \in {"success", "typed_error"} THEN "rpcResponse"
                ELSE "frameworkError")
    /\ Done(r)

(* Faulty variant: the late result of a request that timed out is counted    *)
(* and answered as well.                                                     *)
FinishAgain(r, o) ==
    /\ up
    /\ task[r] = "running"
    /\ task' = [task EXCEPT ![r] = "over"]
    /\ Settle(r, o)
    /\ UNCHANGED <<wire, ended>>

(* The invocation settles; nobody listens any more if it has timed out.      *)
Finish(r, o) ==
    /\ up
    /\ task[r] = "running"
    /\ task' = [task EXCEPT ![r] = "over"]
    /\ IF outcome[r] = "none" THEN Settle(r, o)
       ELSE UNCHANGED <<loops, outcome, answers, metrics>>
    /\ UNCHANGED <<wire, ended>>

(* withTimeout gives up; the task goes on, or stays in the queue.            *)
TimeOut(r) ==
    /\ up
    /\ Open(r)
    /\ task' = task
    /\ Settle(r, "timeout")
    /\ UNCHANGED <<wire, ended>>

Results == {"success", "typed_error", "failed", "unencodable"}

Next ==
    \/ \E n \in 1..(Len(Bytes) - got) : Data(n)
    \/ \E r \in Ids :
         \/ Reply(r) \/ Shutdown(r) \/ Invoke(r) \/ Start(r) \/ TimeOut(r)
         \/ \E o \in Results : Finish(r, o)

(* The host delivers what it sent; the manifest has a request timeout.       *)
Spec ==
    /\ Init /\ [][Next]_vars
    /\ WF_vars(\E n \in 1..(Len(Bytes) - got) : Data(n))
    /\ \A r \in Ids : WF_vars(Reply(r) \/ Shutdown(r) \/ Invoke(r)) /\ WF_vars(TimeOut(r))

(* However the stream is cut: the frames decoded and the bytes kept are the  *)
(* bytes that arrived, in order, and no whole frame is left lying, unless a  *)
(* malformed one is among them.                                              *)
FramesAreExact ==
    /\ TypeOK
    /\ FlattenSeq([i \in DOMAIN decoded |-> EncodeFrame(PayloadOf[decoded[i]])])
         \o buffer = SubSeq(Bytes, 1, got)
    /\ ~threw => ~HasFrame(buffer, 0)

(* No request is answered twice or by an answer of another kind, and each    *)
(* whose turn is over was answered, unless the socket was ended.             *)
AnswersAreOwn ==
    /\ IsInjective([i \in DOMAIN answers |-> answers[i].id])
    /\ \A a \in Range(answers) :
         /\ a.body = "control" <=> kind[a.id] = "ping"
         /\ a.body = "rpcResponse" <=> outcome[a.id] \in {"success", "typed_error"}
    /\ ~ended => \A r \in Ids :
         outcome[r] # "none" => \E a \in Range(answers) : a.id = r

CameTo(os) == Cardinality({r \in Ids : kind[r] = "rpc" /\ outcome[r] \in os})

(* Every answered call is in exactly one count, but for results that cannot  *)
(* be encoded, and once nothing is open the queue depth is back at zero,     *)
(* unless a caller gave up on a task that was still queued.                  *)
MetricsAreHonest ==
    /\ counts["success"] = CameTo({"success", "unencodable"})
    /\ counts["typed_error"] = CameTo({"typed_error"})
    /\ counts["framework_failure"] = CameTo({"failed", "timeout", "unencodable"})
         + Cardinality({r \in Ids : kind[r] = "badPayload" /\ outcome[r] # "none"})
    /\ (\A r \in Ids : ~Open(r)) /\ CameTo({"timeout"}) = 0 => gauge = 0

=============================================================================
