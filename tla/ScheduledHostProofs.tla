-------------------------- MODULE ScheduledHostProofs --------------------------
(***************************************************************************)
(* Proofs about ScheduledHost, for every set of calls, queue depth, timeout *)
(* and breaker setting.                                                     *)
(***************************************************************************)
EXTENDS ScheduledHost, FiniteSetTheorems, SequenceTheorems, TLAPS

-------------------------------------------------------------------------------
(***************************************************************************)
(* The channel: what a queue holds after a send and after a receive.       *)
(***************************************************************************)
\* A send: the new element is in the queue, the others stay.
LEMMA AppendHolds ==
    ASSUME NEW S, NEW q \in Seq(S), NEW c \in S
    PROVE  /\ Append(q, c) \in Seq(S)
           /\ \A d : Holds(Append(q, c), d) <=> Holds(q, d) \/ d = c
           /\ Distinct(q) /\ ~Holds(q, c) => Distinct(Append(q, c))
  <1>1. /\ Append(q, c) \in Seq(S)
        /\ Len(Append(q, c)) = Len(q) + 1
        /\ \A i \in 1 .. Len(q) : Append(q, c)[i] = q[i]
        /\ Append(q, c)[Len(q) + 1] = c
        /\ Len(q) \in Nat
    BY AppendProperties, LenProperties
  <1>2. ASSUME NEW d PROVE Holds(Append(q, c), d) <=> Holds(q, d) \/ d = c
    BY <1>1 DEF Holds
  <1>3. ASSUME Distinct(q), ~Holds(q, c) PROVE Distinct(Append(q, c))
    BY <1>1, <1>3 DEF Distinct, Holds
  <1> QED BY <1>1, <1>2, <1>3

\* A receive: the head leaves and, if it was in it once, is in it no more.
LEMMA TailHolds ==
    ASSUME NEW S, NEW q \in Seq(S), q # <<>>
    PROVE  /\ Head(q) \in S
           /\ Tail(q) \in Seq(S)
           /\ Holds(q, Head(q))
           /\ \A d : Holds(q, d) <=> Holds(Tail(q), d) \/ d = Head(q)
           /\ Distinct(q) => Distinct(Tail(q)) /\ ~Holds(Tail(q), Head(q))
  <1>1. /\ Head(q) \in S /\ Head(q) = q[1]
        /\ Tail(q) \in Seq(S)
        /\ Len(q) \in Nat \ {0}
        /\ Len(Tail(q)) = Len(q) - 1
        /\ \A i \in 1 .. Len(Tail(q)) : Tail(q)[i] = q[i + 1]
    BY HeadTailProperties, LenProperties, EmptySeq
  <1>2. ASSUME NEW d PROVE Holds(q, d) <=> Holds(Tail(q), d) \/ d = Head(q)
    <2>1. ASSUME Holds(q, d) PROVE Holds(Tail(q), d) \/ d = Head(q)
      <3>1. PICK i \in 1 .. Len(q) : q[i] = d
        BY <2>1 DEF Holds
      <3>2. CASE i = 1
        BY <1>1, <3>1, <3>2
      <3>3. CASE i # 1
        <4>1. i - 1 \in 1 .. Len(Tail(q)) /\ Tail(q)[i - 1] = d
          BY <1>1, <3>1, <3>3
        <4> QED BY <4>1 DEF Holds
      <3> QED BY <3>2, <3>3
    <2>2. ASSUME Holds(Tail(q), d) \/ d = Head(q) PROVE Holds(q, d)
      BY <1>1, <2>2 DEF Holds
    <2> QED BY <2>1, <2>2
  <1>3. ASSUME Distinct(q) PROVE Distinct(Tail(q)) /\ ~Holds(Tail(q), Head(q))
    BY <1>1, <1>3 DEF Distinct, Holds
  <1> QED BY <1>1, <1>2, <1>3

-------------------------------------------------------------------------------
(***************************************************************************)
(* The breaker's operations.                                               *)
(***************************************************************************)
\* Every operation leaves a consistent breaker consistent.  In particular the
\* failure count never passes the threshold: record_failure counts only while
\* the breaker is closed, and opens it on reaching the threshold.
LEMMA BreakerConsistent ==
    ASSUME NEW b, Consistent(b)
    PROVE  /\ Consistent(NewBreaker)
           /\ Consistent(AfterAllow(b))
           /\ Consistent(RecordSuccess(b))
           /\ Consistent(RecordFailure(b))
           /\ Consistent(AfterTick(b))
  <1> USE BreakerAssumption
      DEF Consistent, Breaker, NotOpen, MaxFailures, IsOpen, Elapsed
  <1>1. Consistent(NewBreaker) /\ Consistent(RecordSuccess(b))
    BY DEF RecordSuccess, NewBreaker
  <1>2. Consistent(AfterAllow(b))
    BY DEF AfterAllow, TakesProbe
  <1>3. Consistent(RecordFailure(b))
    <2>1. CASE IsOpen(b)
      <3>1. RecordFailure(b) = [consecutive_failures |-> b.consecutive_failures,
                                openFor |-> 0, probe |-> FALSE]
        BY <2>1 DEF RecordFailure
      <3> QED BY <3>1
    <2>2. CASE ~IsOpen(b) /\ b.consecutive_failures + 1 >= FailureThreshold
      <3>1. RecordFailure(b) = [consecutive_failures |-> b.consecutive_failures + 1,
                                openFor |-> 0, probe |-> FALSE]
        BY <2>2 DEF RecordFailure, CountFailure
      <3> QED BY <2>2, <3>1
    <2>3. CASE ~IsOpen(b) /\ ~(b.consecutive_failures + 1 >= FailureThreshold)
      <3>1. RecordFailure(b) =
                [b EXCEPT !.consecutive_failures = b.consecutive_failures + 1]
        BY <2>3 DEF RecordFailure, CountFailure
      <3> QED BY <2>3, <3>1
    <2> QED BY <2>1, <2>2, <2>3
  <1>4. Consistent(AfterTick(b))
    BY DEF AfterTick
  <1> QED BY <1>1, <1>2, <1>3, <1>4

\* Recording a result, good or bad, always leaves the probe slot free.
LEMMA RecordFreesProbe ==
    ASSUME NEW b, Consistent(b)
    PROVE  ~RecordSuccess(b).probe /\ ~RecordFailure(b).probe
  BY DEF Consistent, Breaker, RecordSuccess, NewBreaker, RecordFailure, CountFailure

\* One recorded failure raises the count by one at most, and nothing else
\* raises it.
LEMMA FailureCountGrowth ==
    ASSUME NEW b, Consistent(b)
    PROVE  /\ RecordFailure(b).consecutive_failures <= b.consecutive_failures + 1
           /\ RecordSuccess(b).consecutive_failures = 0
           /\ AfterAllow(b).consecutive_failures = b.consecutive_failures
           /\ AfterTick(b).consecutive_failures = b.consecutive_failures
           /\ AfterTick(b).probe = b.probe
  <1> USE BreakerAssumption DEF Consistent, Breaker
  <1>1. b.consecutive_failures \in Int
    BY DEF MaxFailures
  <1>2. RecordFailure(b).consecutive_failures <= b.consecutive_failures + 1
    BY <1>1 DEF RecordFailure, CountFailure
  <1>3. RecordSuccess(b).consecutive_failures = 0
    BY DEF RecordSuccess, NewBreaker
  <1>4. AfterAllow(b).consecutive_failures = b.consecutive_failures
    BY DEF AfterAllow
  <1>5. /\ AfterTick(b).consecutive_failures = b.consecutive_failures
        /\ AfterTick(b).probe = b.probe
    BY DEF AfterTick
  <1> QED BY <1>2, <1>3, <1>4, <1>5

-------------------------------------------------------------------------------
(***************************************************************************)
(* Types.                                                                   *)
(***************************************************************************)
\* decode_response_message turns every message into one of five outcomes, and
\* into a success or a framework error only when it carries the request's id.
LEMMA DecodeAnswers ==
    ASSUME NEW n, NEW r \in Results
    PROVE  /\ Decode(n, r) \in Answers
           /\ Decode(n, r) \in {"Ok", "Framework"} => r.id = n
  <1>1. CASE r.kind \in {"Err", "OtherMessage"}
    BY <1>1 DEF Results, ResultKinds, Decode, Answers
  <1>2. CASE r.kind \in {"RpcResponse", "Error"} /\ r.id # n
    BY <1>2 DEF Results, ResultKinds, Decode, Answers
  <1>3. CASE r.kind \in {"RpcResponse", "Error"} /\ r.id = n
    BY <1>3 DEF Results, ResultKinds, Decode, Answers
  <1> QED BY <1>1, <1>2, <1>3 DEF Results, ResultKinds

Typing == TypeOK /\ Consistent(breaker)

LEMMA TypingInit == Init => Typing
  <1> SUFFICES ASSUME Init PROVE Typing
    OBVIOUS
  <1>1. Consistent(NewBreaker)
    BY BreakerAssumption
       DEF Consistent, Breaker, NewBreaker, NotOpen, MaxFailures, IsOpen, Elapsed
  <1> QED BY <1>1, HostAssumption DEF Init, Typing, TypeOK, Consistent, CallPcs, WorkerPcs

LEMMA TypingStep == Typing /\ [Next]_vars => Typing'
  <1> SUFFICES ASSUME TypeOK, Consistent(breaker), [Next]_vars PROVE TypeOK' /\ Consistent(breaker)'
    BY DEF Typing
  <1> USE HostAssumption DEF TypeOK, CallPcs, WorkerPcs
  <1>a. ASSUME NEW b, Consistent(b) PROVE b \in Breaker
    BY <1>a DEF Consistent
  <1>1. ASSUME NEW c \in Calls, Start(c) PROVE TypeOK' /\ Consistent(breaker)'
    BY <1>1 DEF Start, workerVars
  <1>2. ASSUME NEW c \in Calls, Admit(c) PROVE TypeOK' /\ Consistent(breaker)'
    <2>1. Consistent(breaker')
      BY <1>2, BreakerConsistent DEF Admit
    <2> QED BY <1>2, <1>a, <2>1 DEF Admit, Finish, workerVars, Rejections
  <1>3. ASSUME NEW c \in Calls, Enqueue(c) PROVE TypeOK' /\ Consistent(breaker)'
    BY <1>3, AppendHolds DEF Enqueue, workerVars
  <1>4. ASSUME NEW c \in Calls, Overload(c) PROVE TypeOK' /\ Consistent(breaker)'
    BY <1>4 DEF Overload, Finish, workerVars, Rejections
  <1>5. ASSUME NEW c \in Calls, FindWorkerGone(c) PROVE TypeOK' /\ Consistent(breaker)'
    BY <1>5 DEF FindWorkerGone, Finish, workerVars, Rejections
  <1>6. ASSUME NEW c \in Calls, Receive(c) PROVE TypeOK' /\ Consistent(breaker)'
    <2>1. Decode(id[c], reply[c]) \in Answers
      BY <1>6, DecodeAnswers DEF Receive
    <2> QED BY <1>6, <2>1 DEF Receive, Finish, workerVars
  <1>7. ASSUME NEW c \in Calls, Expire(c) PROVE TypeOK' /\ Consistent(breaker)'
    BY <1>7 DEF Expire, workerVars
  <1>8. ASSUME NEW c \in Calls, RecordTimeout(c) PROVE TypeOK' /\ Consistent(breaker)'
    <2>1. Consistent(breaker')
      BY <1>8, BreakerConsistent DEF RecordTimeout
    <2> QED BY <1>8, <1>a, <2>1 DEF RecordTimeout, Finish, workerVars
  <1>9. CASE Take
    BY <1>9, TailHolds DEF Take, callerVars
  <1>10. CASE TransportReturns
    <2>1. result' \in Results
      BY <1>10 DEF TransportReturns, TransportResults, Results
    <2> QED BY <1>10, <2>1 DEF TransportReturns, callerVars
  <1>11. CASE TransportPanics
    BY <1>11 DEF TransportPanics, callerVars
  <1>12. CASE RecordResult
    <2>1. Consistent(breaker')
      BY <1>12, BreakerConsistent DEF RecordResult
    <2> QED BY <1>12, <1>a, <2>1 DEF RecordResult, callerVars
  <1>13. CASE Reply
    BY <1>13 DEF Reply, callerVars
  <1>14. CASE Tick
    <2>1. Consistent(breaker')
      BY <1>14, BreakerConsistent DEF Tick
    <2> QED BY <1>14, <1>a, <2>1 DEF Tick, workerVars
  <1>15. CASE UNCHANGED vars
    BY <1>15 DEF vars, callerVars, workerVars
  <1> QED
    BY <1>1, <1>2, <1>3, <1>4, <1>5, <1>6, <1>7, <1>8, <1>9, <1>10, <1>11, <1>12,
       <1>13, <1>14, <1>15
    DEF Next, Call, Worker, Transport

\* Every variable keeps its type: above all the failure count never passes the
\* threshold, and nothing but calls is ever queued.
THEOREM TypeCorrect == SafeSpec => []TypeOK
  <1>1. Typing => TypeOK
    BY DEF Typing
  <1> QED BY TypingInit, TypingStep, <1>1, PTL DEF SafeSpec
-------------------------------------------------------------------------------
(***************************************************************************)
(* How callers, queue and worker fit together.                              *)
(***************************************************************************)
\* c's WorkItem is somewhere between try_send and response_tx.send.
HasItem(c) == InQueue(c) \/ workerItem = c

WorkerShape ==
    /\ workerPc \in {"recv", "dead"} <=> workerItem = NoCall
    /\ workerPc = "dead" => queue = <<>>
    /\ workerPc \in {"record", "reply"} => result \in Results

\* A call has one item at most, ...
OneItem == Distinct(queue) /\ ~InQueue(workerItem)

\* ... which has not been answered, and whose caller waits for it or gave up.
ItemShape ==
    \A c \in Calls :
        HasItem(c) =>
            /\ reply[c] = NoResult
            /\ pc[c] \in {"waiting", "expired"} \/ outcome[c] = "Timeout"

CallShape ==
    \A c \in Calls :
        /\ pc[c] \in {"idle", "started", "admitted"} => reply[c] = NoResult
        /\ pc[c] = "done" <=> outcome[c] # "none"

Shape == WorkerShape /\ OneItem /\ ItemShape /\ CallShape

LEMMA ShapeInit == Init => Shape
  BY HostAssumption
  DEF Init, Shape, WorkerShape, OneItem, ItemShape, CallShape, HasItem, InQueue,
      Holds, Distinct

LEMMA ShapeStep == Typing /\ Shape /\ [Next]_vars => Shape'
  <1> SUFFICES ASSUME Typing, Shape, [Next]_vars PROVE Shape'
    OBVIOUS
  <1> USE HostAssumption
      DEF Typing, TypeOK, CallPcs, WorkerPcs, Shape, WorkerShape, OneItem, ItemShape,
          CallShape, HasItem, InQueue
  <1>r. \A r \in Results : r # NoResult
    BY DEF Results, NoResult, ResultKinds
  <1>h. Distinct(<<>>) /\ \A c : ~Holds(<<>>, c)
    BY DEF Holds, Distinct
  <1>q. ~Holds(queue, NoCall)
    BY DEF Holds
  <1>1. ASSUME NEW c \in Calls, Start(c) PROVE Shape'
    BY <1>1 DEF Start, workerVars
  <1>2. ASSUME NEW c \in Calls, Admit(c) PROVE Shape'
    BY <1>2 DEF Admit, Finish, workerVars
  <1>3. ASSUME NEW c \in Calls, Enqueue(c) PROVE Shape'
    <2>1. ~Holds(queue, c) /\ workerItem # c
      BY <1>3 DEF Enqueue
    <2>2. /\ \A d : Holds(queue', d) <=> Holds(queue, d) \/ d = c
          /\ Distinct(queue')
      BY <1>3, <2>1, AppendHolds DEF Enqueue
    <2> QED BY <1>3, <2>1, <2>2 DEF Enqueue, workerVars
  <1>4. ASSUME NEW c \in Calls, Overload(c) PROVE Shape'
    BY <1>4 DEF Overload, Finish, workerVars
  <1>5. ASSUME NEW c \in Calls, FindWorkerGone(c) PROVE Shape'
    BY <1>5 DEF FindWorkerGone, Finish, workerVars
  <1>6. ASSUME NEW c \in Calls, Receive(c) PROVE Shape'
    <2>1. Decode(id[c], reply[c]) # "none"
      BY <1>6, DecodeAnswers DEF Receive, Answers
    <2> QED BY <1>6, <2>1 DEF Receive, Finish, workerVars
  <1>7. ASSUME NEW c \in Calls, Expire(c) PROVE Shape'
    BY <1>7 DEF Expire, workerVars
  <1>8. ASSUME NEW c \in Calls, RecordTimeout(c) PROVE Shape'
    BY <1>8 DEF RecordTimeout, Finish, workerVars
  <1>9. CASE Take
    <2>1. /\ workerItem' \in Calls /\ Holds(queue, workerItem')
          /\ \A d : Holds(queue, d) <=> Holds(queue', d) \/ d = workerItem'
          /\ Distinct(queue') /\ ~Holds(queue', workerItem')
      BY <1>9, TailHolds DEF Take
    <2> QED BY <1>9, <2>1 DEF Take, callerVars
  <1>10. CASE TransportReturns
    <2>1. result' \in Results
      BY <1>10 DEF TransportReturns, TransportResults, Results
    <2> QED BY <1>10, <2>1 DEF TransportReturns, callerVars
  <1>11. CASE TransportPanics
    BY <1>11, <1>h DEF TransportPanics, callerVars
  <1>12. CASE RecordResult
    BY <1>12 DEF RecordResult, callerVars
  <1>13. CASE Reply
    BY <1>13, <1>r, <1>q DEF Reply, callerVars
  <1>14. CASE Tick
    BY <1>14 DEF Tick, workerVars
  <1>15. CASE UNCHANGED vars
    BY <1>15 DEF vars, callerVars, workerVars
  <1> QED
    BY <1>1, <1>2, <1>3, <1>4, <1>5, <1>6, <1>7, <1>8, <1>9, <1>10, <1>11, <1>12,
       <1>13, <1>14, <1>15
    DEF Next, Call, Worker, Transport
\* The callers, the queue and the worker always agree about every call: it has
\* at most one item, which nobody has answered yet and whose caller waits for it
\* or has timed out.
THEOREM Bookkeeping == SafeSpec => [](Typing /\ Shape)
  BY TypingInit, TypingStep, ShapeInit, ShapeStep, PTL DEF SafeSpec

-------------------------------------------------------------------------------
(***************************************************************************)
(* The probe slot.                                                          *)
(***************************************************************************)
LEMMA ProbeInit == Init => ProbeHasOwner
  BY DEF Init, ProbeHasOwner, NewBreaker

LEMMA ProbeStep == Typing /\ Shape /\ ProbeHasOwner /\ [Next]_vars => ProbeHasOwner'
  <1> SUFFICES ASSUME Typing, Shape, ProbeHasOwner, [Next]_vars,
                      breaker'.probe, workerPc' # "dead", MaxQueueDepth > 0
               PROVE  \E c \in Calls :
                          (pc[c] = "admitted" \/ InQueue(c) \/ InTransport(c))'
    BY DEF ProbeHasOwner
  <1> DEFINE Owns(c) == pc[c] = "admitted" \/ InQueue(c) \/ InTransport(c)
  <1> USE HostAssumption
      DEF Typing, TypeOK, CallPcs, WorkerPcs, Shape, WorkerShape, InQueue, InTransport
  \* A step that keeps the probe taken and the worker alive inherits an owner.
  <1>o. ASSUME breaker.probe, workerPc # "dead" PROVE \E c \in Calls : Owns(c)
    BY <1>o DEF ProbeHasOwner
  <1>1. ASSUME NEW c \in Calls, Start(c) PROVE \E d \in Calls : Owns(d)'
    BY <1>1, <1>o DEF Start, workerVars
  <1>2. ASSUME NEW c \in Calls, Admit(c) PROVE \E d \in Calls : Owns(d)'
    <2>1. CASE TakesProbe(breaker)
      BY <1>2, <2>1 DEF Admit, Allows
    <2>2. CASE ~TakesProbe(breaker)
      BY <1>2, <2>2, <1>o DEF Admit, AfterAllow, Finish, workerVars
    <2> QED BY <2>1, <2>2
  <1>3. ASSUME NEW c \in Calls, Enqueue(c) PROVE \E d \in Calls : Owns(d)'
    BY <1>3, AppendHolds DEF Enqueue
  \* The queue is full, and each of its items will free the slot.
  <1>4. ASSUME NEW c \in Calls, Overload(c) PROVE \E d \in Calls : Owns(d)'
    <2>1. queue # <<>>
      BY <1>4 DEF Overload, IsFull
    <2> QED BY <1>4, <2>1, TailHolds DEF Overload
  <1>5. ASSUME NEW c \in Calls, FindWorkerGone(c) PROVE FALSE
    BY <1>5 DEF FindWorkerGone, workerVars
  <1>6. ASSUME NEW c \in Calls, Receive(c) PROVE \E d \in Calls : Owns(d)'
    BY <1>6, <1>o DEF Receive, Finish, workerVars
  <1>7. ASSUME NEW c \in Calls, Expire(c) PROVE \E d \in Calls : Owns(d)'
    BY <1>7, <1>o DEF Expire, workerVars
  <1>8. ASSUME NEW c \in Calls, RecordTimeout(c) PROVE FALSE
    BY <1>8, RecordFreesProbe DEF RecordTimeout
  <1>9. CASE Take
    BY <1>9, TailHolds DEF Take
  <1>10. CASE TransportReturns
    BY <1>10, <1>o DEF TransportReturns, callerVars
  <1>11. CASE TransportPanics
    BY <1>11 DEF TransportPanics
  <1>12. CASE RecordResult
    BY <1>12, RecordFreesProbe DEF RecordResult
  <1>13. CASE Reply
    BY <1>13, <1>o DEF Reply, callerVars
  <1>14. CASE Tick
    BY <1>14, <1>o, FailureCountGrowth DEF Tick, workerVars
  <1>15. CASE UNCHANGED vars
    BY <1>15, <1>o DEF vars, callerVars, workerVars
  <1> QED
    BY <1>1, <1>2, <1>3, <1>4, <1>5, <1>6, <1>7, <1>8, <1>9, <1>10, <1>11, <1>12,
       <1>13, <1>14, <1>15
    DEF Next, Call, Worker, Transport

\* For every queue depth but 0, every threshold and every timeout, a half-open
\* breaker always has something on its way that will free its probe slot.
THEOREM ProbeSlotIsOwned == SafeSpec => []ProbeHasOwner
  BY Bookkeeping, ProbeInit, ProbeStep, PTL DEF SafeSpec

-------------------------------------------------------------------------------
(***************************************************************************)
(* No call is lost.                                                         *)
(***************************************************************************)
LEMMA NotLostInit == Init => NoCallIsLost
  BY DEF Init, NoCallIsLost

LEMMA NotLostStep == Typing /\ Shape /\ NoCallIsLost /\ [Next]_vars => NoCallIsLost'
  <1> SUFFICES ASSUME Typing, Shape, NoCallIsLost, [Next]_vars PROVE NoCallIsLost'
    OBVIOUS
  <1> USE HostAssumption
      DEF Typing, TypeOK, CallPcs, WorkerPcs, Shape, WorkerShape, NoCallIsLost, InQueue
  <1>r. \A r \in Results : r # NoResult
    BY DEF Results, NoResult, ResultKinds
  <1>1. ASSUME NEW c \in Calls, Start(c) PROVE NoCallIsLost'
    BY <1>1 DEF Start, workerVars
  <1>2. ASSUME NEW c \in Calls, Admit(c) PROVE NoCallIsLost'
    BY <1>2 DEF Admit, Finish, workerVars
  <1>3. ASSUME NEW c \in Calls, Enqueue(c) PROVE NoCallIsLost'
    BY <1>3, AppendHolds DEF Enqueue, workerVars
  <1>4. ASSUME NEW c \in Calls, Overload(c) \/ FindWorkerGone(c) PROVE NoCallIsLost'
    BY <1>4 DEF Overload, FindWorkerGone, Finish, workerVars
  <1>5. ASSUME NEW c \in Calls, Receive(c) \/ Expire(c) PROVE NoCallIsLost'
    BY <1>5 DEF Receive, Expire, Finish, workerVars
  <1>6. ASSUME NEW c \in Calls, RecordTimeout(c) PROVE NoCallIsLost'
    BY <1>6 DEF RecordTimeout, Finish, workerVars
  <1>7. CASE Take
    BY <1>7, TailHolds DEF Take, callerVars
  <1>8. CASE TransportReturns \/ RecordResult
    BY <1>8 DEF TransportReturns, RecordResult, callerVars
  <1>9. CASE TransportPanics
    BY <1>9 DEF TransportPanics
  <1>10. CASE Reply
    BY <1>10, <1>r DEF Reply, callerVars
  <1>11. CASE Tick
    BY <1>11 DEF Tick, workerVars
  <1>12. CASE UNCHANGED vars
    BY <1>12 DEF vars, callerVars, workerVars
  <1> QED
    BY <1>1, <1>2, <1>3, <1>4, <1>5, <1>6, <1>7, <1>8, <1>9, <1>10, <1>11, <1>12
    DEF Next, Call, Worker, Transport

\* While the worker lives, a call that waits is queued, with the worker, or
\* answered.
THEOREM CallsAreKept == SafeSpec => []NoCallIsLost
  BY Bookkeeping, NotLostInit, NotLostStep, PTL DEF SafeSpec
-------------------------------------------------------------------------------
(***************************************************************************)
(* Request ids and answers.                                                 *)
(***************************************************************************)
IdShape ==
    \A c \in Calls :
        /\ id[c] = 0 <=> pc[c] = "idle"
        /\ id[c] < nextId
        /\ \A d \in Calls \ {c} : id[c] # 0 => id[d] # id[c]

\* fetch_add hands every call a number of its own.
LEMMA IdInit == Init => IdShape
  BY DEF Init, IdShape

LEMMA IdStep == Typing /\ IdShape /\ [Next]_vars => IdShape'
  <1> SUFFICES ASSUME Typing, IdShape, [Next]_vars PROVE IdShape'
    OBVIOUS
  <1> USE DEF Typing, TypeOK, CallPcs, IdShape
  <1>1. ASSUME NEW c \in Calls, Start(c) PROVE IdShape'
    <2>1. /\ nextId' = nextId + 1 /\ id'[c] = nextId /\ pc'[c] = "started"
          /\ \A d \in Calls \ {c} : id'[d] = id[d] /\ pc'[d] = pc[d]
      BY <1>1 DEF Start
    <2>2. \A d \in Calls \ {c} : id'[d] < nextId
      BY <2>1
    <2> QED BY <2>1, <2>2
  <1>2. ASSUME NEW c \in Calls, Call(c), ~Start(c) PROVE IdShape'
    <2>1. /\ UNCHANGED <<id, nextId>>
          /\ pc[c] # "idle"
          /\ \E p \in CallPcs \ {"idle"} : pc' = [pc EXCEPT ![c] = p]
      BY <1>2 DEF Call, Admit, Enqueue, Overload, FindWorkerGone, Receive, Expire,
                  RecordTimeout, Finish
    <2> QED BY <2>1
  <1>3. CASE UNCHANGED <<id, nextId, pc>>
    BY <1>3
  <1>4. ASSUME Worker \/ Transport \/ Tick \/ UNCHANGED vars
        PROVE  UNCHANGED <<id, nextId, pc>>
    BY <1>4 DEF Worker, Take, RecordResult, Reply, Transport, TransportReturns,
                TransportPanics, Tick, vars, callerVars
  <1> QED BY <1>1, <1>2, <1>3, <1>4 DEF Next

LEMMA OwnAnswerInit == Init => OwnAnswer
  BY DEF Init, OwnAnswer

LEMMA OwnAnswerStep ==
    /\ Typing /\ Shape /\ IdShape /\ OwnAnswer
    /\ Typing' /\ Shape' /\ IdShape'
    /\ [Next]_vars
    => OwnAnswer'
  <1> SUFFICES ASSUME Typing, Shape, IdShape, OwnAnswer, Typing', Shape', IdShape',
                      [Next]_vars,
                      NEW c \in Calls, outcome'[c] \in {"Ok", "Framework"}
               PROVE  /\ reply'[c].id = id'[c]
                      /\ \A d \in Calls \ {c} : id'[d] # id'[c]
    BY DEF OwnAnswer
  <1> USE DEF Typing, TypeOK, CallPcs
  <1>1. pc'[c] = "done" /\ id'[c] # 0
    BY DEF Shape, CallShape, IdShape
  <1>2. \A d \in Calls \ {c} : id'[d] # id'[c]
    BY <1>1 DEF IdShape
  <1>3. CASE Receive(c)
    <2>1. Decode(id[c], reply[c]) \in {"Ok", "Framework"}
      BY <1>3 DEF Receive, Finish
    <2> QED BY <1>2, <1>3, <2>1, DecodeAnswers DEF Receive, workerVars
  <1>4. CASE outcome[c] = outcome'[c]
    <2>1. reply[c].id = id[c] /\ pc[c] = "done" /\ workerItem # c
      BY <1>4 DEF OwnAnswer, Shape, CallShape, ItemShape, HasItem
    <2>2. id'[c] = id[c]
      BY <2>1 DEF Next, Call, Start, Admit, Enqueue, Overload, FindWorkerGone, Receive,
                  Expire, RecordTimeout, Worker, Take, RecordResult, Reply, Transport,
                  TransportReturns, TransportPanics, Tick, vars, callerVars
    <2>3. reply'[c] = reply[c]
      BY <2>1 DEF Next, Call, Start, Admit, Enqueue, Overload, FindWorkerGone, Receive,
                  Expire, RecordTimeout, Worker, Take, RecordResult, Reply, Transport,
                  TransportReturns, TransportPanics, Tick, vars, workerVars
    <2> QED BY <1>2, <2>1, <2>2, <2>3
  <1>5. ASSUME ~Receive(c) PROVE outcome[c] = outcome'[c]
    <2>1. ASSUME NEW d \in Calls, d # c, Call(d) PROVE outcome[c] = outcome'[c]
      BY <2>1 DEF Call, Start, Admit, Enqueue, Overload, FindWorkerGone, Receive,
                  Expire, RecordTimeout, Finish
    <2>2. CASE Call(c)
      BY <1>5, <2>2 DEF Call, Start, Admit, Enqueue, Overload, FindWorkerGone,
                        Expire, RecordTimeout, Finish
    <2>3. CASE Worker \/ Transport \/ Tick \/ UNCHANGED vars
      BY <2>3 DEF Worker, Take, RecordResult, Reply, Transport, TransportReturns,
                  TransportPanics, Tick, vars, callerVars
    <2> QED BY <2>1, <2>2, <2>3 DEF Next
  <1> QED BY <1>2, <1>3, <1>4, <1>5

\* A call that ends with an answer ends with its own: the message carries its id,
\* and no other call has that id.
THEOREM AnswersAreOwn == SafeSpec => []OwnAnswer
  BY Bookkeeping, IdInit, IdStep, OwnAnswerInit, OwnAnswerStep, PTL DEF SafeSpec

-------------------------------------------------------------------------------
(***************************************************************************)
(* What the failure count stands for.                                       *)
(***************************************************************************)
LEMMA FailuresInit == Init => FailuresAreRecorded
  <1> SUFFICES ASSUME Init PROVE FailuresAreRecorded
    OBVIOUS
  <1>1. TimedOut = {} /\ Failed = {}
    BY HostAssumption DEF Init, TimedOut, Failed, NoResult
  <1> QED BY <1>1, FS_EmptySet DEF Init, FailuresAreRecorded, NewBreaker

LEMMA FailuresStep ==
    Typing /\ Shape /\ FailuresAreRecorded /\ [Next]_vars => FailuresAreRecorded'
  <1> SUFFICES ASSUME Typing, Shape, FailuresAreRecorded, [Next]_vars
               PROVE  FailuresAreRecorded'
    OBVIOUS
  <1> USE HostAssumption DEF Typing, TypeOK, FailuresAreRecorded
  <1> DEFINE count == breaker.consecutive_failures
  <1>f. /\ IsFiniteSet(TimedOut) /\ Cardinality(TimedOut) \in Nat
        /\ IsFiniteSet(Failed) /\ Cardinality(Failed) \in Nat
    <2>1. TimedOut \in SUBSET Calls /\ Failed \in SUBSET Calls
      BY DEF TimedOut, Failed
    <2>2. IsFiniteSet(TimedOut) /\ IsFiniteSet(Failed)
      BY <2>1, FS_Subset
    <2> QED BY <2>2, FS_CardinalityType
  <1>c. count \in Nat /\ breaker'.consecutive_failures \in Int
    <2>1. breaker' \in Breaker
      BY TypingStep
    <2> QED BY <2>1, BreakerAssumption DEF Breaker, MaxFailures
  \* A step that counts no failure and records none.
  <1>k. ASSUME TimedOut' = TimedOut, Failed' = Failed, breaker'.consecutive_failures <= count
        PROVE  FailuresAreRecorded'
    BY <1>k, <1>f, <1>c
  <1>1. ASSUME NEW c \in Calls, RecordTimeout(c) PROVE FailuresAreRecorded'
    <2>1. TimedOut' = TimedOut \cup {c} /\ c \notin TimedOut /\ Failed' = Failed
      BY <1>1 DEF RecordTimeout, Finish, workerVars, TimedOut, Failed, Shape, CallShape
    <2>2. Cardinality(TimedOut') = Cardinality(TimedOut) + 1
      BY <1>f, <2>1, FS_AddElement
    <2>3. breaker'.consecutive_failures <= count + 1
      BY <1>1, FailureCountGrowth DEF RecordTimeout
    <2> QED BY <1>f, <1>c, <2>1, <2>2, <2>3
  <1>2. CASE RecordResult /\ result.kind = "RpcResponse"
    <2>1. TimedOut' = TimedOut /\ Failed' = Failed
      BY <1>2 DEF RecordResult, callerVars, TimedOut, Failed
    <2>2. breaker'.consecutive_failures = 0
      BY <1>2, FailureCountGrowth DEF RecordResult
    <2> QED BY <1>k, <1>c, <2>1, <2>2
  <1>3. CASE RecordResult /\ result.kind # "RpcResponse"
    <2>1. workerItem \in Calls
      BY <1>3 DEF RecordResult, Shape, WorkerShape
    <2>2. workerItem \notin Failed
      BY <1>3, <2>1 DEF RecordResult, Failed, Shape, ItemShape, HasItem, NoResult
    <2>3. TimedOut' = TimedOut /\ Failed' = Failed \cup {workerItem}
      BY <1>3, <2>1 DEF RecordResult, callerVars, TimedOut, Failed
    <2>4. Cardinality(Failed') = Cardinality(Failed) + 1
      BY <1>f, <2>2, <2>3, FS_AddElement
    <2>5. breaker'.consecutive_failures <= count + 1
      BY <1>3, FailureCountGrowth DEF RecordResult
    <2> QED BY <1>f, <1>c, <2>3, <2>4, <2>5
  <1>4. CASE Reply
    <2>1. workerItem \in Calls /\ result.kind # "none"
      BY <1>4 DEF Reply, Shape, WorkerShape, Results, ResultKinds
    <2>2. reply[workerItem].kind = "none" /\ workerPc = "reply"
      BY <1>4, <2>1 DEF Reply, Shape, ItemShape, HasItem, NoResult
    <2>3. ASSUME NEW c \in Calls PROVE (c \in Failed') <=> c \in Failed
      <3>1. CASE c = workerItem
        BY <1>4, <2>1, <2>2, <3>1 DEF Reply, Failed
      <3>2. CASE c # workerItem
        BY <1>4, <2>1, <3>2 DEF Reply, Failed
      <3> QED BY <3>1, <3>2
    <2>4. Failed' = Failed
      BY <2>3 DEF Failed
    <2>5. TimedOut' = TimedOut /\ breaker' = breaker
      BY <1>4 DEF Reply, callerVars, TimedOut
    <2> QED BY <1>k, <1>c, <2>4, <2>5
  <1>5. ASSUME NEW c \in Calls, Admit(c) PROVE FailuresAreRecorded'
    <2>1. TimedOut' = TimedOut /\ Failed' = Failed
      BY <1>5 DEF Admit, Finish, workerVars, TimedOut, Failed, Shape, CallShape
    <2>2. breaker'.consecutive_failures = count
      BY <1>5, FailureCountGrowth DEF Admit
    <2> QED BY <1>k, <1>c, <2>1, <2>2
  <1>6. ASSUME NEW c \in Calls, Overload(c) \/ FindWorkerGone(c) PROVE FailuresAreRecorded'
    <2>1. TimedOut' = TimedOut /\ Failed' = Failed /\ breaker' = breaker
      BY <1>6 DEF Overload, FindWorkerGone, Finish, workerVars, TimedOut, Failed,
                  Shape, CallShape
    <2> QED BY <1>k, <1>c, <2>1
  <1>7. ASSUME NEW c \in Calls, Receive(c) PROVE FailuresAreRecorded'
    <2>1. Decode(id[c], reply[c]) # "Timeout"
      <3>1. reply[c] \in Results
        BY <1>7 DEF Receive
      <3>2. Decode(id[c], reply[c]) \in Answers
        BY <3>1, DecodeAnswers
      <3> QED BY <3>2 DEF Answers
    <2>2. TimedOut' = TimedOut
      BY <1>7, <2>1 DEF Receive, Finish, TimedOut, Shape, CallShape
    <2>3. Failed' = Failed /\ breaker' = breaker
      BY <1>7 DEF Receive, workerVars, Failed
    <2> QED BY <1>k, <1>c, <2>2, <2>3
  <1>8. ASSUME NEW c \in Calls, Start(c) \/ Enqueue(c) \/ Expire(c)
        PROVE  FailuresAreRecorded'
    <2>1. TimedOut' = TimedOut /\ Failed' = Failed /\ breaker' = breaker
      BY <1>8 DEF Start, Enqueue, Expire, workerVars, TimedOut, Failed
    <2> QED BY <1>k, <1>c, <2>1
  <1>9. CASE Take \/ TransportReturns \/ TransportPanics
    <2>1. TimedOut' = TimedOut /\ Failed' = Failed /\ breaker' = breaker
      BY <1>9 DEF Take, TransportReturns, TransportPanics, callerVars, TimedOut, Failed
    <2> QED BY <1>k, <1>c, <2>1
  <1>10. CASE Tick
    <2>1. TimedOut' = TimedOut /\ Failed' = Failed
      BY <1>10 DEF Tick, workerVars, TimedOut, Failed
    <2>2. breaker'.consecutive_failures = count
      BY <1>10, FailureCountGrowth DEF Tick
    <2> QED BY <1>k, <1>c, <2>1, <2>2
  <1>11. CASE UNCHANGED vars
    <2>1. TimedOut' = TimedOut /\ Failed' = Failed /\ breaker' = breaker
      BY <1>11 DEF vars, callerVars, workerVars, TimedOut, Failed
    <2> QED BY <1>k, <1>c, <2>1
  <1> QED
    BY <1>1, <1>2, <1>3, <1>4, <1>5, <1>6, <1>7, <1>8, <1>9, <1>10, <1>11
    DEF Next, Call, Worker, Transport

\* The breaker counts only failures that some call or the worker recorded, one
\* for each: it cannot open on fewer.
THEOREM FailuresAreCounted == SafeSpec => []FailuresAreRecorded
  BY Bookkeeping, FailuresInit, FailuresStep, PTL DEF SafeSpec
-------------------------------------------------------------------------------
(***************************************************************************)
(* The refinement of CallService, without its liveness.                     *)
(***************************************************************************)
LEMMA RefineInit == Init => Service!Init
  BY DEF Init, Service!Init, Status, Answered

LEMMA RefineStep ==
    Typing /\ Shape /\ [Next]_vars => [Service!Next]_(Service!vars)
  <1> SUFFICES ASSUME Typing, Shape, [Next]_vars
               PROVE  [Service!Next]_(Service!vars)
    OBVIOUS
  <1> USE HostAssumption
      DEF Typing, TypeOK, CallPcs, WorkerPcs, Shape, WorkerShape, CallShape, ItemShape,
          HasItem
  <1>r. \A r \in Results : r # NoResult
    BY DEF Results, NoResult, ResultKinds
  <1>a. \A a \in Answers : a # "none"
    BY DEF Answers
  \* A step of call c alone changes no other call's status.
  <1>1. ASSUME NEW c \in Calls, Start(c) PROVE Service!Begin(c)
    <2>1. Status[c] = "idle" /\ Status' = [Status EXCEPT ![c] = "running"]
      BY <1>1 DEF Start, Status
    <2>2. reply[c] = NoResult
      BY <1>1 DEF Start
    <2>3. Answered' = Answered
      BY <1>1, <2>2 DEF Start, Answered, workerVars
    <2> QED BY <2>1, <2>3 DEF Service!Begin
  <1>2. ASSUME NEW c \in Calls, NEW o \in Rejections,
               pc[c] \in {"started", "admitted"}, Finish(c, o), UNCHANGED <<id, reply>>
        PROVE  Service!Reject(c)
    <2>1. Status[c] = "running" /\ Status' = [Status EXCEPT ![c] = o]
      BY <1>2 DEF Finish, Status
    <2>2. Answered' = Answered /\ Answered[c] = "none"
      BY <1>2 DEF Answered
    <2> QED BY <2>1, <2>2 DEF Service!Reject
  <1>3. ASSUME NEW c \in Calls, NEW p \in {"admitted", "waiting", "expired"},
               pc[c] \in {"started", "admitted", "waiting"}, pc' = [pc EXCEPT ![c] = p],
               UNCHANGED <<id, reply, outcome>>
        PROVE  UNCHANGED Service!vars
    BY <1>3 DEF Service!vars, Status, Answered
  <1>4. ASSUME NEW c \in Calls, Receive(c) PROVE Service!Return(c)
    <2>1. reply[c] \in Results
      BY <1>4 DEF Receive
    <2>2. Answered[c] = Decode(id[c], reply[c]) /\ Answered[c] # "none"
      BY <2>1, <1>r, <1>a, DecodeAnswers DEF Answered
    <2>3. Status[c] = "running" /\ Status' = [Status EXCEPT ![c] = Answered[c]]
      BY <1>4, <2>2 DEF Receive, Finish, Status
    <2>4. Answered' = Answered
      BY <1>4 DEF Receive, workerVars, Answered
    <2> QED BY <2>2, <2>3, <2>4 DEF Service!Return
  <1>5. ASSUME NEW c \in Calls, RecordTimeout(c) PROVE Service!GiveUp(c)
    <2>1. Status[c] = "running" /\ Status' = [Status EXCEPT ![c] = "Timeout"]
      BY <1>5 DEF RecordTimeout, Finish, Status
    <2>2. Answered' = Answered
      BY <1>5 DEF RecordTimeout, workerVars, Answered
    <2> QED BY <2>1, <2>2 DEF Service!GiveUp
  <1>6. CASE Reply
    <2>1. /\ workerItem \in Calls /\ result \in Results /\ result # NoResult
          /\ reply[workerItem] = NoResult
      BY <1>6, <1>r DEF Reply
    <2>2. Status[workerItem] \in {"running", "Timeout"} /\ Status' = Status
      BY <1>6, <2>1 DEF Reply, callerVars, Status
    <2>3. Answered[workerItem] = "none"
      BY <2>1 DEF Answered
    <2>4. Answered' = [Answered EXCEPT ![workerItem] = Decode(id[workerItem], result)]
      BY <1>6, <2>1 DEF Reply, callerVars, Answered
    <2>5. Decode(id[workerItem], result) \in Answers
      BY <2>1, DecodeAnswers
    <2>6. Service!Answer(workerItem)
      BY <2>2, <2>3, <2>4, <2>5 DEF Service!Answer
    <2> QED BY <2>1, <2>6 DEF Service!Next
  <1>7. ASSUME UNCHANGED <<id, reply, outcome, pc>> PROVE UNCHANGED Service!vars
    BY <1>7 DEF Service!vars, Status, Answered
  <1>8. ASSUME NEW c \in Calls, Call(c) PROVE [Service!Next]_(Service!vars)
    <2>1. CASE Start(c)
      BY <1>1, <2>1 DEF Service!Next
    <2>2. CASE Admit(c) \/ Overload(c) \/ FindWorkerGone(c)
      <3>1. CASE pc' = [pc EXCEPT ![c] = "admitted"] /\ UNCHANGED outcome
        BY <1>3, <2>2, <3>1 DEF Admit, Overload, FindWorkerGone, Finish, workerVars
      <3>2. CASE \E o \in Rejections : Finish(c, o)
        BY <1>2, <2>2, <3>2
        DEF Admit, Overload, FindWorkerGone, workerVars, Service!Next, Service!Finish
      <3> QED BY <2>2, <3>1, <3>2 DEF Admit, Overload, FindWorkerGone, Rejections
    <2>3. CASE Enqueue(c) \/ Expire(c)
      BY <1>3, <2>3 DEF Enqueue, Expire, workerVars
    <2>4. CASE Receive(c)
      BY <1>4, <2>4 DEF Service!Next, Service!Finish
    <2>5. CASE RecordTimeout(c)
      BY <1>5, <2>5 DEF Service!Next, Service!Finish
    <2> QED BY <1>8, <2>1, <2>2, <2>3, <2>4, <2>5 DEF Call
  <1>9. CASE Take \/ RecordResult \/ Transport \/ Tick \/ UNCHANGED vars
    BY <1>7, <1>9 DEF Take, RecordResult, Transport, TransportReturns, TransportPanics,
                      Tick, vars, callerVars, workerVars
  <1> QED BY <1>6, <1>8, <1>9 DEF Next, Worker

\* The scheduled host keeps the promises of CallService: a call returns once, a
\* rejected call never reaches the plugin, an answer goes to the call it answers.
\* (That every call does return is a liveness property, which TLC checks.)
THEOREM ImplementsCallService == SafeSpec => Service!SafeSpec
  BY Bookkeeping, RefineInit, RefineStep, PTL DEF SafeSpec, Service!SafeSpec
===============================================================================
