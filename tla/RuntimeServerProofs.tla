-------------------------- MODULE RuntimeServerProofs --------------------------
(***************************************************************************)
(* Proofs about RuntimeServer, for every set of requests and threads.       *)
(***************************************************************************)
EXTENDS RuntimeServer, SequenceTheorems, TLAPS

-------------------------------------------------------------------------------
(***************************************************************************)
(* The pool's queue: what it holds once a task joins, and once one leaves.  *)
(***************************************************************************)
\* A task joins: the new element is in the queue, the others stay.
LEMMA AppendHolds ==
    ASSUME NEW S, NEW q \in Seq(S), NEW c \in S
    PROVE  /\ Append(q, c) \in Seq(S)
           /\ \A d : Holds(Append(q, c), d) <=> Holds(q, d) \/ d = c
           /\ Distinct(q) /\ ~Holds(q, c) => Distinct(Append(q, c))
  <1>1. /\ Append(q, c) \in Seq(S)
        /\ Len(Append(q, c)) = Len(q) + 1
        /\ \A i \in 1 .. Len(q) : Append(q, c)[i] = q[i]
        /\ Append(q, c)[Len(q) + 1] = c
        /\ Len(q) \in Nat
    BY AppendProperties, LenProperties
  <1>2. ASSUME NEW d PROVE Holds(Append(q, c), d) <=> Holds(q, d) \/ d = c
    BY <1>1 DEF Holds
  <1>3. ASSUME Distinct(q), ~Holds(q, c) PROVE Distinct(Append(q, c))
    BY <1>1, <1>3 DEF Distinct, Holds
  <1> QED BY <1>1, <1>2, <1>3

\* A task leaves: the head leaves and, if it was in it once, is in it no more.
LEMMA TailHolds ==
    ASSUME NEW S, NEW q \in Seq(S), q # <<>>
    PROVE  /\ Head(q) \in S
           /\ Tail(q) \in Seq(S)
           /\ Holds(q, Head(q))
           /\ \A d : Holds(q, d) <=> Holds(Tail(q), d) \/ d = Head(q)
           /\ Distinct(q) => Distinct(Tail(q)) /\ ~Holds(Tail(q), Head(q))
  <1>1. /\ Head(q) \in S /\ Head(q) = q[1]
        /\ Tail(q) \in Seq(S)
        /\ Len(q) \in Nat \ {0}
        /\ Len(Tail(q)) = Len(q) - 1
        /\ \A i \in 1 .. Len(Tail(q)) : Tail(q)[i] = q[i + 1]
    BY HeadTailProperties, LenProperties, EmptySeq
  <1>2. ASSUME NEW d PROVE Holds(q, d) <=> Holds(Tail(q), d) \/ d = Head(q)
    <2>1. ASSUME Holds(q, d) PROVE Holds(Tail(q), d) \/ d = Head(q)
      <3>1. PICK i \in 1 .. Len(q) : q[i] = d
        BY <2>1 DEF Holds
      <3>2. CASE i = 1
        BY <1>1, <3>1, <3>2
      <3>3. CASE i # 1
        <4>1. i - 1 \in 1 .. Len(Tail(q)) /\ Tail(q)[i - 1] = d
          BY <1>1, <3>1, <3>3
        <4> QED BY <4>1 DEF Holds
      <3> QED BY <3>2, <3>3
    <2>2. ASSUME Holds(Tail(q), d) \/ d = Head(q) PROVE Holds(q, d)
      BY <1>1, <2>2 DEF Holds
    <2> QED BY <2>1, <2>2
  <1>3. ASSUME Distinct(q) PROVE Distinct(Tail(q)) /\ ~Holds(Tail(q), Head(q))
    BY <1>1, <1>3 DEF Distinct, Holds
  <1> QED BY <1>1, <1>2, <1>3

-------------------------------------------------------------------------------
\* What the cases of Next below share.
LEMMA Kinds ==
    /\ Inits \subseteq Requests /\ Calls \subseteq Requests
    /\ \A i \in Inits : i # NoRequest
    /\ \A r \in Calls : r # NoRequest
  BY ServerAssumption DEF Requests

-------------------------------------------------------------------------------
(***************************************************************************)
(* Types.                                                                   *)
(***************************************************************************)
LEMMA TypingInit == Init => TypeOK
  <1> SUFFICES ASSUME Init PROVE TypeOK
    OBVIOUS
  <1> USE DEF Init
  <1>1. /\ pooled \in BOOLEAN
        /\ server \in {"up", "closing", "exited"}
        /\ snapshot \in Inits \cup {NoRequest}
        /\ lastInit \in Inits \cup {NoRequest}
    OBVIOUS
  <1>2. /\ pc \in [Requests -> {"idle", "queued", "running", "settled", "done"}]
        /\ behind \in [Requests -> Requests \cup {NoRequest}]
        /\ result \in [Requests -> Results \cup {"none"}]
        /\ outcome \in [Requests -> Results \cup Rejections \cup {"Timeout", "none"}]
        /\ given \in [Calls -> Inits \cup {NoRequest}]
    OBVIOUS
  <1>3. tasks \in Seq(Calls)
    OBVIOUS
  <1>4. ASSUME NEW w \in Workers
        PROVE  worker[w] = NewWorker
    OBVIOUS
  <1> QED BY <1>1, <1>2, <1>3, <1>4 DEF TypeOK, NewWorker

LEMMA SettleTypes ==
    ASSUME TypeOK, NEW r \in Requests, NEW res \in Results, Settle(r, res)
    PROVE  /\ pc' \in [Requests -> {"idle", "queued", "running", "settled", "done"}]
           /\ result' \in [Requests -> Results \cup {"none"}]
           /\ outcome' \in [Requests -> Results \cup Rejections \cup {"Timeout", "none"}]
  BY DEF TypeOK, Settle

LEMMA TypingStep == TypeOK /\ [Next]_vars => TypeOK'
  <1> SUFFICES ASSUME TypeOK, [Next]_vars PROVE TypeOK'
    OBVIOUS
  <1> USE Kinds DEF TypeOK, dispatchVars, poolVars
  <1>1. ASSUME NEW r \in Requests, NEW s \in Requests \cup {NoRequest}, Arrive(r, s)
        PROVE  TypeOK'
    BY <1>1 DEF Arrive
  <1>2. ASSUME NEW r \in Requests, Refuse(r) PROVE TypeOK'
    BY <1>2 DEF Refuse, Decide, Rejections
  <1>3. ASSUME NEW r \in Requests, Invoke(r) PROVE TypeOK'
    BY <1>3 DEF Invoke
  <1>4. ASSUME NEW r \in Requests, FindUninitialized(r) PROVE TypeOK'
    BY <1>4 DEF FindUninitialized, Decide, Rejections
  <1>5. ASSUME NEW r \in Requests, Submit(r) PROVE TypeOK'
    <2>1. tasks' \in Seq(Calls)
      BY <1>5, AppendHolds DEF Submit
    <2> QED BY <1>5, <2>1 DEF Submit
  <1>6. ASSUME NEW r \in Requests, NEW res \in Results, HandlerEnds(r, res) PROVE TypeOK'
    BY <1>6, SettleTypes DEF HandlerEnds
  <1>7. ASSUME NEW r \in Requests, TimeOut(r) PROVE TypeOK'
    BY <1>7 DEF TimeOut, Decide
  <1>8. ASSUME NEW r \in Requests, Answer(r) PROVE TypeOK'
    BY <1>8 DEF Answer
  <1>9. ASSUME NEW w \in Workers, Take(w) PROVE TypeOK'
    <2>1. Head(tasks) \in Calls /\ tasks' \in Seq(Calls)
      BY <1>9, TailHolds DEF Take
    <2> QED BY <1>9, <2>1 DEF Take
  <1>10. ASSUME NEW w \in Workers, FailToLoad(w) PROVE TypeOK'
    <2>1. Head(tasks) \in Calls /\ tasks' \in Seq(Calls)
      BY <1>10, TailHolds DEF FailToLoad
    <2>2. /\ pc' \in [Requests -> {"idle", "queued", "running", "settled", "done"}]
          /\ result' \in [Requests -> Results \cup {"none"}]
          /\ outcome' \in [Requests -> Results \cup Rejections \cup {"Timeout", "none"}]
      BY <1>10, <2>1, SettleTypes DEF FailToLoad, Results
    <2> QED BY <1>10, <2>1, <2>2 DEF FailToLoad, BrokenWorker
  <1>11. ASSUME NEW w \in Workers, InitWorker(w) PROVE TypeOK'
    BY <1>11 DEF InitWorker
  <1>12. ASSUME NEW w \in Workers, FailToInitWorker(w) PROVE TypeOK'
    <2>1. worker[w].task \in Calls
      BY <1>12 DEF FailToInitWorker
    <2>2. /\ pc' \in [Requests -> {"idle", "queued", "running", "settled", "done"}]
          /\ result' \in [Requests -> Results \cup {"none"}]
          /\ outcome' \in [Requests -> Results \cup Rejections \cup {"Timeout", "none"}]
      BY <1>12, <2>1, SettleTypes DEF FailToInitWorker, Results
    <2> QED BY <1>12, <2>2 DEF FailToInitWorker, Idle
  <1>13. ASSUME NEW w \in Workers, NEW res \in Results, FinishTask(w, res) PROVE TypeOK'
    <2>1. worker[w].task \in Calls
      BY <1>13 DEF FinishTask
    <2>2. /\ pc' \in [Requests -> {"idle", "queued", "running", "settled", "done"}]
          /\ result' \in [Requests -> Results \cup {"none"}]
          /\ outcome' \in [Requests -> Results \cup Rejections \cup {"Timeout", "none"}]
      BY <1>13, <2>1, SettleTypes DEF FinishTask
    <2> QED BY <1>13, <2>2 DEF FinishTask, Idle
  <1>14. ASSUME NEW w \in Workers, Recycle(w) PROVE TypeOK'
    BY <1>14 DEF Recycle, NewWorker
  <1>15. ASSUME NEW w \in Workers, AbortRunning(w) PROVE TypeOK'
    <2>1. worker[w].task \in Calls
      BY <1>15 DEF AbortRunning
    <2>2. /\ pc' \in [Requests -> {"idle", "queued", "running", "settled", "done"}]
          /\ result' \in [Requests -> Results \cup {"none"}]
          /\ outcome' \in [Requests -> Results \cup Rejections \cup {"Timeout", "none"}]
      BY <1>15, <2>1, SettleTypes DEF AbortRunning, Results
    <2> QED BY <1>15, <2>2 DEF AbortRunning, NewWorker
  <1>16. ASSUME AbortQueued PROVE TypeOK'
    <2>1. Head(tasks) \in Calls /\ tasks' \in Seq(Calls)
      BY <1>16, TailHolds DEF AbortQueued
    <2>2. /\ pc' \in [Requests -> {"idle", "queued", "running", "settled", "done"}]
          /\ result' \in [Requests -> Results \cup {"none"}]
          /\ outcome' \in [Requests -> Results \cup Rejections \cup {"Timeout", "none"}]
      BY <1>16, <2>1, SettleTypes DEF AbortQueued, Results
    <2> QED BY <1>16, <2>1, <2>2 DEF AbortQueued
  <1>17. CASE Close
    BY <1>17 DEF Close
  <1>18. CASE Exit
    BY <1>18 DEF Exit
  <1>19. CASE UNCHANGED vars
    BY <1>19 DEF vars
  <1> QED
    BY <1>1, <1>2, <1>3, <1>4, <1>5, <1>6, <1>7, <1>8, <1>9, <1>10, <1>11, <1>12,
       <1>13, <1>14, <1>15, <1>16, <1>17, <1>18, <1>19
       DEF Next, Handle, Begin, Work

\* Every variable keeps its type, and a thread has a task exactly while it is
\* at work on one.
THEOREM TypeCorrect == SafeSpec => []TypeOK
  BY TypingInit, TypingStep, PTL DEF SafeSpec

-------------------------------------------------------------------------------
(***************************************************************************)
(* The requests and the pool.  The inductive invariant: what is known of a  *)
(* request by where it is, and a task of the pool is in one place, where it *)
(* has no result yet.                                                       *)
(***************************************************************************)
Begun(r) == pc[r] \notin {"idle", "queued"}

Decided(r) ==
    \/ outcome[r] \in Results /\ result[r] = outcome[r]
    \/ outcome[r] = "Timeout"
    \/ outcome[r] = "Refused" /\ r \in Unhandled /\ result[r] = "none"
    \/ outcome[r] = "NotInitialized" /\ r \in Calls /\ ~pooled /\ result[r] = "none"

RequestShape ==
    \A r \in Requests :
        /\ pc[r] \in {"idle", "queued", "running"} =>
              outcome[r] = "none" /\ result[r] = "none"
        /\ pc[r] \in {"settled", "done"} => Decided(r)

InPool(r) == Holds(tasks, r) \/ \E w \in Workers : worker[w].task = r

TaskShape == \A r \in Calls : InPool(r) => pooled /\ Begun(r) /\ result[r] = "none"

OnePlace ==
    /\ Distinct(tasks)
    /\ \A w \in Workers : ~Holds(tasks, worker[w].task)
    /\ \A w, v \in Workers :
          worker[w].task = worker[v].task /\ w # v => worker[w].task = NoRequest

Shape == RequestShape /\ TaskShape /\ OnePlace

LEMMA ShapeInit == Init => Shape
  BY Kinds DEF Init, Shape, RequestShape, TaskShape, OnePlace, InPool, Holds, Distinct,
               NewWorker

\* The pool is done with r.
Ends(r, res) ==
    /\ Settle(r, res)
    /\ InPool(r)
    /\ ~InPool(r)'
    /\ \A q \in Calls : InPool(q)' => InPool(q)
    /\ OnePlace'
    /\ \A w \in Workers : worker'[w] = worker[w] \/ worker'[w].phase = "idle"
    /\ \A w \in Workers : worker'[w].config \in {worker[w].config, NoRequest}
    /\ UNCHANGED <<pooled, server, behind, dispatchVars, given>>

LEMMA HeadEnds ==
    ASSUME TypeOK, Shape, tasks # <<>>, tasks' = Tail(tasks)
    PROVE  /\ Head(tasks) \in Calls
           /\ Holds(tasks, Head(tasks)) /\ ~Holds(tasks', Head(tasks))
           /\ \A q : Holds(tasks', q) => Holds(tasks, q)
           /\ Distinct(tasks')
  BY TailHolds DEF TypeOK, Shape, OnePlace

LEMMA WorkerEnds ==
    ASSUME TypeOK, Shape, NEW w \in Workers, worker[w].phase # "idle", tasks' = tasks,
           \/ worker' = [worker EXCEPT ![w] = Idle(worker[w])]
           \/ worker' = [worker EXCEPT ![w] = NewWorker],
           NEW res \in Results, NEW r \in Calls, r = worker[w].task, Settle(r, res),
           UNCHANGED <<pooled, server, behind, dispatchVars, given>>
    PROVE  Ends(r, res)
  <1>1. r # NoRequest
    BY Kinds
  <1>2. \A v \in Workers : v # w => worker'[v] = worker[v]
    BY DEF TypeOK
  <1>3. /\ worker'[w].task = NoRequest
        /\ worker'[w].phase = "idle"
        /\ worker'[w].config \in {worker[w].config, NoRequest}
    BY DEF TypeOK, Idle, NewWorker
  <1>4. ~Holds(tasks, NoRequest)
    BY Kinds DEF TypeOK, Holds
  <1>5. InPool(r) /\ ~InPool(r)'
    BY <1>1, <1>2, <1>3 DEF InPool, Shape, OnePlace
  <1>6. \A q \in Calls : InPool(q)' => InPool(q)
    BY <1>2, <1>3, Kinds DEF InPool
  <1>7. OnePlace'
    BY <1>2, <1>3, <1>4 DEF Shape, OnePlace
  <1>8. \A v \in Workers : /\ worker'[v] = worker[v] \/ worker'[v].phase = "idle"
                           /\ worker'[v].config \in {worker[v].config, NoRequest}
    BY <1>2, <1>3
  <1> QED
    BY <1>5, <1>6, <1>7, <1>8 DEF Ends

\* The same for a task that is the head of the queue.
LEMMA QueueEnds ==
    ASSUME TypeOK, Shape, tasks # <<>>, tasks' = Tail(tasks),
           \A w \in Workers :
              /\ worker'[w].task = worker[w].task
              /\ worker'[w] = worker[w] \/ worker'[w].phase = "idle"
              /\ worker'[w].config \in {worker[w].config, NoRequest},
           NEW res \in Results, NEW r \in Calls, r = Head(tasks), Settle(r, res),
           UNCHANGED <<pooled, server, behind, dispatchVars, given>>
    PROVE  Ends(r, res)
  <1>1. /\ Holds(tasks, r) /\ ~Holds(tasks', r)
        /\ \A q : Holds(tasks', q) => Holds(tasks, q)
        /\ Distinct(tasks')
    BY HeadEnds
  <1>2. InPool(r) /\ ~InPool(r)'
    BY <1>1 DEF InPool, Shape, OnePlace
  <1>3. \A q \in Calls : InPool(q)' => InPool(q)
    BY <1>1 DEF InPool
  <1>4. OnePlace'
    BY <1>1 DEF Shape, OnePlace
  <1> QED BY <1>1, <1>2, <1>3, <1>4 DEF Ends

LEMMA PoolEnds ==
    ASSUME TypeOK, Shape,
           \/ AbortQueued
           \/ \E w \in Workers :
                 \/ FailToLoad(w) \/ FailToInitWorker(w) \/ AbortRunning(w)
                 \/ \E res \in Results : FinishTask(w, res)
    PROVE  \E r \in Calls, res \in Results : Ends(r, res)
  <1> USE Kinds DEF Results
  <1>1. ASSUME tasks # <<>> PROVE \E r \in Calls : r = Head(tasks)
    BY <1>1, TailHolds DEF TypeOK
  <1>2. ASSUME NEW w \in Workers, worker[w].phase # "idle"
        PROVE  \E r \in Calls : r = worker[w].task
    BY <1>2 DEF TypeOK
  <1>3. CASE AbortQueued
    <2>1. PICK r \in Calls : r = Head(tasks)
      BY <1>1, <1>3 DEF AbortQueued
    <2> QED BY <1>3, <2>1, QueueEnds DEF AbortQueued
  <1>4. ASSUME NEW w \in Workers, FailToLoad(w)
        PROVE  \E r \in Calls, res \in Results : Ends(r, res)
    <2>1. PICK r \in Calls : r = Head(tasks)
      BY <1>1, <1>4 DEF FailToLoad
    <2>2. \A v \in Workers :
            /\ worker'[v].task = worker[v].task
            /\ worker'[v] = worker[v] \/ worker'[v].phase = "idle"
            /\ worker'[v].config \in {worker[v].config, NoRequest}
      BY <1>4 DEF FailToLoad, BrokenWorker, TypeOK
    <2> QED BY <1>4, <2>1, <2>2, QueueEnds DEF FailToLoad
  <1>5. ASSUME NEW w \in Workers, FailToInitWorker(w)
        PROVE  \E r \in Calls, res \in Results : Ends(r, res)
    <2>1. PICK r \in Calls : r = worker[w].task
      BY <1>2, <1>5 DEF FailToInitWorker
    <2> QED BY <1>5, <2>1, WorkerEnds DEF FailToInitWorker
  <1>6. ASSUME NEW w \in Workers, AbortRunning(w)
        PROVE  \E r \in Calls, res \in Results : Ends(r, res)
    <2>1. PICK r \in Calls : r = worker[w].task
      BY <1>2, <1>6 DEF AbortRunning
    <2> QED BY <1>6, <2>1, WorkerEnds DEF AbortRunning
  <1>7. ASSUME NEW w \in Workers, NEW res \in Results, FinishTask(w, res)
        PROVE  \E r \in Calls, x \in Results : Ends(r, x)
    <2>1. PICK r \in Calls : r = worker[w].task
      BY <1>2, <1>7 DEF FinishTask
    <2> QED BY <1>7, <2>1, WorkerEnds DEF FinishTask
  <1> QED BY <1>3, <1>4, <1>5, <1>6, <1>7

\* What a result does to the shape of a request, wherever it comes from.
LEMMA SettleShape ==
    ASSUME TypeOK, RequestShape, pooled' = pooled,
           NEW r \in Requests, NEW res \in Results, Settle(r, res),
           Begun(r), result[r] = "none", outcome[r] \notin Rejections
    PROVE  /\ RequestShape'
           /\ \A q \in Requests : Begun(q)' <=> Begun(q)
           /\ \A q \in Requests : q # r => result'[q] = result[q]
  <1> USE DEF TypeOK, Settle, Begun
  <1>1. \A q \in Requests : q # r =>
            pc'[q] = pc[q] /\ outcome'[q] = outcome[q] /\ result'[q] = result[q]
    OBVIOUS
  <1>2. CASE pc[r] = "running"
    <2>1. pc'[r] = "settled" /\ outcome'[r] = res /\ result'[r] = res
      BY <1>2
    <2> QED BY <1>1, <1>2, <2>1 DEF RequestShape, Decided
  <1>3. CASE pc[r] \in {"settled", "done"}
    <2>1. pc'[r] = pc[r] /\ outcome'[r] = outcome[r] /\ result'[r] = res
      BY <1>3
    <2>2. outcome[r] = "Timeout"
      BY <1>3 DEF RequestShape, Decided, Results, Rejections
    <2> QED BY <1>1, <1>3, <2>1, <2>2 DEF RequestShape, Decided
  <1> QED BY <1>2, <1>3

\* A task of the pool is never refused.
LEMMA TasksAreNotRefused ==
    ASSUME TypeOK, Shape, NEW r \in Calls, InPool(r)
    PROVE  /\ r \in Requests /\ Begun(r) /\ result[r] = "none"
           /\ outcome[r] \notin Rejections
  BY Kinds, ServerAssumption
     DEF TypeOK, Shape, RequestShape, TaskShape, Decided, Begun, Results, Rejections

LEMMA ShapeStep == TypeOK /\ Shape /\ [Next]_vars => Shape'
  <1> SUFFICES ASSUME TypeOK, Shape, [Next]_vars PROVE Shape'
    OBVIOUS
  <1> USE Kinds DEF dispatchVars, poolVars
  <1>p. ASSUME UNCHANGED <<tasks, worker>>
        PROVE  /\ \A q : InPool(q)' <=> InPool(q)
               /\ OnePlace'
    BY <1>p DEF InPool, OnePlace, Shape
  <1>1. ASSUME NEW r \in Requests, NEW s \in Requests \cup {NoRequest}, Arrive(r, s)
        PROVE  Shape'
    <2>i. \A q \in Requests : q \in {r, s} => pc[q] = "idle"
      BY <1>1, ServerAssumption DEF Arrive
    <2>0. \A q \in Requests : pc'[q] = pc[q] \/ (pc[q] = "idle" /\ pc'[q] = "queued")
      BY <1>1, <2>i DEF Arrive
    <2>1. RequestShape'
      BY <1>1, <2>0 DEF Arrive, Shape, RequestShape, Decided
    <2>2. TaskShape'
      BY <1>1, <1>p DEF Arrive, TypeOK, Shape, TaskShape, Begun
    <2> QED BY <1>1, <1>p, <2>1, <2>2 DEF Arrive, Shape
  <1>2. ASSUME NEW r \in Requests, Refuse(r) PROVE Shape'
    <2>1. RequestShape'
      BY <1>2 DEF Refuse, Decide, IsNext, TypeOK, Shape, RequestShape, Decided
    <2>2. TaskShape'
      BY <1>2, <1>p DEF Refuse, Decide, IsNext, TypeOK, Shape, TaskShape, Begun
    <2> QED BY <1>2, <1>p, <2>1, <2>2 DEF Refuse, Shape
  <1>3. ASSUME NEW r \in Requests, Invoke(r) PROVE Shape'
    <2>1. RequestShape'
      BY <1>3 DEF Invoke, IsNext, TypeOK, Shape, RequestShape, Decided
    <2>2. TaskShape'
      BY <1>3, <1>p DEF Invoke, IsNext, TypeOK, Shape, TaskShape, Begun
    <2> QED BY <1>3, <1>p, <2>1, <2>2 DEF Invoke, Shape
  <1>4. ASSUME NEW r \in Requests, FindUninitialized(r) PROVE Shape'
    <2>1. RequestShape'
      BY <1>4 DEF FindUninitialized, Decide, IsNext, TypeOK, Shape, RequestShape, Decided
    <2>2. TaskShape'
      BY <1>4, <1>p DEF FindUninitialized, Decide, IsNext, TypeOK, Shape, TaskShape, Begun
    <2> QED BY <1>4, <1>p, <2>1, <2>2 DEF FindUninitialized, Shape
  <1>5. ASSUME NEW r \in Requests, Submit(r) PROVE Shape'
    <2>1. r \in Calls /\ pooled /\ pc[r] = "queued" /\ result[r] = "none" /\ outcome[r] = "none"
      BY <1>5 DEF Submit, IsNext, Shape, RequestShape
    <2>2. ~InPool(r)
      BY <2>1 DEF Shape, TaskShape, Begun
    <2>3. /\ \A q : Holds(tasks', q) <=> Holds(tasks, q) \/ q = r
          /\ Distinct(tasks')
      BY <1>5, <2>1, <2>2, AppendHolds DEF Submit, TypeOK, Shape, OnePlace, InPool
    <2>4. \A q \in Calls : InPool(q)' => InPool(q) \/ q = r
      BY <1>5, <2>3 DEF Submit, InPool
    <2>5. OnePlace'
      BY <1>5, <2>2, <2>3 DEF Submit, Shape, OnePlace, InPool
    <2>6. RequestShape'
      BY <1>5, <2>1 DEF Submit, TypeOK, Shape, RequestShape, Decided
    <2>7. TaskShape'
      BY <1>5, <2>1, <2>4 DEF Submit, TypeOK, Shape, TaskShape, Begun
    <2> QED BY <2>5, <2>6, <2>7 DEF Shape
  <1>6. ASSUME NEW r \in Requests, NEW res \in Results, HandlerEnds(r, res) PROVE Shape'
    <2>1. /\ Begun(r) /\ result[r] = "none" /\ outcome[r] \notin Rejections
          /\ ~(r \in Calls /\ pooled)
      BY <1>6, ServerAssumption
         DEF HandlerEnds, Executing, Begun, Shape, RequestShape, Decided, Results, Rejections
    <2>2. /\ RequestShape'
          /\ \A q \in Requests : Begun(q)' <=> Begun(q)
          /\ \A q \in Requests : q # r => result'[q] = result[q]
      BY <1>6, <2>1, SettleShape DEF HandlerEnds, Shape
    <2>3. TaskShape'
      BY <1>6, <1>p, <2>1, <2>2 DEF HandlerEnds, Shape, TaskShape
    <2> QED BY <1>6, <1>p, <2>2, <2>3 DEF HandlerEnds, Shape
  <1>7. ASSUME NEW r \in Requests, TimeOut(r) PROVE Shape'
    <2>1. RequestShape'
      BY <1>7 DEF TimeOut, Decide, TypeOK, Shape, RequestShape, Decided
    <2>2. TaskShape'
      BY <1>7, <1>p DEF TimeOut, Decide, TypeOK, Shape, TaskShape, Begun
    <2> QED BY <1>7, <1>p, <2>1, <2>2 DEF TimeOut, Shape
  <1>8. ASSUME NEW r \in Requests, Answer(r) PROVE Shape'
    <2>1. RequestShape'
      BY <1>8 DEF Answer, TypeOK, Shape, RequestShape, Decided
    <2>2. TaskShape'
      BY <1>8, <1>p DEF Answer, TypeOK, Shape, TaskShape, Begun
    <2> QED BY <1>8, <1>p, <2>1, <2>2 DEF Answer, Shape
  <1>9. ASSUME NEW w \in Workers, Take(w) PROVE Shape'
    <2>1. PICK r \in Calls : r = Head(tasks)
      BY <1>9, TailHolds DEF Take, TypeOK
    <2>2. /\ Holds(tasks, r) /\ ~Holds(tasks', r)
          /\ \A q : Holds(tasks', q) => Holds(tasks, q)
          /\ Distinct(tasks')
      BY <1>9, <2>1, HeadEnds DEF Take
    <2>3. /\ worker'[w].task = r
          /\ \A v \in Workers : v # w => worker'[v] = worker[v]
      BY <1>9, <2>1 DEF Take, TypeOK
    <2>4. \A q \in Calls : InPool(q)' => InPool(q)
      BY <2>2, <2>3 DEF InPool
    <2>5. OnePlace'
      BY <2>2, <2>3 DEF Shape, OnePlace
    <2>6. RequestShape'
      BY <1>9 DEF Take, Shape, RequestShape, Decided
    <2>7. TaskShape'
      BY <1>9, <2>4 DEF Take, Shape, TaskShape, Begun
    <2> QED BY <2>5, <2>6, <2>7 DEF Shape
  <1>10. ASSUME NEW w \in Workers, InitWorker(w) \/ Recycle(w) PROVE Shape'
    <2>1. \A v \in Workers : worker'[v].task = worker[v].task
      BY <1>10 DEF InitWorker, Recycle, NewWorker, TypeOK
    <2>2. tasks' = tasks /\ UNCHANGED <<pooled, pc, result, outcome>>
      BY <1>10 DEF InitWorker, Recycle
    <2>3. \A q : InPool(q)' => InPool(q)
      BY <2>1, <2>2 DEF InPool
    <2>4. OnePlace'
      BY <2>1, <2>2 DEF Shape, OnePlace
    <2> QED BY <2>2, <2>3, <2>4 DEF Shape, TaskShape, RequestShape, Begun, Decided
  <1>11. ASSUME NEW r \in Calls, NEW res \in Results, Ends(r, res) PROVE Shape'
    <2>1. /\ RequestShape'
          /\ \A q \in Requests : Begun(q)' <=> Begun(q)
          /\ \A q \in Requests : q # r => result'[q] = result[q]
      BY <1>11, TasksAreNotRefused, SettleShape DEF Ends, Shape
    <2>2. TaskShape'
      BY <1>11, <2>1 DEF Ends, Shape, TaskShape
    <2> QED BY <1>11, <2>1, <2>2 DEF Ends, Shape
  <1>12. CASE Close \/ Exit \/ UNCHANGED vars
    <2>1. UNCHANGED <<pooled, pc, result, outcome, tasks, worker>>
      BY <1>12 DEF Close, Exit, vars
    <2> QED BY <2>1, <1>p DEF Shape, TaskShape, RequestShape, Begun, Decided
  <1> QED
    BY <1>1, <1>2, <1>3, <1>4, <1>5, <1>6, <1>7, <1>8, <1>9, <1>10, <1>11, <1>12, PoolEnds
       DEF Next, Handle, Begin, Work

\* Types and shape hold together.
THEOREM Bookkeeping == SafeSpec => [](TypeOK /\ Shape)
  <1>1. TypeOK /\ Shape /\ [Next]_vars => TypeOK' /\ Shape'
    BY TypingStep, ShapeStep
  <1> QED BY <1>1, TypingInit, ShapeInit, PTL DEF SafeSpec

-------------------------------------------------------------------------------
(***************************************************************************)
(* Accepted Inits.                                                          *)
(***************************************************************************)
\* A request that has an answer keeps it.
LEMMA AnswersStay ==
    ASSUME TypeOK, Shape, [Next]_vars, NEW r \in Requests, outcome[r] # "none"
    PROVE  outcome'[r] = outcome[r]
  <1> USE Kinds DEF dispatchVars, poolVars
  <1>1. pc[r] \in {"settled", "done"}
    BY DEF TypeOK, Shape, RequestShape
  <1>2. ASSUME NEW q \in Requests, NEW o, Decide(q, o), pc[q] \in {"queued", "running"}
        PROVE  outcome'[r] = outcome[r]
    BY <1>1, <1>2 DEF Decide, TypeOK
  <1>3. ASSUME NEW q \in Requests, NEW res \in Results, Settle(q, res)
        PROVE  outcome'[r] = outcome[r]
    BY <1>1, <1>3 DEF Settle, TypeOK
  <1>4. ASSUME NEW q \in Requests, Handle(q) PROVE outcome'[r] = outcome[r]
    <2>1. ASSUME NEW s \in Requests \cup {NoRequest}, Arrive(q, s)
          PROVE  outcome'[r] = outcome[r]
      BY <2>1 DEF Arrive
    <2>2. CASE Begin(q)
      BY <1>2, <2>2 DEF Begin, Refuse, Invoke, FindUninitialized, Submit, IsNext
    <2>3. ASSUME NEW res \in Results, HandlerEnds(q, res)
          PROVE  outcome'[r] = outcome[r]
      BY <1>3, <2>3 DEF HandlerEnds
    <2>4. CASE TimeOut(q)
      BY <1>2, <2>4 DEF TimeOut
    <2>5. CASE Answer(q)
      BY <2>5 DEF Answer
    <2> QED BY <1>4, <2>1, <2>2, <2>3, <2>4, <2>5 DEF Handle
  <1>5. ASSUME NEW q \in Calls, NEW res \in Results, Ends(q, res)
        PROVE  outcome'[r] = outcome[r]
    BY <1>3, <1>5 DEF Ends
  <1>6. ASSUME NEW w \in Workers, Take(w) \/ InitWorker(w) \/ Recycle(w)
        PROVE  outcome'[r] = outcome[r]
    BY <1>6 DEF Take, InitWorker, Recycle
  <1>7. CASE Close \/ Exit \/ UNCHANGED vars
    BY <1>7 DEF Close, Exit, vars
  <1> QED BY <1>4, <1>5, <1>6, <1>7, PoolEnds DEF Next, Work

LEMMA AcceptedStep ==
    TypeOK /\ Shape /\ ConfigWasAccepted /\ [Next]_vars => ConfigWasAccepted'
  <1> SUFFICES ASSUME TypeOK, Shape, ConfigWasAccepted, [Next]_vars
               PROVE  ConfigWasAccepted'
    OBVIOUS
  <1> USE Kinds DEF dispatchVars, poolVars
  <1>1. \A i \in Inits \cup {NoRequest} : Accepted(i) => Accepted(i)'
    BY AnswersStay DEF Accepted, Answered
  <1>2. \/ UNCHANGED <<lastInit, given>>
          /\ \A w \in Workers : worker'[w].config \in {worker[w].config, NoRequest}
        \/ \E r \in Requests : Submit(r) \/ Answer(r)
        \/ \E w \in Workers : InitWorker(w)
    <2>1. ASSUME NEW r \in Requests, Handle(r), ~Submit(r), ~Answer(r)
          PROVE  UNCHANGED <<lastInit, given, worker>>
      BY <2>1 DEF Handle, Begin, Arrive, Refuse, Invoke, FindUninitialized,
                  HandlerEnds, TimeOut
    <2>2. ASSUME NEW w \in Workers, Take(w) \/ Recycle(w)
          PROVE  UNCHANGED <<lastInit, given>>
                 /\ \A v \in Workers : worker'[v].config \in {worker[v].config, NoRequest}
      BY <2>2 DEF Take, Recycle, NewWorker, TypeOK
    <2>3. ASSUME NEW q \in Calls, NEW res \in Results, Ends(q, res)
          PROVE  UNCHANGED <<lastInit, given>>
                 /\ \A v \in Workers : worker'[v].config \in {worker[v].config, NoRequest}
      BY <2>3 DEF Ends
    <2>4. CASE Close \/ Exit \/ UNCHANGED vars
      BY <2>4 DEF Close, Exit, vars
    <2> QED BY <2>1, <2>2, <2>3, <2>4, PoolEnds DEF Next, Work
  <1>3. ASSUME UNCHANGED <<lastInit, given>>,
               \A w \in Workers : worker'[w].config \in {worker[w].config, NoRequest}
        PROVE  ConfigWasAccepted'
    <2>1. Accepted(NoRequest)'
      BY DEF Accepted
    <2> QED BY <1>1, <1>3, <2>1 DEF ConfigWasAccepted, TypeOK, Accepted
  <1>4. ASSUME NEW r \in Requests, Submit(r) PROVE ConfigWasAccepted'
    BY <1>4 DEF Submit, ConfigWasAccepted, TypeOK, Accepted
  <1>5. ASSUME NEW r \in Requests, Answer(r) PROVE ConfigWasAccepted'
    BY <1>5 DEF Answer, ConfigWasAccepted, TypeOK, Accepted
  <1>6. ASSUME NEW w \in Workers, InitWorker(w) PROVE ConfigWasAccepted'
    BY <1>6 DEF InitWorker, ConfigWasAccepted, TypeOK, Accepted
  <1> QED BY <1>2, <1>3, <1>4, <1>5, <1>6

\* lastInitRequest, the tasks and the threads only ever carry the request of an
\* Init that was answered with what its handler returned, be it an error.
THEOREM ConfigsAreAccepted == SafeSpec => []ConfigWasAccepted
  <1>1. Init => ConfigWasAccepted
    BY Kinds DEF Init, ConfigWasAccepted, Accepted, NewWorker
  <1> QED BY <1>1, Bookkeeping, AcceptedStep, PTL DEF SafeSpec

-------------------------------------------------------------------------------
(***************************************************************************)
(* The refinement of CallService.                                           *)
(***************************************************************************)
LEMMA RefineInit == Init => Service!Init
  BY DEF Init, Service!Init, Status

LEMMA RefineStep == TypeOK /\ Shape /\ [Next]_vars => [Service!Next]_(Service!vars)
  <1> SUFFICES ASSUME TypeOK, Shape, [Next]_vars
               PROVE  [Service!Next]_(Service!vars)
    OBVIOUS
  <1> USE Kinds DEF dispatchVars, poolVars
  \* What an answer is, wherever it comes from.
  <1>1. ASSUME NEW r \in Requests, NEW res \in Results, Settle(r, res),
               Begun(r), result[r] = "none", outcome[r] \notin Rejections
        PROVE  Service!Answer(r)
    <2>1. CASE pc[r] = "running"
      <3>1. pc' = [pc EXCEPT ![r] = "settled"]
        BY <1>1, <2>1 DEF Settle
      <3>2. \A q \in Requests : q # r => outcome'[q] = outcome[q]
        BY <1>1 DEF Settle, TypeOK
      <3>3. Status' = Status /\ Status[r] = "running"
        BY <2>1, <3>1, <3>2 DEF Status, TypeOK
      <3> QED BY <1>1, <3>3 DEF Service!Answer, Settle, Results
    <2>2. CASE pc[r] \in {"settled", "done"}
      <3>1. outcome[r] = "Timeout"
        BY <1>1, <2>2 DEF Shape, RequestShape, Decided, Results, Rejections
      <3>2. pc' = pc /\ outcome' = outcome
        BY <1>1, <2>2 DEF Settle, TypeOK
      <3>3. Status' = Status /\ Status[r] \in {"running", "Timeout"}
        BY <2>2, <3>1, <3>2 DEF Status, TypeOK
      <3> QED BY <1>1, <3>3 DEF Service!Answer, Settle, Results
    <2> QED BY <1>1, <2>1, <2>2 DEF Begun, TypeOK
  <1>2. ASSUME NEW r \in Requests, NEW p \in {"running", "settled"},
               pc[r] = "queued", pc' = [pc EXCEPT ![r] = p], result' = result,
               \A q \in Requests : q # r => outcome'[q] = outcome[q]
        PROVE  Service!Begin(r)
    <2>1. Status[r] = "idle"
      BY <1>2 DEF Status
    <2>2. Status' = [Status EXCEPT ![r] = "running"]
      BY <1>2 DEF Status, TypeOK
    <2> QED BY <1>2, <2>1, <2>2 DEF Service!Begin
  <1>3. ASSUME UNCHANGED <<result, outcome>>,
               \A q \in Requests : pc'[q] = pc[q] \/ (pc[q] = "idle" /\ pc'[q] = "queued")
        PROVE  UNCHANGED Service!vars
    <2>1. Status' = Status
      BY <1>3 DEF Status, TypeOK
    <2> QED BY <1>3, <2>1 DEF Service!vars
  <1>4. ASSUME NEW r \in Requests, Answer(r) PROVE Service!Finish(r)
    <2>1. Status[r] = "running" /\ Status' = [Status EXCEPT ![r] = outcome[r]]
      BY <1>4 DEF Answer, Status, TypeOK
    <2>2. Decided(r) /\ result' = result
      BY <1>4 DEF Answer, Shape, RequestShape
    <2>3. CASE outcome[r] \in Results /\ result[r] = outcome[r]
      BY <2>1, <2>2, <2>3 DEF Service!Finish, Service!Return, Results
    <2>4. CASE outcome[r] = "Timeout"
      BY <2>1, <2>2, <2>4 DEF Service!Finish, Service!GiveUp
    <2>5. CASE outcome[r] \in Rejections /\ result[r] = "none"
      BY <2>1, <2>2, <2>5 DEF Service!Finish, Service!Reject
    <2> QED BY <2>2, <2>3, <2>4, <2>5 DEF Decided, Rejections
  <1>5. ASSUME NEW r \in Requests, Handle(r) PROVE [Service!Next]_(Service!vars)
    <2>1. ASSUME NEW s \in Requests \cup {NoRequest}, Arrive(r, s)
          PROVE  UNCHANGED Service!vars
      <3>1. \A q \in Requests : q \in {r, s} => pc[q] = "idle"
        BY <2>1, ServerAssumption DEF Arrive
      <3> QED BY <1>3, <2>1, <3>1 DEF Arrive
    <2>2. CASE Begin(r)
      <3>1. CASE Refuse(r) \/ FindUninitialized(r)
        <4>1. /\ pc[r] = "queued" /\ pc' = [pc EXCEPT ![r] = "settled"] /\ result' = result
              /\ \A q \in Requests : q # r => outcome'[q] = outcome[q]
          BY <3>1 DEF Refuse, FindUninitialized, Decide, IsNext, TypeOK
        <4> QED BY <1>2, <4>1 DEF Service!Next
      <3>2. CASE Invoke(r) \/ Submit(r)
        <4>1. /\ pc[r] = "queued" /\ pc' = [pc EXCEPT ![r] = "running"]
              /\ result' = result /\ outcome' = outcome
          BY <3>2 DEF Invoke, Submit, IsNext
        <4> QED BY <1>2, <4>1 DEF Service!Next
      <3> QED BY <2>2, <3>1, <3>2 DEF Begin
    <2>3. ASSUME NEW res \in Results, HandlerEnds(r, res) PROVE Service!Answer(r)
      <3>1. Begun(r) /\ result[r] = "none" /\ outcome[r] \notin Rejections
        BY <2>3, ServerAssumption
           DEF HandlerEnds, Executing, Begun, Shape, RequestShape, Decided, Results, Rejections
      <3> QED BY <1>1, <2>3, <3>1 DEF HandlerEnds
    <2>4. CASE TimeOut(r)
      <3>1. pc[r] = "running" /\ pc' = [pc EXCEPT ![r] = "settled"] /\ result' = result
            /\ \A q \in Requests : q # r => outcome'[q] = outcome[q]
        BY <2>4 DEF TimeOut, Decide, TypeOK
      <3>2. Status' = Status
        BY <3>1 DEF Status, TypeOK
      <3> QED BY <3>1, <3>2 DEF Service!vars
    <2>5. CASE Answer(r)
      BY <1>4, <2>5 DEF Service!Next
    <2> QED BY <1>5, <2>1, <2>2, <2>3, <2>4, <2>5 DEF Handle, Service!Next
  <1>6. ASSUME NEW r \in Calls, NEW res \in Results, Ends(r, res)
        PROVE  [Service!Next]_(Service!vars)
    BY <1>1, <1>6, TasksAreNotRefused DEF Ends, Service!Next
  <1>7. CASE \E w \in Workers : Take(w) \/ InitWorker(w) \/ Recycle(w)
    BY <1>3, <1>7 DEF Take, InitWorker, Recycle
  <1>8. CASE Close \/ Exit \/ UNCHANGED vars
    BY <1>3, <1>8 DEF Close, Exit, vars
  <1> QED BY <1>5, <1>6, <1>7, <1>8, PoolEnds DEF Next, Work

\* The runtime keeps the promises of CallService to its client: a request is
\* answered once, with what its own handler came to, a timeout or a refusal, and
\* what was refused never reached a handler.
THEOREM ImplementsCallService == SafeSpec => Service!SafeSpec
  BY Bookkeeping, RefineInit, RefineStep, PTL DEF SafeSpec, Service!SafeSpec
===============================================================================
