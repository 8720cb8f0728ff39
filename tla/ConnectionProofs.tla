--------------------------- MODULE ConnectionProofs ---------------------------
(***************************************************************************)
(* Proofs about Connection, for every sequence of frames, whatever each of  *)
(* them holds and however the stream is cut.                                *)
(***************************************************************************)
EXTENDS Connection, FiniteSetTheorems, SequenceTheorems, WellFoundedInduction, TLAPS

Metrics == {"success", "typed_error", "framework_failure"}
Answers == [id : Ids, body : {"rpcResponse", "control", "frameworkError"}]

(* What is known of each request, whatever the bytes are.                    *)
RequestInv ==
    /\ kind \in [Ids -> Kinds]
    /\ task \in [Ids -> {"none", "waiting", "running", "over"}]
    /\ outcome \in [Ids -> Outcomes]
    /\ answers \in Seq(Answers)
    /\ counts \in [Metrics -> Nat]
    /\ \A r \in Ids :
         /\ task[r] # "none" => kind[r] = "rpc"
         /\ task[r] = "waiting" => outcome[r] \in {"none", "timeout"}
         /\ outcome[r] = "answered" => kind[r] \in {"ping", "refused", "badPayload", "shutdown"}
         /\ outcome[r] \notin {"none", "answered"} => kind[r] = "rpc"

LEMMA RequestInit == Init => RequestInv
  BY DEF Init, RequestInv, Outcomes, Metrics, Answers

(* What the steps of Next do to a request, apart from the bytes.             *)
Settles(r, o) ==
    /\ outcome[r] = "none" /\ task[r] # "none"
    /\ o \in {"success", "typed_error", "failed", "unencodable", "timeout"}
    /\ task' \in {task, [task EXCEPT ![r] = "over"]}
    /\ o # "timeout" => task[r] = "running" /\ task' = [task EXCEPT ![r] = "over"]
    /\ Settle(r, o)
    /\ UNCHANGED <<kind, ended>>

Moves(r) ==
    /\ \/ /\ outcome[r] = "none" /\ task[r] = "none" /\ kind[r] = "rpc"
          /\ task' \in {[task EXCEPT ![r] = "waiting"], [task EXCEPT ![r] = "running"]}
       \/ /\ task[r] = "waiting"
          /\ task' = [task EXCEPT ![r] = "running"]
          /\ UNCHANGED gauge
       \/ /\ task[r] = "running" /\ outcome[r] # "none"
          /\ task' = [task EXCEPT ![r] = "over"]
          /\ UNCHANGED gauge
    /\ UNCHANGED <<kind, outcome, ended, answers, counts>>

LEMMA StepCases ==
    ASSUME [Next]_vars
    PROVE  \/ UNCHANGED <<kind, task, outcome, ended, answers, counts, gauge>>
           \/ \E r \in Ids :
                \/ Reply(r) \/ Shutdown(r) \/ Moves(r)
                \/ \E o \in Outcomes : Settles(r, o)
  <1>1. ASSUME NEW n \in 1..(Len(Bytes) - got), Data(n)
        PROVE  UNCHANGED <<kind, task, outcome, ended, answers, counts, gauge>>
    BY <1>1 DEF Data, metrics
  <1>2. ASSUME NEW r \in Ids, Invoke(r) PROVE Moves(r)
    BY <1>2 DEF Invoke, Moves, Current, wire
  <1>3. ASSUME NEW r \in Ids, Start(r) PROVE Moves(r)
    BY <1>3 DEF Start, Moves, wire, metrics
  <1>4. ASSUME NEW r \in Ids, TimeOut(r) PROVE Settles(r, "timeout")
    BY <1>4 DEF TimeOut, Settles, Open, wire
  <1>5. ASSUME NEW r \in Ids, NEW o \in Results, Finish(r, o)
        PROVE  Moves(r) \/ Settles(r, o)
    <2>1. CASE outcome[r] = "none"
      BY <1>5, <2>1 DEF Finish, Settles, Results, wire
    <2>2. CASE outcome[r] # "none"
      BY <1>5, <2>2 DEF Finish, Moves, wire, metrics
    <2> QED BY <2>1, <2>2
  <1>6. CASE UNCHANGED vars
    BY <1>6 DEF vars, wire, metrics
  <1>7. Results \subseteq Outcomes /\ "timeout" \in Outcomes
    BY DEF Results, Outcomes
  <1> QED BY <1>1, <1>2, <1>3, <1>4, <1>5, <1>6, <1>7 DEF Next

LEMMA RequestStep == RequestInv /\ [Next]_vars => RequestInv'
  <1> SUFFICES ASSUME RequestInv, [Next]_vars PROVE RequestInv'
    OBVIOUS
  <1>a. ASSUME NEW r \in Ids, NEW body \in {"rpcResponse", "control", "frameworkError"},
               Write(r, body)
        PROVE  answers' \in Seq(Answers)
    <2>1. [id |-> r, body |-> body] \in Answers
      BY <1>a DEF Answers
    <2> QED BY <1>a, <2>1, AppendProperties DEF Write, RequestInv
  <1>c. ASSUME NEW os, Record(os) PROVE counts' \in [Metrics -> Nat]
    BY <1>c DEF Record, RequestInv, Metrics
  <1>1. CASE UNCHANGED <<kind, task, outcome, ended, answers, counts, gauge>>
    BY <1>1 DEF RequestInv
  <1>2. ASSUME NEW r \in Ids, Reply(r) PROVE RequestInv'
    <2>1. outcome' = [outcome EXCEPT ![r] = "answered"] /\ "answered" \in Outcomes
      BY <1>2 DEF Reply, Outcomes
    <2>2. UNCHANGED <<kind, task>> /\ kind[r] \in {"ping", "refused", "badPayload"}
             /\ task[r] = "none"
      BY <1>2 DEF Reply, wire, Current
    <2>3. answers' \in Seq(Answers)
      BY <1>2, <1>a DEF Reply
    <2>4. counts' \in [Metrics -> Nat]
      BY <1>2, <1>c DEF Reply, RequestInv, metrics
    <2> QED BY <2>1, <2>2, <2>3, <2>4 DEF RequestInv
  <1>3. ASSUME NEW r \in Ids, Shutdown(r) PROVE RequestInv'
    <2>1. outcome' = [outcome EXCEPT ![r] = "answered"] /\ "answered" \in Outcomes
      BY <1>3 DEF Shutdown, Outcomes
    <2>2. UNCHANGED <<kind, task, answers, counts>> /\ kind[r] = "shutdown" /\ task[r] = "none"
      BY <1>3 DEF Shutdown, wire, Current, metrics
    <2> QED BY <2>1, <2>2 DEF RequestInv
  <1>4. ASSUME NEW r \in Ids, Moves(r) PROVE RequestInv'
    BY <1>4 DEF Moves, RequestInv
  <1>5. ASSUME NEW r \in Ids, NEW o \in Outcomes, Settles(r, o) PROVE RequestInv'
    <2>1. outcome' = [outcome EXCEPT ![r] = o] /\ o \notin {"none", "answered"}
      BY <1>5 DEF Settles, Settle
    <2>2. UNCHANGED kind /\ kind[r] = "rpc"
      BY <1>5 DEF Settles, RequestInv
    <2>3. answers' \in Seq(Answers)
      BY <1>5, <1>a DEF Settles, Settle
    <2>4. counts' \in [Metrics -> Nat]
      BY <1>5, <1>c DEF Settles, Settle
    <2>5. /\ task' \in {task, [task EXCEPT ![r] = "over"]}
          /\ task[r] # "none"
          /\ o # "timeout" => task' = [task EXCEPT ![r] = "over"]
      BY <1>5 DEF Settles
    <2>6. /\ task' \in [Ids -> {"none", "waiting", "running", "over"}]
          /\ task'[r] = "waiting" => o = "timeout"
          /\ \A q \in Ids : q # r => task'[q] = task[q]
      BY <2>5 DEF RequestInv
    <2> QED BY <2>1, <2>2, <2>3, <2>4, <2>6 DEF RequestInv
  <1> QED BY <1>1, <1>2, <1>3, <1>4, <1>5, StepCases

THEOREM RequestInvariant == Spec => []RequestInv
  BY RequestInit, RequestStep, PTL DEF Spec

-------------------------------------------------------------------------------
(* Answers.                                                                  *)

(* Who was answered has come to something, and the other way around.         *)
AnswerInv ==
    /\ \A i, j \in DOMAIN answers : answers[i].id = answers[j].id => i = j
    /\ \A i \in DOMAIN answers :
         /\ outcome[answers[i].id] # "none"
         /\ answers[i].body = "control" <=> kind[answers[i].id] = "ping"
         /\ answers[i].body = "rpcResponse"
              <=> outcome[answers[i].id] \in {"success", "typed_error"}
    /\ ~ended => \A r \in Ids :
         outcome[r] # "none" => \E i \in DOMAIN answers : answers[i].id = r

LEMMA AnswerIds ==
    ASSUME RequestInv
    PROVE  \A i \in DOMAIN answers : answers[i].id \in Ids
  <1>1. answers \in Seq(Answers)
    BY DEF RequestInv
  <1>2. \A i \in DOMAIN answers : answers[i] \in Answers
    BY <1>1, LenProperties, ElementOfSeq
  <1> QED BY <1>2 DEF Answers

\* An answer to a request that had come to nothing.
LEMMA AnswerWritten ==
    ASSUME RequestInv, AnswerInv, NEW r \in Ids, NEW o, NEW body,
           body \in {"rpcResponse", "control", "frameworkError"},
           outcome[r] = "none", o # "none",
           outcome' = [outcome EXCEPT ![r] = o],
           UNCHANGED <<kind, ended>>,
           Write(r, body),
           body = "control" <=> kind[r] = "ping",
           body = "rpcResponse" <=> o \in {"success", "typed_error"}
    PROVE  AnswerInv'
  <1>1. /\ outcome'[r] = o
        /\ \A q \in Ids : q # r => outcome'[q] = outcome[q]
    BY DEF RequestInv
  <1>2. \A i \in DOMAIN answers : answers[i].id \in Ids /\ answers[i].id # r
    BY AnswerIds DEF AnswerInv
  <1>3. CASE ended
    <2>1. answers' = answers
      BY <1>3 DEF Write
    <2> QED BY <1>1, <1>2, <1>3, <2>1 DEF AnswerInv
  <1>4. CASE ~ended
    <2> DEFINE new == [id |-> r, body |-> body]
               n == Len(answers)
    <2>1. answers' = Append(answers, new) /\ new \in Answers
      BY <1>4 DEF Write, Answers
    <2>2. /\ n \in Nat /\ DOMAIN answers = 1..n /\ DOMAIN answers' = 1..(n + 1)
          /\ \A i \in 1..n : answers'[i] = answers[i]
          /\ answers'[n + 1] = new
      BY <2>1, AppendProperties, LenProperties DEF RequestInv
    <2>3. new.id = r /\ new.body = body
      OBVIOUS
    <2> HIDE DEF new, n
    <2>4. \A i \in 1..(n + 1) : i \in 1..n \/ i = n + 1
      BY <2>2
    <2>5. \A i, j \in DOMAIN answers' : answers'[i].id = answers'[j].id => i = j
      BY <1>2, <2>2, <2>3, <2>4 DEF AnswerInv
    <2>6. ASSUME NEW i \in DOMAIN answers'
          PROVE  /\ outcome'[answers'[i].id] # "none"
                 /\ answers'[i].body = "control" <=> kind'[answers'[i].id] = "ping"
                 /\ answers'[i].body = "rpcResponse"
                      <=> outcome'[answers'[i].id] \in {"success", "typed_error"}
      <3>1. CASE i \in 1..n
        BY <1>1, <1>2, <2>2, <3>1 DEF AnswerInv
      <3>2. CASE i = n + 1
        BY <1>1, <2>2, <2>3, <3>2
      <3> QED BY <2>2, <2>4, <3>1, <3>2
    <2>7. ASSUME NEW q \in Ids, outcome'[q] # "none"
          PROVE  \E i \in DOMAIN answers' : answers'[i].id = q
      <3>1. CASE q = r
        <4>1. n + 1 \in DOMAIN answers'
          BY <2>2
        <4> QED BY <2>2, <2>3, <3>1, <4>1
      <3>2. CASE q # r
        <4>1. PICK i \in DOMAIN answers : answers[i].id = q
          BY <1>1, <1>4, <2>7, <3>2 DEF AnswerInv
        <4>2. i \in DOMAIN answers' /\ answers'[i] = answers[i]
          BY <2>2
        <4> QED BY <4>1, <4>2
      <3> QED BY <3>1, <3>2
    <2> QED BY <2>5, <2>6, <2>7 DEF AnswerInv
  <1> QED BY <1>3, <1>4

LEMMA AnswerStep == RequestInv /\ AnswerInv /\ [Next]_vars => AnswerInv'
  <1> SUFFICES ASSUME RequestInv, AnswerInv, [Next]_vars PROVE AnswerInv'
    OBVIOUS
  <1>1. CASE UNCHANGED <<kind, task, outcome, ended, answers, counts, gauge>>
    BY <1>1 DEF AnswerInv
  <1>2. ASSUME NEW r \in Ids, Reply(r) PROVE AnswerInv'
    <2> DEFINE body == IF kind[r] = "ping" THEN "control" ELSE "frameworkError"
    <2>1. /\ outcome[r] = "none" /\ UNCHANGED <<kind, ended>>
          /\ outcome' = [outcome EXCEPT ![r] = "answered"]
          /\ Write(r, body)
      BY <1>2 DEF Reply, Current, wire
    <2> QED BY <2>1, AnswerWritten
  <1>3. ASSUME NEW r \in Ids, Shutdown(r) PROVE AnswerInv'
    <2>1. /\ outcome[r] = "none" /\ UNCHANGED <<kind, answers>> /\ ended'
          /\ outcome' = [outcome EXCEPT ![r] = "answered"]
      BY <1>3 DEF Shutdown, Current, wire
    <2>2. \A i \in DOMAIN answers : answers[i].id \in Ids /\ answers[i].id # r
      BY <2>1, AnswerIds DEF AnswerInv
    <2>3. \A q \in Ids : q # r => outcome'[q] = outcome[q]
      BY <2>1 DEF RequestInv
    <2> QED BY <2>1, <2>2, <2>3 DEF AnswerInv
  <1>4. ASSUME NEW r \in Ids, Moves(r) PROVE AnswerInv'
    BY <1>4 DEF Moves, AnswerInv
  <1>5. ASSUME NEW r \in Ids, NEW o \in Outcomes, Settles(r, o) PROVE AnswerInv'
    <2> DEFINE body == IF o \in {"success", "typed_error"} THEN "rpcResponse"
                       ELSE "frameworkError"
    <2>1. /\ outcome[r] = "none" /\ o # "none" /\ UNCHANGED <<kind, ended>>
          /\ outcome' = [outcome EXCEPT ![r] = o]
          /\ Write(r, body)
      BY <1>5 DEF Settles, Settle
    <2>2. kind[r] = "rpc"
      BY <1>5 DEF Settles, RequestInv
    <2> QED BY <2>1, <2>2, AnswerWritten
  <1> QED BY <1>1, <1>2, <1>3, <1>4, <1>5, StepCases

\* AnswersAreOwn: no request is answered twice, each by the kind of answer it
\* has earned, and none is forgotten before socket.end().
THEOREM OneAnswerEach == Spec => []AnswersAreOwn
  <1>1. Init => AnswerInv
    BY DEF Init, AnswerInv
  <1>2. AnswerInv /\ RequestInv => AnswersAreOwn
    <2> SUFFICES ASSUME AnswerInv, RequestInv PROVE AnswersAreOwn
      OBVIOUS
    <2>1. IsInjective([i \in DOMAIN answers |-> answers[i].id])
      BY DEF IsInjective, AnswerInv
    <2> QED BY <2>1 DEF AnswerInv, AnswersAreOwn, Range
  <1> QED BY <1>1, <1>2, AnswerStep, RequestInvariant, PTL DEF Spec

-------------------------------------------------------------------------------
(* Metrics.                                                                  *)

LEMMA IdsFinite == IsFiniteSet(Ids)
  <1>1. Requests \in Seq(Ids) /\ Len(Requests) \in Nat
    BY ConnectionAssumption, LenProperties DEF Ids
  <1>2. IsFiniteSet(1..Len(Requests))
    BY <1>1, FS_Interval
  <1>3. Requests \in Surjection(1..Len(Requests), Ids)
    BY <1>1 DEF Surjection, Ids, Range
  <1> QED BY <1>2, <1>3, FS_Surjection

\* A call that comes to o is one more of those that came to one of os, if o is
\* one of them.
LEMMA CameToGrows ==
    ASSUME RequestInv, NEW r \in Ids, NEW o, NEW os, "none" \notin os,
           outcome[r] = "none", kind[r] = "rpc", UNCHANGED kind,
           outcome' = [outcome EXCEPT ![r] = o]
    PROVE  /\ CameTo(os) \in Nat
           /\ CameTo(os)' = CameTo(os) + IF o \in os THEN 1 ELSE 0
  <1> DEFINE S == {q \in Ids : kind[q] = "rpc" /\ outcome[q] \in os}
             T == {q \in Ids : kind'[q] = "rpc" /\ outcome'[q] \in os}
  <1>1. IsFiniteSet(S)
    BY IdsFinite, FS_Subset
  <1>2. T = IF o \in os THEN S \cup {r} ELSE S
    BY DEF RequestInv
  <1>3. r \notin S
    OBVIOUS
  <1>4. CameTo(os) = Cardinality(S) /\ CameTo(os)' = Cardinality(T)
    BY DEF CameTo
  <1> HIDE DEF S, T
  <1>5. Cardinality(S) \in Nat
    BY <1>1, FS_CardinalityType
  <1>6. Cardinality(S \cup {r}) = Cardinality(S) + 1
    BY <1>1, <1>3, FS_AddElement
  <1> QED BY <1>2, <1>4, <1>5, <1>6

BadPayloads == Cardinality({r \in Ids : kind[r] = "badPayload" /\ outcome[r] # "none"})

(* The depth of the queue is read after a task leaves it: it is right, but    *)
(* for the calls that gave up and those that have only joined.               *)
MetricsInv ==
    /\ counts["success"] = CameTo({"success", "unencodable"})
    /\ counts["typed_error"] = CameTo({"typed_error"})
    /\ counts["framework_failure"] = CameTo({"failed", "timeout", "unencodable"}) + BadPayloads
    /\ (\A r \in Ids : ~Open(r) /\ outcome[r] # "timeout") => gauge = 0

LEMMA NoneWaits ==
    ASSUME RequestInv, \A r \in Ids : ~Open(r) /\ outcome[r] # "timeout"
    PROVE  Waiting = {}
  BY DEF RequestInv, Open, Waiting

LEMMA MetricsStep == RequestInv /\ RequestInv' /\ MetricsInv /\ [Next]_vars => MetricsInv'
  <1> SUFFICES ASSUME RequestInv, RequestInv', MetricsInv, [Next]_vars PROVE MetricsInv'
    OBVIOUS
  <1>u. ASSUME UpdateQueueDepth, \A r \in Ids : ~Open(r)' /\ outcome'[r] # "timeout"
        PROVE  gauge' = 0
    <2>1. Waiting' = {}
      BY <1>u DEF RequestInv, Open, Waiting
    <2> QED BY <1>u, <2>1, FS_EmptySet DEF UpdateQueueDepth
  <1>b. BadPayloads \in Nat
    BY IdsFinite, FS_Subset, FS_CardinalityType DEF BadPayloads
  <1>1. CASE UNCHANGED <<kind, task, outcome, ended, answers, counts, gauge>>
    BY <1>1 DEF MetricsInv, CameTo, BadPayloads, Open
  <1>2. ASSUME NEW r \in Ids, outcome[r] = "none", task[r] = "none", kind[r] # "rpc",
               UNCHANGED <<kind, task>>, outcome' = [outcome EXCEPT ![r] = "answered"]
        PROVE  /\ \A os : CameTo(os)' = CameTo(os)
               /\ \A q \in Ids : Open(q)' <=> Open(q)
               /\ \A q \in Ids : outcome'[q] = "timeout" <=> outcome[q] = "timeout"
               /\ kind[r] # "badPayload" => BadPayloads' = BadPayloads
               /\ kind[r] = "badPayload" => BadPayloads' = BadPayloads + 1
    <2>1. ASSUME NEW os PROVE CameTo(os)' = CameTo(os)
      <3>1. {q \in Ids : kind'[q] = "rpc" /\ outcome'[q] \in os}
               = {q \in Ids : kind[q] = "rpc" /\ outcome[q] \in os}
        BY <1>2 DEF RequestInv
      <3> QED BY <3>1 DEF CameTo
    <2> DEFINE S == {q \in Ids : kind[q] = "badPayload" /\ outcome[q] # "none"}
               T == {q \in Ids : kind'[q] = "badPayload" /\ outcome'[q] # "none"}
    <2>2. T = IF kind[r] = "badPayload" THEN S \cup {r} ELSE S
      BY <1>2 DEF RequestInv
    <2>3. r \notin S /\ IsFiniteSet(S)
      BY <1>2, IdsFinite, FS_Subset
    <2>4. BadPayloads = Cardinality(S) /\ BadPayloads' = Cardinality(T)
      BY DEF BadPayloads
    <2>5. Cardinality(S \cup {r}) = Cardinality(S) + 1
      <3> HIDE DEF S
      <3> QED BY <2>3, FS_AddElement
    <2> HIDE DEF S, T
    <2> QED BY <1>2, <2>1, <2>2, <2>4, <2>5 DEF RequestInv, Open
  <1>3. ASSUME NEW r \in Ids, Reply(r) PROVE MetricsInv'
    <2>1. /\ outcome[r] = "none" /\ task[r] = "none"
          /\ kind[r] \in {"ping", "refused", "badPayload"}
          /\ UNCHANGED <<kind, task>> /\ outcome' = [outcome EXCEPT ![r] = "answered"]
      BY <1>3 DEF Reply, Current, wire
    <2>2. CASE kind[r] = "badPayload"
      <3>1. Record({"framework_failure"}) /\ UpdateQueueDepth
        BY <1>3, <2>2 DEF Reply
      <3>2. /\ counts'["success"] = counts["success"]
            /\ counts'["typed_error"] = counts["typed_error"]
            /\ counts'["framework_failure"] = counts["framework_failure"] + 1
        BY <3>1 DEF Record, RequestInv, Metrics
      <3>3. BadPayloads' = BadPayloads + 1
        BY <1>2, <2>1, <2>2
      <3>4. CameTo({"failed", "timeout", "unencodable"}) \in Nat
        BY IdsFinite, FS_Subset, FS_CardinalityType DEF CameTo
      <3>5. \A os : CameTo(os)' = CameTo(os)
        BY <1>2, <2>1
      <3>6. counts'["framework_failure"] =
              CameTo({"failed", "timeout", "unencodable"})' + BadPayloads'
        BY <1>b, <3>2, <3>3, <3>4, <3>5 DEF MetricsInv
      <3>7. (\A q \in Ids : ~Open(q)' /\ outcome'[q] # "timeout") => gauge' = 0
        BY <1>u, <3>1
      <3> QED BY <3>2, <3>5, <3>6, <3>7 DEF MetricsInv
    <2>3. CASE kind[r] # "badPayload"
      <3>1. UNCHANGED <<counts, gauge>>
        BY <1>3, <2>3 DEF Reply, metrics
      <3> QED BY <1>2, <2>1, <2>3, <3>1 DEF MetricsInv
    <2> QED BY <2>2, <2>3
  <1>4. ASSUME NEW r \in Ids, Shutdown(r) PROVE MetricsInv'
    <2>1. /\ outcome[r] = "none" /\ task[r] = "none" /\ kind[r] = "shutdown"
          /\ UNCHANGED <<kind, task, counts, gauge>>
          /\ outcome' = [outcome EXCEPT ![r] = "answered"]
      BY <1>4 DEF Shutdown, Current, wire, metrics
    <2> QED BY <1>2, <2>1 DEF MetricsInv
  <1>5. ASSUME NEW r \in Ids, Moves(r) PROVE MetricsInv'
    <2>1. UNCHANGED <<kind, outcome, counts>>
      BY <1>5 DEF Moves
    <2>2. (\A q \in Ids : ~Open(q)' /\ outcome'[q] # "timeout")
             => gauge' = gauge /\ \A q \in Ids : ~Open(q) /\ outcome[q] # "timeout"
      BY <1>5 DEF Moves, Open, RequestInv
    <2> QED BY <2>1, <2>2 DEF MetricsInv, CameTo, BadPayloads
  <1>6. ASSUME NEW r \in Ids, NEW o \in Outcomes, Settles(r, o) PROVE MetricsInv'
    <2>1. /\ outcome[r] = "none" /\ kind[r] = "rpc" /\ UNCHANGED kind
          /\ outcome' = [outcome EXCEPT ![r] = o]
          /\ o \in {"success", "typed_error", "failed", "unencodable", "timeout"}
          /\ Record(Counted(o)) /\ UpdateQueueDepth
      BY <1>6 DEF Settles, Settle, RequestInv
    <2>2. BadPayloads' = BadPayloads
      <3>1. {q \in Ids : kind'[q] = "badPayload" /\ outcome'[q] # "none"}
               = {q \in Ids : kind[q] = "badPayload" /\ outcome[q] # "none"}
        BY <2>1 DEF RequestInv
      <3> QED BY <3>1 DEF BadPayloads
    <2>3. \A os : "none" \notin os =>
             /\ CameTo(os) \in Nat
             /\ CameTo(os)' = CameTo(os) + IF o \in os THEN 1 ELSE 0
      BY <2>1, CameToGrows
    <2>4. \A m \in Metrics : counts'[m] = counts[m] + IF m \in Counted(o) THEN 1 ELSE 0
      BY <2>1 DEF Record, RequestInv
    <2>5. /\ counts'["success"] = counts["success"]
               + IF o \in {"success", "unencodable"} THEN 1 ELSE 0
          /\ counts'["typed_error"] = counts["typed_error"]
               + IF o \in {"typed_error"} THEN 1 ELSE 0
          /\ counts'["framework_failure"] = counts["framework_failure"]
               + IF o \in {"failed", "timeout", "unencodable"} THEN 1 ELSE 0
      BY <2>1, <2>4 DEF Counted, Metrics
    <2>6. counts'["success"] = CameTo({"success", "unencodable"})'
      BY <2>3, <2>5 DEF MetricsInv
    <2>7. counts'["typed_error"] = CameTo({"typed_error"})'
      BY <2>3, <2>5 DEF MetricsInv
    <2>8. counts'["framework_failure"] =
            CameTo({"failed", "timeout", "unencodable"})' + BadPayloads'
      BY <1>b, <2>2, <2>3, <2>5 DEF MetricsInv
    <2> QED BY <1>u, <2>1, <2>6, <2>7, <2>8 DEF MetricsInv
  <1> QED BY <1>1, <1>3, <1>4, <1>5, <1>6, StepCases

\* MetricsAreHonest: each answered call is in the count it belongs to, and the
\* queue depth comes back to zero.
THEOREM MetricsCountCalls == Spec => []MetricsAreHonest
  <1>1. Init => MetricsInv
    <2> SUFFICES ASSUME Init PROVE MetricsInv
      OBVIOUS
    <2>1. \A os : "none" \notin os => CameTo(os) = 0
      <3> SUFFICES ASSUME NEW os, "none" \notin os PROVE CameTo(os) = 0
        OBVIOUS
      <3>1. {r \in Ids : kind[r] = "rpc" /\ outcome[r] \in os} = {}
        BY DEF Init
      <3> QED BY <3>1, FS_EmptySet DEF CameTo
    <2>2. BadPayloads = 0
      <3>1. {r \in Ids : kind[r] = "badPayload" /\ outcome[r] # "none"} = {}
        BY DEF Init
      <3> QED BY <3>1, FS_EmptySet DEF BadPayloads
    <2> QED BY <2>1, <2>2 DEF Init, MetricsInv
  <1>2. MetricsInv /\ RequestInv => MetricsAreHonest
    <2> SUFFICES ASSUME MetricsInv, RequestInv, CameTo({"timeout"}) = 0
                 PROVE  \A r \in Ids : outcome[r] # "timeout"
      BY DEF MetricsInv, MetricsAreHonest, BadPayloads
    <2> DEFINE late == {r \in Ids : kind[r] = "rpc" /\ outcome[r] \in {"timeout"}}
    <2>1. late = {}
      BY IdsFinite, FS_Subset, FS_EmptySet DEF CameTo
    <2> QED BY <2>1 DEF RequestInv
  <1> QED BY <1>1, <1>2, MetricsStep, RequestInvariant, PTL DEF Spec

-------------------------------------------------------------------------------
(* Frames.                                                                   *)

LEMMA Digit ==
    ASSUME NEW n \in Nat
    PROVE  /\ n \div 256 \in Nat /\ n % 256 \in Byte
           /\ n % 256 = n - 256 * (n \div 256)
  <1>1. n \div 256 \in Nat
    BY SMT
  <1>2. n % 256 = n - 256 * (n \div 256)
    BY SMT
  <1>3. n % 256 \in Byte
    BY SMT DEF Byte
  <1> QED BY <1>1, <1>2, <1>3, Zenon

LEMMA LengthOfHeader ==
    ASSUME NEW n \in Nat, FitsHeader(n)
    PROVE  /\ Header(n) \in Seq(Byte) /\ Len(Header(n)) = 4
           /\ Length(Header(n)) = n
  <1> DEFINE a == n \div 256
             b == n \div 65536
             c == n \div 16777216
  <1>1. b = a \div 256 /\ c = b \div 256 /\ c < 256
    <2>1. b = a \div 256
      BY SMTT(30)
    <2>2. c = b \div 256
      BY SMTT(30)
    <2>3. c < 256
      BY SMTT(30) DEF FitsHeader
    <2> QED BY <2>1, <2>2, <2>3, SMTT(30)
  <1> HIDE DEF a, b, c
  <1> DEFINE w == n % 256
             z == a % 256
             y == b % 256
             x == c % 256
  <1>2. a \in Nat /\ w \in Byte /\ w = n - 256 * a
    <2>1. n \div 256 \in Nat /\ w \in Byte /\ w = n - 256 * (n \div 256)
      BY Digit, Zenon
    <2> HIDE DEF w
    <2> QED BY <2>1 DEF a
  <1> HIDE DEF w
  <1>3. b \in Nat /\ z \in Byte /\ z = a - 256 * b
    <2>1. a \div 256 \in Nat /\ z \in Byte /\ z = a - 256 * (a \div 256)
      BY <1>2, Digit, Zenon
    <2> HIDE DEF z
    <2> QED BY <1>1, <2>1
  <1> HIDE DEF z
  <1>4. c \in Nat /\ y \in Byte /\ y = b - 256 * c
    <2>1. b \div 256 \in Nat /\ y \in Byte /\ y = b - 256 * (b \div 256)
      BY <1>3, Digit, Zenon
    <2> HIDE DEF y
    <2> QED BY <1>1, <2>1
  <1> HIDE DEF y
  <1>5. x = c /\ x \in Byte
    <2>1. x = c
      BY <1>1, <1>4, SMT
    <2> QED BY <1>4, <2>1, Digit, Zenon
  <1> HIDE DEF x
  <1>6. Header(n) = <<x, y, z, w>>
    BY SMTT(30) DEF Header, x, y, z, w, a, b, c
  <1>7. x * 16777216 + y * 65536 + z * 256 + w = n
    BY <1>2, <1>3, <1>4, <1>5, SMTT(30)
  <1>8. Length(<<x, y, z, w>>) = n
    BY <1>7, SMTT(30) DEF Length
  <1>9. <<x, y, z, w>> \in Seq(Byte) /\ Len(<<x, y, z, w>>) = 4
    BY <1>2, <1>3, <1>4, <1>5, SMT
  <1> QED BY <1>6, <1>8, <1>9, Zenon

LEMMA NatSetInduction ==
    ASSUME NEW S, 0 \in S, \A n \in Nat : n \in S => n + 1 \in S
    PROVE  Nat \subseteq S
  <1> DEFINE less == {p \in Nat \X Nat : p[1] < p[2]}
             T == Nat \ S
  <1> SUFFICES ASSUME T # {} PROVE FALSE
    OBVIOUS
  <1>1. IsWellFoundedOn(less, Nat)
    <2>1. IsWellFoundedOn(OpToRel(<, Nat), Nat)
      BY NatLessThanWellFounded
    <2>2. OpToRel(<, Nat) = less
      BY Zenon DEF OpToRel
    <2> QED BY <2>1, <2>2, Zenon
  <1>2. PICK x \in T : \A y \in T : ~(<<y, x>> \in less)
    <2>1. T \subseteq Nat /\ T # {}
      OBVIOUS
    <2> HIDE DEF less, T
    <2> QED BY <1>1, <2>1, WFMin, Zenon
  <1>3. x \in Nat \ {0}
    OBVIOUS
  <1>4. x - 1 \in Nat /\ <<x - 1, x>> \in less
    BY <1>3
  <1>5. x - 1 \in S
    BY <1>2, <1>4
  <1>6. (x - 1) + 1 \in S
    BY <1>4, <1>5
  <1> QED BY <1>3, <1>6

LEMMA FlattenIs ==
    ASSUME NEW X, NEW s \in Seq(Seq(X)), NEW g \in [0..Len(s) -> Seq(X)],
           g[0] = <<>>, \A i \in 1..Len(s) : g[i] = g[i - 1] \o s[i]
    PROVE  FlattenSeq(s) = g[Len(s)]
  <1> DEFINE n == Len(s)
  <1>1. n \in Nat /\ \A i \in 1..n : s[i] \in Seq(X)
    BY LenProperties, ElementOfSeq
  <1>2. CASE n = 0
    <2>1. s = <<>>
      BY <1>2, EmptySeq
    <2> QED BY <1>2, <2>1, Zenon DEF FlattenSeq
  <1>3. CASE n # 0
    <2> DEFINE f == CHOOSE f : f = [i \in 1..n |-> IF i = 1 THEN s[i] ELSE f[i - 1] \o s[i]]
               h == [i \in 1..n |-> g[i]]
    <2>1. FlattenSeq(s) = f[n]
      BY <1>3, Zenon DEF FlattenSeq
    <2>2. 1 \in 1..n /\ 1 - 1 = 0
      BY <1>1, <1>3
    <2>3. g[1] = s[1]
      <3>1. g[1] = g[1 - 1] \o s[1]
        BY <2>2, Zenon
      <3>2. g[1] = <<>> \o s[1]
        BY <2>2, <3>1, Zenon
      <3>3. <<>> \o s[1] = s[1]
        <4>1. s[1] \in Seq(X)
          BY <1>1, <2>2, Zenon
        <4> QED BY <4>1, ConcatEmptySeq, Zenon
      <3> QED BY <3>2, <3>3, Zenon
    <2>4. ASSUME NEW i \in 1..n
          PROVE  g[i] = IF i = 1 THEN s[i] ELSE h[i - 1] \o s[i]
      <3>1. CASE i = 1
        BY <2>3, <3>1, Zenon
      <3>2. CASE i # 1
        <4>1. i - 1 \in 1..n
          <5> HIDE DEF n
          <5> QED BY <1>1, <3>2
        <4>2. h[i - 1] = g[i - 1]
          BY <4>1, Zenon
        <4>3. g[i] = g[i - 1] \o s[i]
          BY Zenon
        <4> HIDE DEF h
        <4> QED BY <3>2, <4>2, <4>3, Zenon
      <3> QED BY <3>1, <3>2, Zenon
    <2>5. h = [i \in 1..n |-> IF i = 1 THEN s[i] ELSE h[i - 1] \o s[i]]
      <3> DEFINE w == [i \in 1..n |-> IF i = 1 THEN s[i] ELSE h[i - 1] \o s[i]]
      <3>1. \A i \in 1..n : w[i] = g[i]
        BY <2>4, Zenon
      <3>2. w = [i \in 1..n |-> w[i]]
        OBVIOUS
      <3> HIDE DEF w
      <3>3. w = [i \in 1..n |-> g[i]]
        BY <3>1, <3>2, Zenon
      <3> QED BY <3>3, Zenon DEF w
    <2>6. f = [i \in 1..n |-> IF i = 1 THEN s[i] ELSE f[i - 1] \o s[i]]
      <3> HIDE DEF h
      <3> QED BY <2>5, Zenon
    <2> HIDE DEF f, n
    <2> DEFINE T == {k \in Nat : k + 1 \in 1..n => f[k + 1] = g[k + 1]}
    <2>7. 0 \in T
      <3>1. f[1] = s[1]
        BY <2>2, <2>6, Zenon
      <3>2. 0 + 1 = 1
        OBVIOUS
      <3> QED BY <2>3, <3>1, <3>2
    <2>8. ASSUME NEW k \in Nat, k \in T PROVE k + 1 \in T
      <3> DEFINE m == k + 1 + 1
      <3> SUFFICES ASSUME m \in 1..n PROVE f[m] = g[m]
        OBVIOUS
      <3>1. m \in 1..n /\ m # 1 /\ m - 1 = k + 1 /\ k + 1 \in 1..n
        BY <1>1
      <3>2. f[k + 1] = g[k + 1]
        BY <2>8, <3>1
      <3> HIDE DEF m
      <3>3. f[m] = f[m - 1] \o s[m]
        BY <2>6, <3>1, Zenon
      <3>4. g[m] = g[m - 1] \o s[m]
        BY <3>1, Zenon DEF n
      <3> QED BY <3>1, <3>2, <3>3, <3>4, Zenon
    <2>9. Nat \subseteq T
      <3> HIDE DEF T
      <3> QED BY <2>7, <2>8, NatSetInduction
    <2>10. n - 1 \in T
      <3>1. n - 1 \in Nat
        BY <1>1, <1>3 DEF n
      <3> HIDE DEF T
      <3> QED BY <2>9, <3>1
    <2>11. (n - 1) + 1 = n /\ n \in 1..n
      BY <1>1, <1>3 DEF n
    <2>12. f[n] = g[n]
      BY <2>10, <2>11
    <2> QED BY <2>1, <2>12, Zenon DEF n
  <1> QED BY <1>2, <1>3, Zenon

LEMMA FlattenSteps ==
    ASSUME NEW X, NEW s \in Seq(Seq(X))
    PROVE  \E g \in [0..Len(s) -> Seq(X)] :
             g[0] = <<>> /\ \A i \in 1..Len(s) : g[i] = g[i - 1] \o s[i]
  <1>1. Len(s) \in Nat /\ \A i \in 1..Len(s) : s[i] \in Seq(X)
    BY LenProperties, ElementOfSeq
  <1> DEFINE Good(g, n) == /\ g \in [0..n -> Seq(X)]
                           /\ g[0] = <<>>
                           /\ \A i \in 1..n : g[i] = g[i - 1] \o s[i]
             Some(n) == n <= Len(s) => \E g : Good(g, n)
             T == {n \in Nat : Some(n)}
  <1>2. Some(0)
    <2> DEFINE g == [i \in 0..0 |-> <<>>]
    <2>1. g \in [0..0 -> Seq(X)] /\ g[0] = <<>>
      BY EmptySeq
    <2>2. 1..0 = {}
      OBVIOUS
    <2> HIDE DEF g
    <2> QED BY <2>1, <2>2, Zenon
  <1>3. ASSUME NEW n \in Nat, Some(n) PROVE Some(n + 1)
    <2> SUFFICES ASSUME n + 1 <= Len(s) PROVE \E g : Good(g, n + 1)
      BY Zenon
    <2>1. PICK g : Good(g, n)
      <3>1. n <= Len(s)
        BY <1>1
      <3> QED BY <1>3, <3>1, Zenon
    <2>2. g \in [0..n -> Seq(X)] /\ g[0] = <<>> /\ n \in 0..n /\ n + 1 \in 1..Len(s)
      BY <1>1, <2>1
    <2>3. s[n + 1] \in Seq(X) /\ g[n] \in Seq(X)
      BY <1>1, <2>2
    <2> DEFINE c == g[n] \o s[n + 1]
    <2>4. c \in Seq(X)
      BY <2>3, ConcatProperties
    <2> HIDE DEF c
    <2> DEFINE h == [i \in 0..(n + 1) |-> IF i <= n THEN g[i] ELSE c]
    <2>5. h \in [0..(n + 1) -> Seq(X)] /\ h[0] = <<>>
      <3>1. \A i \in 0..(n + 1) : i <= n => i \in 0..n
        OBVIOUS
      <3>2. \A i \in 0..(n + 1) : (IF i <= n THEN g[i] ELSE c) \in Seq(X)
        BY <2>2, <2>4, <3>1
      <3>3. 0 \in 0..(n + 1) /\ 0 <= n
        OBVIOUS
      <3> QED BY <2>2, <3>2, <3>3
    <2>6. (\A i \in 0..n : h[i] = g[i]) /\ h[n + 1] = c
      BY <2>2
    <2> HIDE DEF h
    <2>7. ASSUME NEW i \in 1..(n + 1) PROVE h[i] = h[i - 1] \o s[i]
      <3>1. CASE i <= n
        <4>1. i \in 1..n /\ i \in 0..n /\ i - 1 \in 0..n
          BY <3>1
        <4>2. g[i] = g[i - 1] \o s[i]
          BY <2>1, <4>1, Zenon
        <4>3. h[i] = g[i] /\ h[i - 1] = g[i - 1]
          BY <2>6, <4>1, Zenon
        <4> QED BY <4>2, <4>3, Zenon
      <3>2. CASE i = n + 1
        <4>1. i - 1 = n
          BY <3>2
        <4> QED BY <2>2, <2>6, <3>2, <4>1, Zenon DEF c
      <3>3. i <= n \/ i = n + 1
        OBVIOUS
      <3> QED BY <3>1, <3>2, <3>3, Zenon
    <2> QED BY <2>5, <2>7, Zenon
  <1>4. Nat \subseteq T
    <2> HIDE DEF Some
    <2>1. 0 \in T /\ \A n \in Nat : n \in T => n + 1 \in T
      BY <1>2, <1>3
    <2> HIDE DEF T
    <2> QED BY <2>1, NatSetInduction
  <1>5. Some(Len(s)) /\ Len(s) <= Len(s)
    <2> HIDE DEF Some
    <2> QED BY <1>1, <1>4
  <1> QED BY <1>5, Zenon

LEMMA LengthIsNat ==
    ASSUME NEW h \in Seq(Byte), Len(h) = 4
    PROVE  Length(h) \in Nat
  <1>1. h[1] \in Byte /\ h[2] \in Byte /\ h[3] \in Byte /\ h[4] \in Byte
    BY ElementOfSeq
  <1>2. h[1] \in Nat /\ h[2] \in Nat /\ h[3] \in Nat /\ h[4] \in Nat
    <2>1. Byte \subseteq Nat
      BY DEF Byte
    <2> QED BY <1>1, <2>1
  <1> DEFINE u == h[1] * 16777216
             v == h[2] * 65536
             w == h[3] * 256
  <1>3. u \in Nat /\ v \in Nat /\ w \in Nat
    BY <1>2, SMTT(30)
  <1>4. Length(h) = u + v + w + h[4]
    BY SMTT(30) DEF Length
  <1> HIDE DEF u, v, w
  <1> QED BY <1>2, <1>3, <1>4

LEMMA FrameEndGrows ==
    ASSUME NEW b \in Seq(Byte), NEW o \in Nat, o + HeaderSize <= Len(b)
    PROVE  FrameEnd(b, o) \in Nat /\ FrameEnd(b, o) > o
  <1>1. \A i \in (o + 1)..(o + HeaderSize) : b[i] \in Byte
    BY LenProperties, ElementOfSeq DEF HeaderSize
  <1> DEFINE h == SubSeq(b, o + 1, o + HeaderSize)
  <1>2. h \in Seq(Byte) /\ Len(h) = 4
    <2>1. o + 1 \in Int /\ o + HeaderSize \in Int
      BY DEF HeaderSize
    <2>2. /\ h \in Seq(Byte)
          /\ Len(h) = IF o + 1 <= o + HeaderSize
                      THEN (o + HeaderSize) - (o + 1) + 1 ELSE 0
      BY <1>1, <2>1, SubSeqProperties
    <2> HIDE DEF h
    <2> QED BY <2>2 DEF HeaderSize
  <1>3. Length(h) \in Nat
    <2> HIDE DEF h
    <2> QED BY <1>2, LengthIsNat
  <1> QED BY <1>3 DEF FrameEnd, HeaderSize

(* What one step of the decoder makes of the rest of its work.               *)
DecodeStep(b, o, f) ==
    IF HasFrame(b, o)
    THEN LET rest == f[FrameEnd(b, o)]
             payload == SubSeq(b, o + HeaderSize + 1, FrameEnd(b, o))
         IN  [frames |-> <<payload>> \o rest.frames, end |-> rest.end]
    ELSE [frames |-> <<>>, end |-> o]

LEMMA DecoderExists ==
    ASSUME NEW b \in Seq(Byte)
    PROVE  \E f : f = [o \in 0..Len(b) |-> DecodeStep(b, o, f)]
  <1> DEFINE L == Len(b)
             T == {n \in Nat : n <= L => \E f : /\ DOMAIN f = 0..L
                                                /\ f = [o \in 0..L |-> f[o]]
                                                /\ \A o \in 0..L :
                                                     o >= L - n => f[o] = DecodeStep(b, o, f)}
  <1>0. L \in Nat
    BY LenProperties
  <1>1. 0 \in T
    <2> DEFINE f == [o \in 0..L |-> [frames |-> <<>>, end |-> o]]
    <2>1. ASSUME NEW o \in 0..L, o >= L - 0 PROVE f[o] = DecodeStep(b, o, f)
      <3>1. o = L /\ ~HasFrame(b, o)
        BY <1>0, <2>1 DEF HasFrame, HeaderSize
      <3> QED BY <3>1 DEF DecodeStep
    <2>2. DOMAIN f = 0..L /\ f = [o \in 0..L |-> f[o]]
      OBVIOUS
    <2> HIDE DEF f
    <2> QED BY <2>1, <2>2
  <1>2. ASSUME NEW n \in Nat, n \in T PROVE n + 1 \in T
    <2> SUFFICES ASSUME n + 1 <= L
                 PROVE  \E f : /\ DOMAIN f = 0..L
                               /\ f = [o \in 0..L |-> f[o]]
                               /\ \A o \in 0..L :
                                    o >= L - (n + 1) => f[o] = DecodeStep(b, o, f)
      OBVIOUS
    <2>1. PICK f : /\ DOMAIN f = 0..L
                   /\ f = [o \in 0..L |-> f[o]]
                   /\ \A o \in 0..L : o >= L - n => f[o] = DecodeStep(b, o, f)
      BY <1>0, <1>2
    <2> DEFINE k == L - (n + 1)
               h == [o \in 0..L |-> IF o = k THEN DecodeStep(b, k, f) ELSE f[o]]
    <2>2. DOMAIN h = 0..L /\ h = [o \in 0..L |-> h[o]]
      OBVIOUS
    <2>3. k \in 0..L
      BY <1>0
    <2>4. ASSUME NEW o \in 0..L, o >= k PROVE DecodeStep(b, o, h) = DecodeStep(b, o, f)
      <3>1. CASE HasFrame(b, o)
        <4>1. FrameEnd(b, o) > o /\ FrameEnd(b, o) \in 0..L
          BY <1>0, <3>1, FrameEndGrows DEF HasFrame
        <4>2. h[FrameEnd(b, o)] = f[FrameEnd(b, o)]
          <5> DEFINE e == FrameEnd(b, o)
          <5>1. e \in 0..L /\ e > o
            BY <4>1
          <5> HIDE DEF e
          <5>2. e # k
            BY <1>0, <2>3, <2>4, <5>1
          <5>3. h[e] = f[e]
            BY <5>1, <5>2, Zenon
          <5> QED BY <5>3 DEF e
        <4> HIDE DEF h
        <4> QED BY <4>2 DEF DecodeStep
      <3>2. CASE ~HasFrame(b, o)
        BY <3>2 DEF DecodeStep
      <3> QED BY <3>1, <3>2
    <2>5. ASSUME NEW o \in 0..L, o >= k PROVE h[o] = DecodeStep(b, o, h)
      <3>1. CASE o = k
        <4>1. h[o] = DecodeStep(b, o, f)
          BY <3>1
        <4> HIDE DEF h
        <4> QED BY <2>4, <2>5, <4>1
      <3>2. CASE o # k
        <4>1. h[o] = f[o]
          BY <3>2
        <4>2. o >= L - n
          BY <1>0, <2>5, <3>2
        <4>3. f[o] = DecodeStep(b, o, f)
          BY <2>1, <4>2
        <4> HIDE DEF h
        <4> QED BY <2>4, <2>5, <4>1, <4>3
      <3> QED BY <3>1, <3>2
    <2> HIDE DEF h
    <2> QED BY <2>2, <2>5
  <1>3. Nat \subseteq T
    <2> HIDE DEF T
    <2> QED BY <1>1, <1>2, NatSetInduction
  <1>4. PICK f : /\ f = [o \in 0..L |-> f[o]]
                 /\ \A o \in 0..L : o >= L - L => f[o] = DecodeStep(b, o, f)
    BY <1>0, <1>3
  <1>5. \A o \in 0..L : f[o] = DecodeStep(b, o, f)
    BY <1>0, <1>4
  <1>6. f = [o \in 0..L |-> DecodeStep(b, o, f)]
    BY <1>4, <1>5
  <1> QED BY <1>6

LEMMA DecoderIs ==
    ASSUME NEW b \in Seq(Byte)
    PROVE  \E f : /\ \A o \in 0..Len(b) : f[o] = DecodeStep(b, o, f)
                  /\ TryDecodeFrames(b) =
                       [frames |-> f[0].frames,
                        remainder |-> SubSeq(b, f[0].end + 1, Len(b))]
  <1> DEFINE f == CHOOSE f : f = [o \in 0..Len(b) |->
                    IF HasFrame(b, o)
                    THEN LET rest == f[FrameEnd(b, o)]
                             payload == SubSeq(b, o + HeaderSize + 1, FrameEnd(b, o))
                         IN  [frames |-> <<payload>> \o rest.frames, end |-> rest.end]
                    ELSE [frames |-> <<>>, end |-> o]]
  <1>1. f = [o \in 0..Len(b) |-> DecodeStep(b, o, f)]
    BY DecoderExists, Zenon DEF DecodeStep
  <1>2. TryDecodeFrames(b) = [frames |-> f[0].frames,
                              remainder |-> SubSeq(b, f[0].end + 1, Len(b))]
    BY Zenon DEF TryDecodeFrames
  <1> HIDE DEF f
  <1>3. \A o \in 0..Len(b) : f[o] = DecodeStep(b, o, f)
    BY <1>1
  <1> QED BY <1>2, <1>3

(* A stream of frames: e[j] bytes are taken by its first j frames.           *)
IsStream(B, p, N, e) ==
    /\ N \in Nat /\ B \in Seq(Byte)
    /\ p \in [1..N -> Seq(Byte)] /\ \A j \in 1..N : FitsHeader(Len(p[j]))
    /\ e \in [0..N -> Nat] /\ e[0] = 0 /\ e[N] = Len(B)
    /\ \A j \in 1..N : e[j] = e[j - 1] + HeaderSize + Len(p[j])
    /\ \A j \in 1..N : \A i \in 1..(HeaderSize + Len(p[j])) :
         B[e[j - 1] + i] = EncodeFrame(p[j])[i]

LEMMA FunctionIsSeq ==
    ASSUME NEW S, NEW n \in Nat, NEW s \in [1..n -> S]
    PROVE  s \in Seq(S) /\ Len(s) = n
  OBVIOUS

LEMMA StreamGrows ==
    ASSUME NEW B, NEW p, NEW N, NEW e, IsStream(B, p, N, e),
           NEW i \in 0..N, NEW j \in i..N
    PROVE  /\ e[i] \in Nat /\ e[j] \in Nat /\ N \in Nat
           /\ e[i] <= e[j]
  <1> DEFINE T == {n \in Nat : i + n <= N => e[i] <= e[i + n]}
  <1>1. N \in Nat /\ \A k \in 0..N : e[k] \in Nat
    BY DEF IsStream
  <1>2. 0 \in T
    BY <1>1
  <1>3. ASSUME NEW n \in Nat, n \in T PROVE n + 1 \in T
    <2> SUFFICES ASSUME i + (n + 1) <= N
                 PROVE  e[i] <= e[i + (n + 1)]
      OBVIOUS
    <2>1. e[i] <= e[i + n]
      BY <1>1, <1>3
    <2> DEFINE k == i + (n + 1)
    <2>2. k \in 1..N /\ k - 1 = i + n
      BY <1>1
    <2>3. e[k] = e[k - 1] + HeaderSize + Len(p[k]) /\ Len(p[k]) \in Nat
      BY <2>2, LenProperties DEF IsStream
    <2>4. e[i] \in Nat /\ e[k - 1] \in Nat /\ e[k] \in Nat
      BY <1>1, <2>2
    <2>5. e[i] <= e[k]
      BY <2>1, <2>2, <2>3, <2>4 DEF HeaderSize
    <2> QED BY <2>5
  <1>4. Nat \subseteq T
    <2> HIDE DEF T
    <2> QED BY <1>2, <1>3, NatSetInduction
  <1>5. j - i \in T /\ i + (j - i) = j
    BY <1>1, <1>4
  <1> QED BY <1>1, <1>5

LEMMA EncodedFrame ==
    ASSUME NEW q \in Seq(Byte), FitsHeader(Len(q))
    PROVE  /\ Header(Len(q)) \in Seq(Byte) /\ Len(Header(Len(q))) = HeaderSize
           /\ EncodeFrame(q) \in Seq(Byte)
           /\ Len(EncodeFrame(q)) = HeaderSize + Len(q)
           /\ \A i \in 1..HeaderSize : EncodeFrame(q)[i] = Header(Len(q))[i]
           /\ \A i \in 1..Len(q) : EncodeFrame(q)[HeaderSize + i] = q[i]
           /\ Length(Header(Len(q))) = Len(q)
  <1>1. Len(q) \in Nat
    BY LenProperties
  <1>2. /\ Header(Len(q)) \in Seq(Byte) /\ Len(Header(Len(q))) = HeaderSize
        /\ Length(Header(Len(q))) = Len(q)
    BY <1>1, LengthOfHeader DEF HeaderSize
  <1> DEFINE s == Header(Len(q)) \o q
  <1>3. /\ s \in Seq(Byte)
        /\ Len(s) = HeaderSize + Len(q)
        /\ \A i \in 1..(HeaderSize + Len(q)) :
             s[i] = IF i <= HeaderSize THEN Header(Len(q))[i] ELSE q[i - HeaderSize]
    BY <1>2, ConcatProperties
  <1>4. EncodeFrame(q) = s
    BY DEF EncodeFrame
  <1> HIDE DEF s
  <1>5. \A i \in 1..HeaderSize : s[i] = Header(Len(q))[i]
    BY <1>1, <1>3 DEF HeaderSize
  <1>6. ASSUME NEW i \in 1..Len(q) PROVE s[HeaderSize + i] = q[i]
    <2>1. /\ HeaderSize + i \in 1..(HeaderSize + Len(q)) /\ ~(HeaderSize + i <= HeaderSize)
          /\ (HeaderSize + i) - HeaderSize = i
      BY <1>1 DEF HeaderSize
    <2> QED BY <1>3, <2>1
  <1> QED BY <1>2, <1>3, <1>4, <1>5, <1>6

LEMMA Window ==
    ASSUME NEW S, NEW s \in Seq(S), NEW k \in Nat, NEW m \in Nat, k <= m, m <= Len(s)
    PROVE  /\ SubSeq(s, k + 1, m) \in Seq(S)
           /\ Len(SubSeq(s, k + 1, m)) = m - k
           /\ \A i \in 1..(m - k) : SubSeq(s, k + 1, m)[i] = s[k + i]
  <1>1. \A i \in (k + 1)..m : s[i] \in S
    BY LenProperties, ElementOfSeq
  <1>2. /\ SubSeq(s, k + 1, m) \in Seq(S)
        /\ Len(SubSeq(s, k + 1, m)) = IF k + 1 <= m THEN m - (k + 1) + 1 ELSE 0
        /\ \A i \in 1..(m - (k + 1) + 1) : SubSeq(s, k + 1, m)[i] = s[(k + 1) + i - 1]
    <2>1. k + 1 \in Int /\ m \in Int
      OBVIOUS
    <2> QED BY <1>1, <2>1, SubSeqProperties
  <1>3. m - (k + 1) + 1 = m - k /\ (~(k + 1 <= m) => m - k = 0)
    OBVIOUS
  <1>4. \A i \in 1..(m - k) : (k + 1) + i - 1 = k + i
    OBVIOUS
  <1> QED BY <1>2, <1>3, <1>4

IsWindow(S, s, k, m) ==
    /\ SubSeq(s, k + 1, m) \in Seq(S)
    /\ Len(SubSeq(s, k + 1, m)) = m - k
    /\ \A i \in 1..(m - k) : SubSeq(s, k + 1, m)[i] = s[k + i]

LEMMA WindowAt ==
    ASSUME NEW S, NEW s \in Seq(S), NEW k \in Nat, NEW m \in Nat, k <= m, m <= Len(s)
    PROVE  IsWindow(S, s, k, m)
  BY Window, Zenon DEF IsWindow

FrameStarts(B, x, q, n) == \A i \in 1..(HeaderSize + n) : B[x + i] = EncodeFrame(q)[i]

(* The decoder finds q at o in what of B has come between k and m, if all of  *)
(* q is there.                                                               *)
Finds(B, k, m, o, q, n) ==
    LET b == SubSeq(B, k + 1, m)
    IN  /\ HasFrame(b, o) <=> (k + o) + HeaderSize + n <= m
        /\ HasFrame(b, o) => /\ FrameEnd(b, o) = o + HeaderSize + n
                             /\ SubSeq(b, o + HeaderSize + 1, FrameEnd(b, o)) = q

LEMMA FrameAt ==
    ASSUME NEW B \in Seq(Byte), NEW k \in Nat, NEW m \in Nat, m <= Len(B),
           NEW o \in Nat, k + o <= m,
           NEW q \in Seq(Byte), NEW n \in Nat, n = Len(q), FitsHeader(n),
           FrameStarts(B, k + o, q, n)
    PROVE  Finds(B, k, m, o, q, n)
  <1> DEFINE b == SubSeq(B, k + 1, m)
  <1>1. k <= m /\ m - k \in Nat
    OBVIOUS
  <1>2. /\ b \in Seq(Byte) /\ Len(b) = m - k
        /\ \A i \in 1..(m - k) : b[i] = B[k + i]
    BY <1>1, Window
  <1>3. /\ EncodeFrame(q) \in Seq(Byte) /\ Header(n) \in Seq(Byte)
        /\ Len(Header(n)) = HeaderSize /\ Length(Header(n)) = n
        /\ \A i \in 1..HeaderSize : EncodeFrame(q)[i] = Header(n)[i]
        /\ \A i \in 1..n : EncodeFrame(q)[HeaderSize + i] = q[i]
    BY EncodedFrame
  <1> HIDE DEF b
  <1>4. ASSUME NEW i \in 1..(HeaderSize + n), o + i <= m - k
        PROVE  b[o + i] = EncodeFrame(q)[i]
    <2>1. o + i \in 1..(m - k) /\ k + (o + i) = (k + o) + i
      BY <1>1, <1>4 DEF HeaderSize
    <2> QED BY <1>2, <2>1 DEF FrameStarts
  <1>5. ASSUME o + HeaderSize <= m - k
        PROVE  FrameEnd(b, o) = o + HeaderSize + n
    <2> DEFINE h == SubSeq(b, o + 1, o + HeaderSize)
    <2>1. /\ h \in Seq(Byte) /\ Len(h) = (o + HeaderSize) - o
          /\ \A i \in 1..((o + HeaderSize) - o) : h[i] = b[o + i]
      <3> DEFINE t == o + HeaderSize
      <3>1. t \in Nat /\ o <= t /\ t <= Len(b)
        BY <1>2, <1>5 DEF HeaderSize
      <3> HIDE DEF t
      <3>2. /\ SubSeq(b, o + 1, t) \in Seq(Byte) /\ Len(SubSeq(b, o + 1, t)) = t - o
            /\ \A i \in 1..(t - o) : SubSeq(b, o + 1, t)[i] = b[o + i]
        <4>1. IsWindow(Byte, b, o, t)
          BY <1>2, <3>1, WindowAt, Zenon
        <4> QED BY <4>1, Zenon DEF IsWindow
      <3> QED BY <3>2, Zenon DEF t
    <2>2. (o + HeaderSize) - o = HeaderSize
      BY DEF HeaderSize
    <2> HIDE DEF h
    <2>3. \A i \in 1..HeaderSize : h[i] = Header(n)[i]
      <3> SUFFICES ASSUME NEW i \in 1..HeaderSize PROVE h[i] = Header(n)[i]
        OBVIOUS
      <3>1. i \in 1..(HeaderSize + n) /\ o + i <= m - k
        BY <1>1, <1>5 DEF HeaderSize
      <3> QED BY <1>3, <1>4, <2>1, <2>2, <3>1
    <2>4. h = Header(n)
      BY <1>3, <2>1, <2>2, <2>3, SeqEqual
    <2> QED BY <1>3, <2>4 DEF h, FrameEnd
  <1>6. HasFrame(b, o) <=> (k + o) + HeaderSize + n <= m
    <2>1. HasFrame(b, o) <=> o + HeaderSize <= m - k /\ o + HeaderSize + n <= m - k
      BY <1>2, <1>5 DEF HasFrame
    <2> QED BY <2>1 DEF HeaderSize
  <1>7. ASSUME HasFrame(b, o)
        PROVE  /\ FrameEnd(b, o) = o + HeaderSize + n
               /\ SubSeq(b, o + HeaderSize + 1, FrameEnd(b, o)) = q
    <2>1. FrameEnd(b, o) = o + HeaderSize + n
      BY <1>2, <1>5, <1>7 DEF HasFrame
    <2> DEFINE x == o + HeaderSize
               y == o + HeaderSize + n
               t == SubSeq(b, x + 1, y)
    <2>2. x \in Nat /\ y \in Nat /\ x <= y /\ y - x = n /\ y <= m - k
      BY <1>6, <1>7 DEF HeaderSize
    <2>3. t \in Seq(Byte) /\ Len(t) = y - x /\ \A i \in 1..(y - x) : t[i] = b[x + i]
      <3>1. y <= Len(b)
        BY <1>2, <2>2
      <3> HIDE DEF x, y
      <3>2. IsWindow(Byte, b, x, y)
        BY <1>2, <2>2, <3>1, WindowAt, Zenon
      <3> QED BY <3>2, Zenon DEF IsWindow
    <2>4. ASSUME NEW i \in 1..n PROVE b[x + i] = q[i]
      <3>1. /\ HeaderSize + i \in 1..(HeaderSize + n) /\ o + (HeaderSize + i) = x + i
            /\ x + i <= m - k
        BY <1>6, <1>7 DEF HeaderSize
      <3>2. b[o + (HeaderSize + i)] = EncodeFrame(q)[HeaderSize + i]
        BY <1>4, <3>1
      <3> QED BY <1>3, <3>1, <3>2
    <2>5. t = q
      <3> HIDE DEF x, y, t
      <3> QED BY <2>2, <2>3, <2>4, SeqEqual
    <2> QED BY <2>1, <2>5
  <1> QED BY <1>6, <1>7 DEF b, Finds

(* Where the decoder stands after frame j of a stream, what came after frame d*)
(* being in the buffer, it finds frame j + 1, if all of it has arrived, and   *)
(* nothing otherwise.                                                        *)
FindsNext(B, p, N, e, d, j, m) ==
    LET b == SubSeq(B, e[d] + 1, m)
        o == e[j] - e[d]
    IN  /\ e[d] \in Nat /\ e[j] \in Nat /\ o \in Nat /\ o \in 0..Len(b)
        /\ b \in Seq(Byte) /\ Len(b) = m - e[d]
        /\ HasFrame(b, o) <=> j < N /\ e[j + 1] <= m
        /\ HasFrame(b, o) => /\ FrameEnd(b, o) = e[j + 1] - e[d]
                             /\ SubSeq(b, o + HeaderSize + 1, FrameEnd(b, o)) = p[j + 1]

LEMMA NextFrame ==
    ASSUME NEW B, NEW p, NEW N, NEW e, IsStream(B, p, N, e),
           NEW d \in 0..N, NEW j \in d..N, NEW m \in Nat, e[j] <= m, m <= Len(B)
    PROVE  FindsNext(B, p, N, e, d, j, m)
  <1> DEFINE s == e[d]
             u == e[j]
             b == SubSeq(B, s + 1, m)
             o == u - s
  <1>1. /\ N \in Nat /\ j \in 0..N /\ B \in Seq(Byte) /\ s \in Nat /\ u \in Nat
        /\ Len(B) \in Nat
    BY LenProperties DEF IsStream
  <1>2. s <= u
    BY StreamGrows
  <1> HIDE DEF s, u
  <1>3. o \in Nat /\ s + o = u /\ s <= m /\ o <= m - s /\ u <= m
    BY <1>1, <1>2 DEF u
  <1>4. b \in Seq(Byte) /\ Len(b) = m - s
    BY <1>1, <1>3, Window
  <1> HIDE DEF b, o
  <1>5. CASE j = N
    <2>1. u = Len(B)
      BY <1>5 DEF IsStream, u
    <2>2. Len(b) = o
      BY <1>1, <1>3, <1>4, <2>1
    <2>3. ~HasFrame(b, o)
      BY <1>3, <2>2 DEF HasFrame, HeaderSize
    <2> QED BY <1>1, <1>3, <1>4, <1>5, <2>3 DEF s, u, b, o, FindsNext
  <1>6. CASE j < N
    <2> DEFINE q == p[j + 1]
               n == Len(q)
               v == e[j + 1]
    <2>1. j + 1 \in 1..N /\ j + 1 \in 0..N /\ (j + 1) - 1 = j
      BY <1>1, <1>6
    <2>2. /\ q \in Seq(Byte) /\ n \in Nat /\ FitsHeader(n)
          /\ v \in Nat /\ v = u + HeaderSize + n
          /\ \A i \in 1..(HeaderSize + n) : B[u + i] = EncodeFrame(q)[i]
      BY <2>1, LenProperties DEF IsStream, u
    <2> HIDE DEF n, v
    <2>3. FrameStarts(B, s + o, q, n)
      BY <1>3, <2>2 DEF FrameStarts
    <2>4. s + o <= m /\ n = Len(q)
      BY <1>3 DEF n
    <2> HIDE DEF q
    <2>5. /\ HasFrame(b, o) <=> (s + o) + HeaderSize + n <= m
          /\ HasFrame(b, o) => /\ FrameEnd(b, o) = o + HeaderSize + n
                               /\ SubSeq(b, o + HeaderSize + 1, FrameEnd(b, o)) = q
      <3>1. B \in Seq(Byte) /\ s \in Nat /\ o \in Nat /\ m \in Nat /\ m <= Len(B)
        BY <1>1, <1>3
      <3>2. q \in Seq(Byte) /\ n \in Nat /\ FitsHeader(n)
        BY <2>2
      <3>3. Finds(B, s, m, o, q, n)
        BY <2>3, <2>4, <3>1, <3>2, FrameAt
      <3> QED BY <3>3, Zenon DEF b, Finds
    <2>6. (s + o) + HeaderSize + n = v /\ o + HeaderSize + n = v - s
      <3>1. s \in Nat /\ o \in Nat /\ u \in Nat /\ n \in Nat /\ s + o = u
        BY <1>1, <1>3, <2>2
      <3>2. HeaderSize \in Nat
        BY DEF HeaderSize
      <3>3. v = u + HeaderSize + n
        BY <2>2
      <3> QED BY <3>1, <3>2, <3>3
    <2>7. /\ HasFrame(b, o) <=> j < N /\ v <= m
          /\ HasFrame(b, o) => /\ FrameEnd(b, o) = v - s
                               /\ SubSeq(b, o + HeaderSize + 1, FrameEnd(b, o)) = q
      BY <1>6, <2>5, <2>6, Zenon
    <2>8. s \in Nat /\ u \in Nat /\ o \in Nat /\ o \in 0..Len(b)
      BY <1>1, <1>3, <1>4
    <2> QED BY <1>4, <2>7, <2>8, Zenon DEF s, u, b, o, q, v, FindsNext
  <1>7. j = N \/ j < N
    BY <1>1
  <1> QED BY <1>5, <1>6, <1>7

\* TryDecodeFrames takes the whole frames, in order, and leaves the rest: what
\* is in the buffer begins after frame d and ends behind frame k.
DecodesTo(B, p, e, d, k, m) ==
    TryDecodeFrames(SubSeq(B, e[d] + 1, m)) =
      [frames |-> [i \in 1..(k - d) |-> p[d + i]],
       remainder |-> SubSeq(B, e[k] + 1, m)]

LEMMA DecodesFrames ==
    ASSUME NEW B, NEW p, NEW N, NEW e, IsStream(B, p, N, e),
           NEW d \in 0..N, NEW k \in d..N, NEW m \in Nat, e[k] <= m, m <= Len(B),
           k = N \/ m < e[k + 1]
    PROVE  DecodesTo(B, p, e, d, k, m)
  <1> DEFINE b == SubSeq(B, e[d] + 1, m)
             rest(j) == [i \in 1..(k - j) |-> p[j + i]]
             done(f, j) == f[e[j] - e[d]] = [frames |-> rest(j), end |-> e[k] - e[d]]
  <1>1. /\ N \in Nat /\ k \in 0..N /\ B \in Seq(Byte)
        /\ \A j \in 0..N : e[j] \in Nat
        /\ \A j \in 1..N : p[j] \in Seq(Byte)
    <2>1. /\ N \in Nat /\ B \in Seq(Byte) /\ e \in [0..N -> Nat]
          /\ p \in [1..N -> Seq(Byte)]
      BY Zenon DEF IsStream
    <2> QED BY <2>1
  <1>2. /\ e[d] \in Nat /\ e[k] \in Nat /\ e[k] - e[d] \in Nat /\ e[k] - e[d] \in 0..Len(b)
        /\ b \in Seq(Byte) /\ Len(b) = m - e[d]
    <2>1. FindsNext(B, p, N, e, d, k, m)
      BY NextFrame
    <2> QED BY <2>1, Zenon DEF FindsNext
  <1>3. ~HasFrame(b, e[k] - e[d])
    <2>1. HasFrame(b, e[k] - e[d]) <=> k < N /\ e[k + 1] <= m
      <3>1. FindsNext(B, p, N, e, d, k, m)
        BY NextFrame
      <3> QED BY <3>1, Zenon DEF FindsNext
    <2>2. k < N => k + 1 \in 0..N
      BY <1>1
    <2>3. k < N => e[k + 1] \in Nat
      BY <1>1, <2>2
    <2> QED BY <1>1, <2>1, <2>3
  <1>4. PICK f : /\ \A o \in 0..Len(b) : f[o] = DecodeStep(b, o, f)
                 /\ TryDecodeFrames(b) =
                      [frames |-> f[0].frames,
                       remainder |-> SubSeq(b, f[0].end + 1, Len(b))]
    BY <1>2, DecoderIs
  <1>5. done(f, k)
    <2>1. f[e[k] - e[d]] = [frames |-> <<>>, end |-> e[k] - e[d]]
      <3> HIDE DEF b
      <3> QED BY <1>2, <1>3, <1>4 DEF DecodeStep
    <2>2. rest(k) = <<>>
      BY <1>1
    <2> HIDE DEF rest
    <2> QED BY <2>1, <2>2
  <1>6. ASSUME NEW j \in 0..N, d <= j, j < k, done(f, j + 1)
        PROVE  done(f, j)
    <2>1. /\ j \in d..N /\ j + 1 \in 1..N /\ j + 1 \in 0..N /\ k - (j + 1) \in Nat
          /\ k \in (j + 1)..N
      BY <1>1, <1>6
    <2>2. e[j + 1] \in Nat /\ e[k] \in Nat /\ e[j + 1] <= e[k]
      BY <2>1, StreamGrows, Zenon
    <2>3. e[j] \in Nat /\ e[j] <= e[j + 1]
      <3>1. j + 1 \in j..N
        BY <1>1, <2>1
      <3> QED BY <3>1, StreamGrows, Zenon
    <2>4. e[j] <= m /\ e[j + 1] <= m /\ j < N
      BY <1>1, <2>1, <2>2, <2>3
    <2> DEFINE o == e[j] - e[d]
    <2>5. /\ o \in 0..Len(b) /\ HasFrame(b, o) /\ FrameEnd(b, o) = e[j + 1] - e[d]
          /\ SubSeq(b, o + HeaderSize + 1, FrameEnd(b, o)) = p[j + 1]
      <3>1. FindsNext(B, p, N, e, d, j, m)
        BY <2>1, <2>4, NextFrame
      <3> QED BY <2>4, <3>1, Zenon DEF FindsNext
    <2>6. f[o] = [frames |-> <<p[j + 1]>> \o rest(j + 1), end |-> e[k] - e[d]]
      <3>1. f[o] = DecodeStep(b, o, f)
        BY <1>4, <2>5
      <3> HIDE DEF b, o, rest
      <3>2. f[FrameEnd(b, o)] = [frames |-> rest(j + 1), end |-> e[k] - e[d]]
        BY <1>6, <2>5
      <3> DEFINE r == f[FrameEnd(b, o)]
      <3>3. r.frames = rest(j + 1) /\ r.end = e[k] - e[d]
        BY <3>2
      <3>4. f[o] = [frames |-> <<SubSeq(b, o + HeaderSize + 1, FrameEnd(b, o))>> \o r.frames,
                    end |-> r.end]
        BY <2>5, <3>1, Zenon DEF DecodeStep
      <3> HIDE DEF r
      <3> QED BY <2>5, <3>3, <3>4, Zenon
    <2>7. <<p[j + 1]>> \o rest(j + 1) = rest(j)
      <3> DEFINE n == k - (j + 1)
                 x == p[j + 1]
                 s == [i \in 1..n |-> p[(j + 1) + i]]
                 t == [i \in 1..(n + 1) |-> p[j + i]]
      <3>1. n \in Nat /\ n + 1 = k - j
        BY <1>1, <2>1
      <3>2. \A i \in 1..(n + 1) : j + i \in 1..N
        BY <1>1, <2>1
      <3>3. \A i \in 1..(n + 1) : p[j + i] \in Seq(Byte)
        <4> HIDE DEF n
        <4> QED BY <1>1, <3>2
      <3>4. t \in Seq(Seq(Byte)) /\ Len(t) = n + 1
        <4> HIDE DEF n
        <4>1. t \in [1..(n + 1) -> Seq(Byte)] /\ n + 1 \in Nat
          BY <3>1, <3>3
        <4> HIDE DEF t
        <4> QED BY <4>1, FunctionIsSeq
      <3>5. \A i \in 1..n : (j + 1) + i = j + (i + 1) /\ i + 1 \in 1..(n + 1)
        BY <3>1
      <3>6. s \in Seq(Seq(Byte)) /\ Len(s) = n
        <4> HIDE DEF n
        <4>1. s \in [1..n -> Seq(Byte)]
          BY <3>3, <3>5
        <4> HIDE DEF s
        <4> QED BY <3>1, <4>1, FunctionIsSeq
      <3>7. <<x>> \in Seq(Seq(Byte)) /\ Len(<<x>>) = 1 /\ <<x>>[1] = x
        <4>1. x \in Seq(Byte)
          BY <1>1, <2>1
        <4> HIDE DEF x
        <4> QED BY <4>1
      <3> HIDE DEF n
      <3>8. s = rest(j + 1) /\ t = rest(j)
        BY <3>1 DEF n
      <3>9. \A i \in 1..n : s[i] = t[i + 1]
        BY <3>5
      <3>10. t[1] = x
        BY <3>1
      <3> HIDE DEF s, t, x, rest
      <3>11. /\ <<x>> \o s \in Seq(Seq(Byte)) /\ Len(<<x>> \o s) = 1 + n
             /\ \A i \in 1..(1 + n) : (<<x>> \o s)[i] = IF i <= 1 THEN <<x>>[1] ELSE s[i - 1]
        <4>1. /\ <<x>> \o s \in Seq(Seq(Byte)) /\ Len(<<x>> \o s) = Len(<<x>>) + Len(s)
              /\ \A i \in 1..(Len(<<x>>) + Len(s)) :
                   (<<x>> \o s)[i] = IF i <= Len(<<x>>) THEN <<x>>[i] ELSE s[i - Len(<<x>>)]
          BY <3>6, <3>7, ConcatProperties
        <4>2. \A i \in 1..(1 + n) : i <= 1 => i = 1
          OBVIOUS
        <4> QED BY <3>6, <3>7, <4>1, <4>2
      <3>12. ASSUME NEW i \in 1..(n + 1) PROVE (<<x>> \o s)[i] = t[i]
        <4>1. CASE i = 1
          <5>1. (<<x>> \o s)[1] = <<x>>[1]
            BY <3>1, <3>11
          <5> QED BY <3>7, <3>10, <4>1, <5>1
        <4>2. CASE i # 1
          <5>1. i - 1 \in 1..n /\ (i - 1) + 1 = i /\ ~(i <= 1) /\ i \in 1..(1 + n)
            BY <3>1, <4>2
          <5>2. (<<x>> \o s)[i] = s[i - 1]
            BY <3>11, <5>1
          <5>3. s[i - 1] = t[(i - 1) + 1]
            BY <3>9, <5>1
          <5> QED BY <5>1, <5>2, <5>3
        <4> QED BY <4>1, <4>2
      <3>13. <<x>> \o s = t
        <4>1. 1 + n = n + 1
          BY <3>1
        <4> QED BY <3>4, <3>11, <3>12, <4>1, SeqEqual
      <3> QED BY <3>8, <3>13 DEF x
    <2> HIDE DEF rest
    <2> QED BY <2>6, <2>7
  <1> DEFINE T == {n \in Nat : d <= k - n => done(f, k - n)}
  <1>7. 0 \in T
    <2> HIDE DEF done
    <2>1. k - 0 = k
      BY <1>1
    <2> QED BY <1>5, <2>1
  <1>8. ASSUME NEW n \in Nat, n \in T PROVE n + 1 \in T
    <2> HIDE DEF done
    <2> SUFFICES ASSUME d <= k - (n + 1) PROVE done(f, k - (n + 1))
      OBVIOUS
    <2> DEFINE j == k - (n + 1)
    <2>1. j \in 0..N /\ d <= j /\ j < k /\ j + 1 = k - n /\ d <= k - n
      BY <1>1
    <2>2. done(f, k - n)
      BY <1>8, <2>1
    <2> HIDE DEF j
    <2>3. done(f, j)
      BY <1>6, <2>1, <2>2
    <2> QED BY <2>3 DEF j
  <1>9. Nat \subseteq T
    <2> HIDE DEF T
    <2> QED BY <1>7, <1>8, NatSetInduction
  <1>10. done(f, d)
    <2> HIDE DEF done
    <2>1. k - d \in Nat /\ k - (k - d) = d /\ d <= d
      BY <1>1
    <2>2. k - d \in T
      BY <1>9, <2>1
    <2> QED BY <2>1, <2>2
  <1>11. f[0] = [frames |-> rest(d), end |-> e[k] - e[d]]
    <2>1. e[d] - e[d] = 0
      BY <1>2
    <2> QED BY <1>10, <2>1
  <1>12. SubSeq(b, (e[k] - e[d]) + 1, Len(b)) = SubSeq(B, e[k] + 1, m)
    <2> DEFINE u == e[k]
               s == e[d]
               c == u - s
               x == SubSeq(b, c + 1, Len(b))
               y == SubSeq(B, u + 1, m)
    <2>1. u \in Nat /\ s \in Nat /\ c \in Nat /\ c <= Len(b) /\ Len(b) = m - s
      BY <1>2
    <2>2. u <= m /\ s <= m
      <3> HIDE DEF u, s
      <3>1. u <= m
        BY DEF u
      <3> QED BY <2>1, <3>1
    <2> HIDE DEF u, s
    <2>3. /\ b \in Seq(Byte) /\ Len(b) = m - s /\ \A i \in 1..(m - s) : b[i] = B[s + i]
      <3>1. /\ SubSeq(B, s + 1, m) \in Seq(Byte) /\ Len(SubSeq(B, s + 1, m)) = m - s
            /\ \A i \in 1..(m - s) : SubSeq(B, s + 1, m)[i] = B[s + i]
        <4>1. B \in Seq(Byte) /\ s \in Nat /\ s <= m
          BY <1>1, <2>1, <2>2
        <4> QED BY <4>1, Window, Zenon
      <3> QED BY <3>1, Zenon DEF s
    <2> HIDE DEF b
    <2>4. x \in Seq(Byte) /\ Len(x) = Len(b) - c /\ \A i \in 1..(Len(b) - c) : x[i] = b[c + i]
      BY <2>1, <2>3, Window
    <2>5. y \in Seq(Byte) /\ Len(y) = m - u /\ \A i \in 1..(m - u) : y[i] = B[u + i]
      BY <1>1, <2>1, <2>2, Window
    <2>6. Len(b) - c = m - u
      BY <2>1, <2>2, <2>3
    <2>7. ASSUME NEW i \in 1..(m - u) PROVE x[i] = y[i]
      <3>1. c + i \in 1..(m - s) /\ s + (c + i) = u + i
        BY <2>1, <2>2
      <3> HIDE DEF x, y, c
      <3>2. x[i] = b[c + i] /\ y[i] = B[u + i]
        BY <2>4, <2>5, <2>6
      <3> QED BY <2>3, <3>1, <3>2
    <2> HIDE DEF x, y
    <2>8. x = y
      BY <2>4, <2>5, <2>6, <2>7, SeqEqual
    <2> QED BY <2>8 DEF x, y, u, s
  <1>13. f[0].frames = rest(d) /\ f[0].end = e[k] - e[d]
    <2> HIDE DEF rest
    <2> QED BY <1>11
  <1> HIDE DEF b, done
  <1>14. TryDecodeFrames(b) = [frames |-> rest(d), remainder |-> SubSeq(B, e[k] + 1, m)]
    BY <1>4, <1>12, <1>13
  <1> QED BY <1>14 DEF b, DecodesTo

\* Where the bytes that have arrived end: behind frame k and before the end of
\* the next one.
LEMMA LastEnd ==
    ASSUME NEW B, NEW p, NEW N, NEW e, IsStream(B, p, N, e),
           NEW d \in 0..N, NEW m \in Nat, e[d] <= m
    PROVE  \E k \in d..N : e[k] <= m /\ (k = N \/ m < e[k + 1])
  <1> SUFFICES ASSUME ~\E k \in d..N : e[k] <= m /\ (k = N \/ m < e[k + 1])
               PROVE  FALSE
    OBVIOUS
  <1> DEFINE T == {n \in Nat : d + n <= N /\ e[d + n] <= m}
  <1>1. N \in Nat /\ \A j \in 0..N : e[j] \in Nat
    BY DEF IsStream
  <1>2. 0 \in T
    BY <1>1
  <1>3. ASSUME NEW n \in Nat, n \in T PROVE n + 1 \in T
    <2> DEFINE k == d + n
    <2>1. k \in d..N /\ e[k] <= m
      BY <1>1, <1>3
    <2>2. k # N /\ ~(m < e[k + 1])
      BY <2>1
    <2>3. k + 1 \in 0..N
      BY <1>1, <2>1, <2>2
    <2>4. e[k + 1] \in Nat
      BY <1>1, <2>3
    <2>5. e[k + 1] <= m
      BY <2>2, <2>4
    <2>6. k + 1 = d + (n + 1)
      OBVIOUS
    <2> QED BY <2>3, <2>5, <2>6
  <1>4. Nat \subseteq T
    <2> HIDE DEF T
    <2> QED BY <1>2, <1>3, NatSetInduction
  <1>5. N + 1 \in T
    <2>1. N + 1 \in Nat
      BY <1>1
    <2> HIDE DEF T
    <2> QED BY <1>4, <2>1
  <1> QED BY <1>1, <1>5

\* Frames one after the other are a stream, and the first of them its beginning.
LEMMA StreamOfFrames ==
    ASSUME NEW N \in Nat, NEW p \in [1..N -> Seq(Byte)], \A j \in 1..N : FitsHeader(Len(p[j]))
    PROVE  LET B == FlattenSeq([i \in 1..N |-> EncodeFrame(p[i])])
           IN  \E e : /\ IsStream(B, p, N, e)
                      /\ \A d \in 0..N :
                           FlattenSeq([i \in 1..d |-> EncodeFrame(p[i])]) = SubSeq(B, 1, e[d])
  <1> DEFINE S == [i \in 1..N |-> EncodeFrame(p[i])]
             B == FlattenSeq(S)
  <1>1. \A j \in 1..N : /\ EncodeFrame(p[j]) \in Seq(Byte)
                        /\ Len(EncodeFrame(p[j])) = HeaderSize + Len(p[j])
                        /\ Len(p[j]) \in Nat
    <2> SUFFICES ASSUME NEW j \in 1..N
                 PROVE  /\ EncodeFrame(p[j]) \in Seq(Byte)
                        /\ Len(EncodeFrame(p[j])) = HeaderSize + Len(p[j])
                        /\ Len(p[j]) \in Nat
      OBVIOUS
    <2>1. p[j] \in Seq(Byte) /\ FitsHeader(Len(p[j]))
      OBVIOUS
    <2> QED BY <2>1, EncodedFrame, LenProperties
  <1>2. S \in Seq(Seq(Byte)) /\ Len(S) = N
    <2>1. S \in [1..N -> Seq(Byte)]
      BY <1>1
    <2> HIDE DEF S
    <2> QED BY <2>1, FunctionIsSeq
  <1>3. \A j \in 1..N : S[j] = EncodeFrame(p[j])
    OBVIOUS
  <1> HIDE DEF S
  <1>4. PICK g \in [0..N -> Seq(Byte)] :
          g[0] = <<>> /\ \A i \in 1..N : g[i] = g[i - 1] \o S[i]
    BY <1>2, FlattenSteps
  <1> DEFINE e == [j \in 0..N |-> Len(g[j])]
  <1>5. B = g[N]
    BY <1>2, <1>4, FlattenIs
  <1>6. \A j \in 0..N : g[j] \in Seq(Byte) /\ e[j] = Len(g[j]) /\ e[j] \in Nat
    BY LenProperties
  <1> HIDE DEF e, B
  <1>7. \A j \in 1..N :
          /\ j - 1 \in 0..N
          /\ e[j] = e[j - 1] + HeaderSize + Len(p[j])
          /\ \A i \in 1..e[j - 1] : g[j][i] = g[j - 1][i]
          /\ \A i \in 1..(HeaderSize + Len(p[j])) : g[j][e[j - 1] + i] = EncodeFrame(p[j])[i]
    <2> SUFFICES ASSUME NEW j \in 1..N
                 PROVE  /\ j - 1 \in 0..N
                        /\ e[j] = e[j - 1] + HeaderSize + Len(p[j])
                        /\ \A i \in 1..e[j - 1] : g[j][i] = g[j - 1][i]
                        /\ \A i \in 1..(HeaderSize + Len(p[j])) :
                             g[j][e[j - 1] + i] = EncodeFrame(p[j])[i]
      OBVIOUS
    <2> DEFINE a == g[j - 1]
               f == EncodeFrame(p[j])
               n == e[j - 1]
               w == HeaderSize + Len(p[j])
    <2>1. j - 1 \in 0..N /\ j \in 0..N
      OBVIOUS
    <2>2. /\ g[j] = a \o f /\ a \in Seq(Byte) /\ f \in Seq(Byte)
          /\ n = Len(a) /\ w = Len(f) /\ n \in Nat /\ w \in Nat /\ e[j] = Len(g[j])
      BY <1>1, <1>3, <1>4, <1>6, <2>1, LenProperties
    <2> HIDE DEF a, f, n, w
    <2>3. /\ Len(a \o f) = n + w
          /\ \A i \in 1..(n + w) : (a \o f)[i] = IF i <= n THEN a[i] ELSE f[i - n]
      BY <2>2, ConcatProperties
    <2>4. \A i \in 1..n : (a \o f)[i] = a[i]
      BY <2>2, <2>3
    <2>5. ASSUME NEW i \in 1..w PROVE (a \o f)[n + i] = f[i]
      <3>1. n + i \in 1..(n + w) /\ ~(n + i <= n) /\ (n + i) - n = i
        BY <2>2
      <3> QED BY <2>3, <3>1
    <2>6. e[j] = n + w
      BY <2>2, <2>3
    <2>7. n + HeaderSize + Len(p[j]) = n + w
      BY <1>1, <2>2 DEF w, HeaderSize
    <2> QED BY <2>1, <2>2, <2>4, <2>5, <2>6, <2>7 DEF a, f, n, w
  <1> DEFINE Agree(j, k) == e[j] <= e[k] /\ \A i \in 1..e[j] : g[k][i] = g[j][i]
  <1>8. \A j \in 0..N : Agree(j, N)
    <2> SUFFICES ASSUME NEW j \in 0..N PROVE Agree(j, N)
      OBVIOUS
    <2> DEFINE T == {n \in Nat : j + n <= N => Agree(j, j + n)}
    <2>1. 0 \in T
      BY <1>6
    <2>2. ASSUME NEW n \in Nat, n \in T PROVE n + 1 \in T
      <3> SUFFICES ASSUME j + (n + 1) <= N PROVE Agree(j, j + (n + 1))
        OBVIOUS
      <3> DEFINE k == j + (n + 1)
      <3>1. k \in 1..N /\ k \in 0..N /\ k - 1 = j + n /\ j + n \in 0..N /\ j + n <= N
        OBVIOUS
      <3>2. Agree(j, k - 1)
        BY <2>2, <3>1
      <3>3. /\ e[k] = e[k - 1] + HeaderSize + Len(p[k]) /\ Len(p[k]) \in Nat
            /\ \A i \in 1..e[k - 1] : g[k][i] = g[k - 1][i]
            /\ e[k] \in Nat /\ e[k - 1] \in Nat /\ e[j] \in Nat
        BY <1>1, <1>6, <1>7, <3>1
      <3> HIDE DEF k
      <3>4. e[j] <= e[k]
        BY <3>2, <3>3 DEF HeaderSize
      <3>5. \A i \in 1..e[j] : g[k][i] = g[j][i]
        <4>1. \A i \in 1..e[j] : i \in 1..e[k - 1]
          BY <3>2, <3>3
        <4> QED BY <3>2, <3>3, <4>1
      <3>6. Agree(j, k)
        BY <3>4, <3>5
      <3> QED BY <3>6 DEF k
    <2>3. Nat \subseteq T
      <3> HIDE DEF T
      <3> QED BY <2>1, <2>2, NatSetInduction
    <2>4. N - j \in T /\ j + (N - j) = N
      <3>1. N - j \in Nat /\ j + (N - j) = N
        OBVIOUS
      <3> HIDE DEF T
      <3> QED BY <2>3, <3>1
    <2> HIDE DEF Agree
    <2> QED BY <2>4
  <1>9. e[0] = 0 /\ e[N] = Len(B) /\ B \in Seq(Byte) /\ Len(B) \in Nat
    <2>1. e[0] = Len(<<>>)
      BY <1>4, <1>6
    <2> QED BY <1>5, <1>6, <2>1
  <1>10. IsStream(B, p, N, e)
    <2>1. e \in [0..N -> Nat]
      BY <1>6 DEF e
    <2>2. \A j \in 1..N : e[j] = e[j - 1] + HeaderSize + Len(p[j])
      BY <1>7
    <2>3. ASSUME NEW j \in 1..N, NEW i \in 1..(HeaderSize + Len(p[j]))
          PROVE  B[e[j - 1] + i] = EncodeFrame(p[j])[i]
      <3>1. j \in 0..N /\ j - 1 \in 0..N
        OBVIOUS
      <3>2. e[j - 1] \in Nat /\ Len(p[j]) \in Nat /\ e[j] = e[j - 1] + HeaderSize + Len(p[j])
        BY <1>1, <1>6, <1>7, <3>1
      <3>3. e[j - 1] + i \in 1..e[j]
        <4> DEFINE u == e[j - 1]
                   v == e[j]
                   w == Len(p[j])
        <4>1. u \in Nat /\ w \in Nat /\ v = u + HeaderSize + w /\ i \in 1..(HeaderSize + w)
          BY <3>2
        <4> HIDE DEF u, v, w
        <4>2. u + i \in 1..v
          BY <4>1 DEF HeaderSize
        <4> QED BY <4>2 DEF u, v
      <3>4. B[e[j - 1] + i] = g[j][e[j - 1] + i]
        BY <1>5, <1>8, <3>1, <3>3
      <3> QED BY <1>7, <3>4
    <2> QED BY <1>9, <2>1, <2>2, <2>3 DEF IsStream
  <1>11. ASSUME NEW d \in 0..N
         PROVE  FlattenSeq([i \in 1..d |-> EncodeFrame(p[i])]) = SubSeq(B, 1, e[d])
    <2> DEFINE Sd == [i \in 1..d |-> EncodeFrame(p[i])]
               gd == [i \in 0..d |-> g[i]]
    <2>1. Sd \in Seq(Seq(Byte)) /\ Len(Sd) = d
      <3>1. Sd \in [1..d -> Seq(Byte)] /\ d \in Nat
        BY <1>1
      <3> HIDE DEF Sd
      <3> QED BY <3>1, FunctionIsSeq
    <2>2. gd \in [0..d -> Seq(Byte)] /\ gd[0] = <<>> /\ gd[d] = g[d]
      BY <1>4
    <2>3. \A i \in 1..d : gd[i] = gd[i - 1] \o Sd[i]
      <3> SUFFICES ASSUME NEW i \in 1..d PROVE gd[i] = gd[i - 1] \o Sd[i]
        OBVIOUS
      <3>1. i \in 1..N /\ i \in 0..d /\ i - 1 \in 0..d
        OBVIOUS
      <3> QED BY <1>3, <1>4, <3>1
    <2>4. FlattenSeq(Sd) = g[d]
      <3> HIDE DEF Sd, gd
      <3> QED BY <2>1, <2>2, <2>3, FlattenIs
    <2>5. SubSeq(B, 1, e[d]) = g[d]
      <3> DEFINE x == SubSeq(B, 0 + 1, e[d])
      <3>1. Agree(d, N)
        BY <1>8
      <3>2. /\ e[d] <= Len(B) /\ e[d] \in Nat /\ g[d] \in Seq(Byte) /\ Len(g[d]) = e[d]
            /\ \A i \in 1..e[d] : B[i] = g[d][i]
        BY <1>5, <1>6, <1>9, <3>1
      <3>3. x \in Seq(Byte) /\ Len(x) = e[d] - 0 /\ \A i \in 1..(e[d] - 0) : x[i] = B[0 + i]
        <4>1. 0 <= e[d] /\ 0 \in Nat
          BY <3>2
        <4> QED BY <1>9, <3>2, <4>1, Window
      <3>4. e[d] - 0 = e[d] /\ \A i \in 1..e[d] : 0 + i = i
        BY <3>2
      <3> HIDE DEF x
      <3>5. x = g[d]
        BY <3>2, <3>3, <3>4, SeqEqual
      <3>6. 0 + 1 = 1
        OBVIOUS
      <3> QED BY <3>5, <3>6 DEF x
    <2> QED BY <2>4, <2>5
  <1>12. \E f : /\ IsStream(B, p, N, f)
                /\ \A d \in 0..N :
                     FlattenSeq([i \in 1..d |-> EncodeFrame(p[i])]) = SubSeq(B, 1, f[d])
    BY <1>10, <1>11
  <1> QED BY <1>12 DEF B, S

-------------------------------------------------------------------------------
(* Chunks.                                                                   *)

Payloads == [i \in 1..Len(Requests) |-> PayloadOf[Requests[i]]]

\* Where the first frames of the stream end.
Ends == CHOOSE e : /\ IsStream(Bytes, Payloads, Len(Requests), e)
                   /\ \A d \in 0..Len(Requests) :
                        FlattenSeq([i \in 1..d |-> EncodeFrame(Payloads[i])])
                          = SubSeq(Bytes, 1, e[d])

LEMMA BytesAreStream ==
    /\ Len(Requests) \in Nat /\ DOMAIN Requests = 1..Len(Requests)
    /\ Requests \in Seq(Ids)
    /\ \A i \in 1..Len(Requests) : Requests[i] \in Ids
    /\ IsStream(Bytes, Payloads, Len(Requests), Ends)
    /\ \A d \in 0..Len(Requests) :
         FlattenSeq([i \in 1..d |-> EncodeFrame(Payloads[i])]) = SubSeq(Bytes, 1, Ends[d])
  <1> DEFINE N == Len(Requests)
  <1>1. /\ Requests \in Seq(Ids) /\ N \in Nat /\ DOMAIN Requests = 1..N
        /\ \A i \in 1..N : Requests[i] \in Ids
    BY ConnectionAssumption, LenProperties, ElementOfSeq DEF Ids
  <1>2. /\ Payloads \in [1..N -> Seq(Byte)]
        /\ \A j \in 1..N : FitsHeader(Len(Payloads[j]))
    BY <1>1, ConnectionAssumption DEF Payloads, Ids
  <1>3. Bytes = FlattenSeq([i \in 1..N |-> EncodeFrame(Payloads[i])])
    <2>1. [i \in 1..N |-> EncodeFrame(Payloads[i])]
            = [i \in DOMAIN Requests |-> EncodeFrame(PayloadOf[Requests[i]])]
      BY <1>1 DEF Payloads
    <2> QED BY <2>1 DEF Bytes
  <1>4. \E e : /\ IsStream(Bytes, Payloads, N, e)
               /\ \A d \in 0..N :
                    FlattenSeq([i \in 1..d |-> EncodeFrame(Payloads[i])]) = SubSeq(Bytes, 1, e[d])
    <2> HIDE DEF N
    <2> QED BY <1>1, <1>2, <1>3, StreamOfFrames, Zenon
  <1> QED BY <1>1, <1>4, Zenon DEF Ends

(* The buffer begins where the frames decoded end, and holds no other whole   *)
(* frame unless a malformed one is among them.                               *)
StreamInv ==
    LET d == Len(decoded)
    IN  /\ got \in 0..Len(Bytes)
        /\ d \in 0..Len(Requests)
        /\ decoded = [i \in 1..d |-> Requests[i]]
        /\ Ends[d] <= got
        /\ buffer = SubSeq(Bytes, Ends[d] + 1, got)
        /\ threw \/ d = Len(Requests) \/ got < Ends[d + 1]

LoopInv == \A l \in loops : l \in Seq(Ids) /\ l # <<>>

\* What a chunk makes of the stream.
LEMMA ChunkDecoded ==
    ASSUME StreamInv, NEW m \in Nat, got <= m, m <= Len(Bytes)
    PROVE  LET all == buffer \o SubSeq(Bytes, got + 1, m)
               result == TryDecodeFrames(all)
               envelopes == [i \in DOMAIN result.frames |-> Envelope(result.frames[i])]
               d == Len(decoded)
           IN  /\ all = SubSeq(Bytes, Ends[d] + 1, m)
               /\ envelopes \in Seq(Ids)
               /\ \E k \in d..Len(Requests) :
                    /\ decoded \o envelopes = [i \in 1..k |-> Requests[i]]
                    /\ Ends[k] <= m
                    /\ result.remainder = SubSeq(Bytes, Ends[k] + 1, m)
                    /\ k = Len(Requests) \/ m < Ends[k + 1]
  <1> DEFINE all == buffer \o SubSeq(Bytes, got + 1, m)
             result == TryDecodeFrames(all)
             envelopes == [i \in DOMAIN result.frames |-> Envelope(result.frames[i])]
             d == Len(decoded)
             N == Len(Requests)
  <1>1. /\ N \in Nat /\ IsStream(Bytes, Payloads, N, Ends)
        /\ \A i \in 1..N : Requests[i] \in Ids
    BY BytesAreStream
  <1>2. /\ d \in 0..N /\ got \in Nat /\ Ends[d] <= got /\ Ends[d] \in Nat
        /\ buffer = SubSeq(Bytes, Ends[d] + 1, got)
        /\ decoded = [i \in 1..d |-> Requests[i]]
        /\ Bytes \in Seq(Byte) /\ Len(Bytes) \in Nat
    <2>1. /\ Bytes \in Seq(Byte) /\ Ends \in [0..N -> Nat]
      BY <1>1 DEF IsStream
    <2>2. Len(Bytes) \in Nat
      BY <2>1, LenProperties
    <2> QED BY <2>1, <2>2 DEF StreamInv
  <1> HIDE DEF d, N
  <1>3. all = SubSeq(Bytes, Ends[d] + 1, m)
    <2> DEFINE s == Ends[d]
    <2>1. s \in Nat /\ s <= got
      BY <1>2
    <2> HIDE DEF s
    <2>2. /\ s + 1 \in 1..(Len(Bytes) + 1) /\ got \in ((s + 1) - 1)..Len(Bytes)
          /\ m \in got..Len(Bytes)
      BY <1>2, <2>1
    <2>3. SubSeq(Bytes, s + 1, got) \o SubSeq(Bytes, got + 1, m) = SubSeq(Bytes, s + 1, m)
      BY <1>2, <2>2, ConcatAdjacentSubSeq
    <2> QED BY <1>2, <2>3 DEF s
  <1>4. Ends[d] <= m
    BY <1>2
  <1>5. PICK k \in d..N : Ends[k] <= m /\ (k = N \/ m < Ends[k + 1])
    BY <1>1, <1>2, <1>4, LastEnd, Zenon
  <1>6. result = [frames |-> [i \in 1..(k - d) |-> Payloads[d + i]],
                  remainder |-> SubSeq(Bytes, Ends[k] + 1, m)]
    <2>1. DecodesTo(Bytes, Payloads, Ends, d, k, m)
      BY <1>1, <1>2, <1>5, DecodesFrames
    <2> QED BY <1>3, <2>1, Zenon DEF DecodesTo
  <1> HIDE DEF all, result
  <1>7. ASSUME NEW i \in 1..N PROVE Envelope(Payloads[i]) = Requests[i]
    <2>1. Payloads[i] = PayloadOf[Requests[i]] /\ Requests[i] \in Ids
      BY <1>1, <1>7 DEF Payloads, N
    <2>2. ASSUME NEW r \in Ids, PayloadOf[r] = PayloadOf[Requests[i]]
          PROVE  r = Requests[i]
      BY <2>1, <2>2, ConnectionAssumption DEF IsInjective, Ids
    <2> QED BY <2>1, <2>2 DEF Envelope
  <1>8. envelopes = [i \in 1..(k - d) |-> Requests[d + i]]
    <2>1. result.frames = [i \in 1..(k - d) |-> Payloads[d + i]]
      BY <1>6
    <2>2. DOMAIN result.frames = 1..(k - d)
      BY <2>1
    <2>3. \A i \in 1..(k - d) : result.frames[i] = Payloads[d + i] /\ d + i \in 1..N
      BY <1>1, <1>2, <2>1
    <2> QED BY <1>7, <2>2, <2>3
  <1>9. envelopes \in Seq(Ids) /\ Len(envelopes) = k - d
    <2>1. k - d \in Nat /\ \A i \in 1..(k - d) : d + i \in 1..N
      BY <1>1, <1>2
    <2>2. envelopes \in [1..(k - d) -> Ids]
      BY <1>1, <1>8, <2>1
    <2> HIDE DEF envelopes
    <2> QED BY <2>1, <2>2, FunctionIsSeq
  <1>10. decoded \o envelopes = [i \in 1..k |-> Requests[i]]
    <2> DEFINE t == [i \in 1..k |-> Requests[i]]
               n == k - d
    <2>1. k \in Nat /\ n \in Nat /\ d + n = k /\ d \in Nat /\ k <= N /\ d <= k
      BY <1>1, <1>2
    <2>2. t \in Seq(Ids) /\ Len(t) = k
      <3>1. t \in [1..k -> Ids]
        BY <1>1, <2>1
      <3> HIDE DEF t
      <3> QED BY <2>1, <3>1, FunctionIsSeq
    <2>3. decoded \in Seq(Ids) /\ Len(decoded) = d
      <3>1. decoded \in [1..d -> Ids]
        BY <1>1, <1>2
      <3> QED BY <2>1, <3>1, FunctionIsSeq
    <2>4. \A i \in 1..n : envelopes[i] = t[d + i]
      <3>1. \A i \in 1..n : d + i \in 1..k
        BY <2>1
      <3> HIDE DEF n
      <3>2. envelopes = [i \in 1..n |-> Requests[d + i]]
        BY <1>8 DEF n
      <3> HIDE DEF envelopes
      <3> QED BY <3>1, <3>2
    <2>5. \A i \in 1..d : decoded[i] = t[i]
      BY <1>2, <2>1
    <2> HIDE DEF envelopes, t
    <2>6. /\ decoded \o envelopes \in Seq(Ids)
          /\ Len(decoded \o envelopes) = d + n
          /\ \A i \in 1..(d + n) : (decoded \o envelopes)[i] =
                                     IF i <= d THEN decoded[i] ELSE envelopes[i - d]
      BY <1>9, <2>3, ConcatProperties
    <2> HIDE DEF n
    <2>7. ASSUME NEW i \in 1..k PROVE (decoded \o envelopes)[i] = t[i]
      <3>1. CASE i <= d
        <4>1. i \in 1..d /\ i \in 1..(d + n)
          BY <2>1, <3>1
        <4> QED BY <2>5, <2>6, <3>1, <4>1
      <3>2. CASE ~(i <= d)
        <4>1. i - d \in 1..n /\ d + (i - d) = i /\ i \in 1..(d + n)
          BY <2>1, <3>2
        <4>2. (decoded \o envelopes)[i] = envelopes[i - d]
          BY <2>6, <3>2, <4>1
        <4> QED BY <2>4, <4>1, <4>2
      <3> QED BY <3>1, <3>2
    <2>8. decoded \o envelopes = t
      BY <2>1, <2>2, <2>6, <2>7, SeqEqual
    <2> QED BY <2>8 DEF t
  <1>11. result.remainder = SubSeq(Bytes, Ends[k] + 1, m)
    BY <1>6
  <1> HIDE DEF envelopes
  <1>12. \E j \in d..N :
           /\ decoded \o envelopes = [i \in 1..j |-> Requests[i]]
           /\ Ends[j] <= m
           /\ result.remainder = SubSeq(Bytes, Ends[j] + 1, m)
           /\ j = N \/ m < Ends[j + 1]
    BY <1>5, <1>10, <1>11
  <1> QED BY <1>3, <1>9, <1>12 DEF all, result, envelopes, d, N

LEMMA StreamStep == StreamInv /\ [Next]_vars => StreamInv'
  <1> SUFFICES ASSUME StreamInv, [Next]_vars PROVE StreamInv'
    OBVIOUS
  <1>1. CASE UNCHANGED wire
    BY <1>1 DEF StreamInv, wire
  <1>2. ASSUME NEW n \in 1..(Len(Bytes) - got), Data(n) PROVE StreamInv'
    <2> DEFINE m == got + n
               all == buffer \o SubSeq(Bytes, got + 1, m)
               result == TryDecodeFrames(all)
               envelopes == [i \in DOMAIN result.frames |-> Envelope(result.frames[i])]
               throws == \E r \in Range(envelopes) : kind[r] = "malformed"
               d == Len(decoded)
               N == Len(Requests)
    <2>1. /\ got' = m
          /\ buffer' = IF throws THEN all ELSE result.remainder
          /\ threw' = (threw \/ throws)
          /\ decoded' = IF throws THEN decoded ELSE decoded \o envelopes
      BY <1>2 DEF Data
    <2>2. /\ m \in Nat /\ got <= m /\ m <= Len(Bytes) /\ d \in 0..N /\ got \in Nat
          /\ Len(Bytes) \in Nat /\ Bytes \in Seq(Byte) /\ N \in Nat
          /\ Ends[d] \in Nat /\ Ends[d] <= got /\ m \in 0..Len(Bytes)
      <3>1. /\ Bytes \in Seq(Byte) /\ Ends \in [0..N -> Nat] /\ N \in Nat
        BY BytesAreStream DEF IsStream
      <3>2. Len(Bytes) \in Nat
        BY <3>1, LenProperties
      <3> QED BY <3>1, <3>2 DEF StreamInv
    <2>3. /\ all = SubSeq(Bytes, Ends[d] + 1, m)
          /\ envelopes \in Seq(Ids)
          /\ \E k \in d..N :
               /\ decoded \o envelopes = [i \in 1..k |-> Requests[i]]
               /\ Ends[k] <= m
               /\ result.remainder = SubSeq(Bytes, Ends[k] + 1, m)
               /\ k = N \/ m < Ends[k + 1]
      <3> HIDE DEF m
      <3> QED BY <2>2, ChunkDecoded, Zenon
    <2> HIDE DEF all, result, envelopes, throws
    <2>4. CASE throws
      <3>1. /\ decoded' = decoded /\ got' = m /\ threw'
            /\ buffer' = SubSeq(Bytes, Ends[d] + 1, m) /\ Ends[d] <= m
        <4>1. Ends[d] <= m
          BY <2>2
        <4> QED BY <2>1, <2>3, <2>4, <4>1, Zenon
      <3> QED BY <2>2, <3>1 DEF StreamInv
    <2>5. CASE ~throws
      <3>1. PICK k \in d..N :
               /\ decoded \o envelopes = [i \in 1..k |-> Requests[i]]
               /\ Ends[k] <= m
               /\ result.remainder = SubSeq(Bytes, Ends[k] + 1, m)
               /\ k = N \/ m < Ends[k + 1]
        BY <2>3
      <3>2. /\ decoded' = [i \in 1..k |-> Requests[i]] /\ got' = m
            /\ buffer' = SubSeq(Bytes, Ends[k] + 1, m)
        BY <2>1, <2>5, <3>1
      <3>3. Len(decoded') = k /\ k \in 0..N
        <4>1. k \in Nat /\ k \in 0..N
          BY <2>2
        <4>2. \A i \in 1..k : Requests[i] \in Ids
          BY <2>2, <4>1, BytesAreStream
        <4>3. decoded' \in [1..k -> Ids]
          BY <3>2, <4>2
        <4> QED BY <4>1, <4>3, FunctionIsSeq
      <3> HIDE DEF m, N, d
      <3>4. m \in 0..Len(Bytes)
        BY <2>2
      <3> QED BY <3>1, <3>2, <3>3, <3>4 DEF StreamInv, N
    <2> QED BY <2>4, <2>5
  <1>3. UNCHANGED wire \/ \E n \in 1..(Len(Bytes) - got) : Data(n)
    BY DEF Next, vars, Reply, Shutdown, Invoke, Start, TimeOut, Finish
  <1> QED BY <1>1, <1>2, <1>3

LEMMA LoopStep == StreamInv /\ LoopInv /\ [Next]_vars => LoopInv'
  <1> SUFFICES ASSUME StreamInv, LoopInv, [Next]_vars PROVE LoopInv'
    OBVIOUS
  <1>1. CASE UNCHANGED loops
    BY <1>1 DEF LoopInv
  <1>2. ASSUME NEW r, Done(r) PROVE LoopInv'
    <2> SUFFICES ASSUME NEW l \in loops' PROVE l \in Seq(Ids) /\ l # <<>>
      BY DEF LoopInv
    <2>1. PICK k \in loops : l = IF Head(k) = r THEN Tail(k) ELSE k
      BY <1>2 DEF Done
    <2>2. k \in Seq(Ids) /\ k # <<>> /\ l # <<>>
      BY <1>2 DEF LoopInv, Done
    <2>3. Tail(k) \in Seq(Ids)
      BY <2>2, HeadTailProperties
    <2> QED BY <2>1, <2>2, <2>3
  <1>3. ASSUME NEW n \in 1..(Len(Bytes) - got), Data(n) PROVE LoopInv'
    <2> DEFINE m == got + n
               result == TryDecodeFrames(buffer \o SubSeq(Bytes, got + 1, m))
               envelopes == [i \in DOMAIN result.frames |-> Envelope(result.frames[i])]
    <2>1. m \in Nat /\ got <= m /\ m <= Len(Bytes)
      <3>1. Bytes \in Seq(Byte)
        BY BytesAreStream DEF IsStream
      <3>2. Len(Bytes) \in Nat
        BY <3>1, LenProperties
      <3> QED BY <3>2 DEF StreamInv
    <2>2. envelopes \in Seq(Ids)
      <3> HIDE DEF m
      <3> QED BY <2>1, ChunkDecoded, Zenon
    <2>3. loops' = loops \/ (envelopes # <<>> /\ loops' = loops \cup {envelopes})
      BY <1>3, Zenon DEF Data
    <2> HIDE DEF envelopes
    <2> QED BY <2>2, <2>3 DEF LoopInv
  <1>4. \/ UNCHANGED loops \/ \E r : Done(r)
        \/ \E n \in 1..(Len(Bytes) - got) : Data(n)
    BY DEF Next, vars, Reply, Shutdown, Invoke, Start, TimeOut, Finish, Settle
  <1> QED BY <1>1, <1>2, <1>3, <1>4

GaugeInv == gauge \in 0..Cardinality(Ids)

LEMMA GaugeStep == GaugeInv /\ [Next]_vars => GaugeInv'
  <1> SUFFICES ASSUME GaugeInv, [Next]_vars PROVE GaugeInv'
    OBVIOUS
  <1>1. Cardinality(Waiting) \in 0..Cardinality(Ids)
    <2>1. Waiting \subseteq Ids
      BY DEF Waiting
    <2> QED BY <2>1, IdsFinite, FS_Subset, FS_CardinalityType
  <1>2. Cardinality(Waiting') \in 0..Cardinality(Ids)
    <2>1. Waiting' \subseteq Ids
      BY DEF Waiting
    <2> QED BY <2>1, IdsFinite, FS_Subset, FS_CardinalityType
  <1>3. \/ UNCHANGED gauge \/ UpdateQueueDepth \/ gauge' = Cardinality(Waiting)
    BY DEF Next, vars, metrics, Data, Reply, Shutdown, Invoke, Start, TimeOut, Finish, Settle
  <1> QED BY <1>1, <1>2, <1>3 DEF UpdateQueueDepth, GaugeInv

LEMMA StreamTypes == RequestInv /\ StreamInv /\ LoopInv /\ GaugeInv => TypeOK
  <1> SUFFICES ASSUME RequestInv, StreamInv, LoopInv, GaugeInv
               PROVE  TypeOK
    OBVIOUS
  <1>1. buffer \in Seq(Byte)
    <2>1. /\ Bytes \in Seq(Byte) /\ Ends \in [0..Len(Requests) -> Nat]
      BY BytesAreStream DEF IsStream
    <2>2. /\ Ends[Len(decoded)] \in Nat /\ got \in Nat /\ Ends[Len(decoded)] <= got
          /\ got <= Len(Bytes) /\ buffer = SubSeq(Bytes, Ends[Len(decoded)] + 1, got)
      BY <2>1, LenProperties DEF StreamInv
    <2> QED BY <2>1, <2>2, Window
  <1>2. ASSUME NEW l \in loops PROVE l # <<>> /\ Range(l) \subseteq Ids
    BY RangeOfSeq DEF LoopInv
  <1>3. Range(answers) \subseteq Answers
    BY RangeOfSeq DEF RequestInv
  <1> QED BY <1>1, <1>2, <1>3 DEF RequestInv, StreamInv, GaugeInv, TypeOK, Metrics, Answers

LEMMA StreamInit == Init => StreamInv /\ LoopInv /\ GaugeInv
  <1> SUFFICES ASSUME Init PROVE StreamInv /\ LoopInv /\ GaugeInv
    OBVIOUS
  <1>1. /\ Bytes \in Seq(Byte) /\ Ends[0] = 0 /\ Len(Requests) \in Nat
        /\ Ends \in [0..Len(Requests) -> Nat]
        /\ \A j \in 1..Len(Requests) :
             Ends[j] = Ends[j - 1] + HeaderSize + Len(Payloads[j]) /\ Payloads[j] \in Seq(Byte)
    BY BytesAreStream DEF IsStream
  <1>2. Len(Bytes) \in Nat /\ 0 \in 0..Len(Bytes)
    BY <1>1, LenProperties
  <1>3. Len(Requests) = 0 \/ 0 < Ends[1]
    <2> SUFFICES ASSUME Len(Requests) # 0 PROVE 0 < Ends[1]
      OBVIOUS
    <2>1. 1 \in 1..Len(Requests) /\ 1 - 1 = 0
      BY <1>1
    <2>2. Ends[1] = 0 + HeaderSize + Len(Payloads[1]) /\ Len(Payloads[1]) \in Nat
      BY <1>1, <2>1, LenProperties
    <2> QED BY <2>2 DEF HeaderSize
  <1>4. decoded = <<>> /\ Len(decoded) = 0 /\ decoded = [i \in 1..0 |-> Requests[i]]
    BY DEF Init
  <1>5. buffer = SubSeq(Bytes, Ends[0] + 1, 0)
    <2>1. SubSeq(Bytes, 0 + 1, 0) = <<>>
      BY SubSeqEmpty
    <2> QED BY <1>1, <2>1 DEF Init
  <1>6. Cardinality(Ids) \in Nat
    BY IdsFinite, FS_CardinalityType
  <1>7. 0 + 1 = 1 /\ 0 <= 0 /\ 0 \in 0..Len(Requests)
    BY <1>1
  <1> QED BY <1>1, <1>2, <1>3, <1>4, <1>5, <1>6, <1>7 DEF Init, StreamInv, LoopInv, GaugeInv

\* The types of the connection's state.
THEOREM TypeCorrect == Spec => []TypeOK
  BY RequestInvariant, StreamInit, StreamStep, LoopStep, GaugeStep, StreamTypes, PTL DEF Spec

\* FramesAreExact: however the stream is cut, what was decoded and what is kept
\* are the bytes that arrived, and no whole frame is left lying.
THEOREM FramesNeitherLostNorTorn == Spec => []FramesAreExact
  <1>1. StreamInv /\ TypeOK => FramesAreExact
    <2> SUFFICES ASSUME StreamInv, TypeOK PROVE FramesAreExact
      OBVIOUS
    <2> DEFINE d == Len(decoded)
               N == Len(Requests)
    <2>1. /\ N \in Nat /\ d \in 0..N /\ got \in Nat /\ got <= Len(Bytes) /\ Len(Bytes) \in Nat
          /\ Ends[d] \in Nat /\ Ends[d] <= got /\ Bytes \in Seq(Byte)
          /\ decoded = [i \in 1..d |-> Requests[i]]
          /\ buffer = SubSeq(Bytes, Ends[d] + 1, got)
          /\ threw \/ d = N \/ got < Ends[d + 1]
          /\ IsStream(Bytes, Payloads, N, Ends)
      <3>1. /\ Bytes \in Seq(Byte) /\ Ends \in [0..N -> Nat] /\ N \in Nat
            /\ IsStream(Bytes, Payloads, N, Ends)
        BY BytesAreStream DEF IsStream
      <3>2. Len(Bytes) \in Nat
        BY <3>1, LenProperties
      <3> QED BY <3>1, <3>2 DEF StreamInv
    <2> HIDE DEF d, N
    <2>2. FlattenSeq([i \in DOMAIN decoded |-> EncodeFrame(PayloadOf[decoded[i]])])
            = SubSeq(Bytes, 1, Ends[d])
      <3>1. DOMAIN decoded = 1..d /\ \A i \in 1..d : decoded[i] = Requests[i]
        BY <2>1
      <3>2. \A i \in 1..d : Payloads[i] = PayloadOf[Requests[i]]
        BY <2>1 DEF Payloads, N
      <3>3. [i \in DOMAIN decoded |-> EncodeFrame(PayloadOf[decoded[i]])]
              = [i \in 1..d |-> EncodeFrame(Payloads[i])]
        BY <3>1, <3>2
      <3> QED BY <2>1, <3>3, BytesAreStream DEF N
    <2>3. SubSeq(Bytes, 1, Ends[d]) \o buffer = SubSeq(Bytes, 1, got)
      <3> DEFINE s == Ends[d]
      <3>1. s \in Nat /\ s <= got
        BY <2>1
      <3> HIDE DEF s
      <3>2. 1 \in 1..(Len(Bytes) + 1) /\ s \in (1 - 1)..Len(Bytes) /\ got \in s..Len(Bytes)
        BY <2>1, <3>1
      <3>3. SubSeq(Bytes, 1, s) \o SubSeq(Bytes, s + 1, got) = SubSeq(Bytes, 1, got)
        BY <2>1, <3>2, ConcatAdjacentSubSeq
      <3> QED BY <2>1, <3>3 DEF s
    <2>4. ASSUME ~threw PROVE ~HasFrame(buffer, 0)
      <3>1. d \in d..N /\ Ends[d] - Ends[d] = 0
        BY <2>1
      <3>2. HasFrame(buffer, 0) => d < N /\ Ends[d + 1] <= got
        <4>1. FindsNext(Bytes, Payloads, N, Ends, d, d, got)
          BY <2>1, <3>1, NextFrame
        <4>2. buffer = SubSeq(Bytes, Ends[d] + 1, got)
          BY <2>1
        <4> QED BY <3>1, <4>1, <4>2, Zenon DEF FindsNext
      <3>3. d < N => Ends[d + 1] \in Nat
        <4>1. d < N => d + 1 \in 0..N
          BY <2>1
        <4> QED BY <2>1, <4>1 DEF IsStream
      <3> QED BY <2>1, <2>4, <3>2, <3>3
    <2> QED BY <2>2, <2>3, <2>4 DEF FramesAreExact
  <1>2. Spec => []StreamInv
    BY StreamInit, StreamStep, PTL DEF Spec
  <1> QED BY <1>1, <1>2, TypeCorrect, PTL
=============================================================================
