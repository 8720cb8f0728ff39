------------------------------ MODULE CallService ------------------------------
(***************************************************************************)
(* What the scheduled plugin host promises to the threads that call         *)
(* ScheduledPluginHost::invoke, with no queue, worker, breaker or clock:    *)
(*   - every call that starts returns, and returns once;                    *)
(*   - the plugin answers a call at most once, possibly after its caller    *)
(*     has given up on it;                                                  *)
(*   - a call that is turned away never reached the plugin and never will;  *)
(*   - what a call returns is a rejection, a timeout, or the answer that    *)
(*     the plugin gave to this very call.                                   *)
(***************************************************************************)
CONSTANTS
    Calls,        \* the calls the threads make
    Answers,      \* the outcomes an answer of the plugin side can lead to
    Rejections    \* the outcomes of a call that was turned away

VARIABLES
    status,       \* "idle", "running", or what the call returned
    answer        \* the answer given to each call, "none" until there is one

vars == <<status, answer>>

Init ==
    /\ status = [c \in Calls |-> "idle"]
    /\ answer = [c \in Calls |-> "none"]

Begin(c) ==
    /\ status[c] = "idle"
    /\ status' = [status EXCEPT ![c] = "running"]
    /\ UNCHANGED answer

Answer(c) ==
    /\ status[c] \in {"running", "Timeout"}
    /\ answer[c] = "none"
    /\ \E a \in Answers : answer' = [answer EXCEPT ![c] = a]
    /\ UNCHANGED status

Return(c) ==
    /\ status[c] = "running"
    /\ answer[c] # "none"
    /\ status' = [status EXCEPT ![c] = answer[c]]
    /\ UNCHANGED answer

GiveUp(c) ==
    /\ status[c] = "running"
    /\ status' = [status EXCEPT ![c] = "Timeout"]
    /\ UNCHANGED answer

Reject(c) ==
    /\ status[c] = "running"
    /\ answer[c] = "none"
    /\ \E r \in Rejections : status' = [status EXCEPT ![c] = r]
    /\ UNCHANGED answer

Finish(c) == Return(c) \/ GiveUp(c) \/ Reject(c)

Next == \E c \in Calls : Begin(c) \/ Answer(c) \/ Finish(c)

Spec == Init /\ [][Next]_vars /\ \A c \in Calls : WF_vars(Finish(c))

\* The same promises without the liveness, for the proof of refinement.
SafeSpec == Init /\ [][Next]_vars
===============================================================================
