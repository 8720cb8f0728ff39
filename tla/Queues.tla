-------------------------------- MODULE Queues --------------------------------
(***************************************************************************)
(* A queue as a sequence: the channel of ScheduledHost and the task queue   *)
(* of the pool in RuntimeServer.                                            *)
(***************************************************************************)
EXTENDS Integers, Sequences

Holds(q, x) == \E i \in 1 .. Len(q) : q[i] = x

Distinct(q) == \A i, j \in 1 .. Len(q) : q[i] = q[j] => i = j
===============================================================================
