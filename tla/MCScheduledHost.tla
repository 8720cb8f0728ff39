---------------------------- MODULE MCScheduledHost ----------------------------
(* Small instances of ScheduledHost for TLC. *)
EXTENDS ScheduledHost, TLC

CONSTANTS c1, c2, c3

\* Calls are interchangeable: no action or property names one of them.
CallSymmetry == Permutations(Calls)
===============================================================================
