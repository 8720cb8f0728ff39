------------------------------ MODULE LeaseLock ------------------------------
(* What withLock of the plugin KV store promises: a key has at most one      *)
(* owner, an owner may lose the key at any moment (its lease ends, a clear   *)
(* takes it), and whoever leaves its critical section gives up nothing but   *)
(* what it still owns.                                                       *)
CONSTANTS LockKeys, Callers, Tokens, NoToken

VARIABLES
    owner,   \* owner[k]: the token that has the lease of k, or NoToken
    inside   \* inside[c]: the <<key, token>> caller c entered with, or <<>>

vars == <<owner, inside>>

Init ==
    /\ owner = [k \in LockKeys |-> NoToken]
    /\ inside = [c \in Callers |-> <<>>]

(* A caller gets a free key, with a token nobody has; the answer may be lost *)
(* on its way, and a lease may be over as soon as it is given.               *)
Enter(c, k, t) ==
    /\ inside[c] = <<>>
    /\ owner[k] = NoToken
    /\ \A d \in Callers : inside[d] # <<>> => inside[d][2] # t
    /\ \/ owner' = [owner EXCEPT ![k] = t]
       \/ owner' = owner
    /\ \/ inside' = [inside EXCEPT ![c] = <<k, t>>]
       \/ inside' = inside

(* A caller leaves: it frees the key if it owns it still, or fails to.       *)
Leave(c) ==
    /\ inside[c] # <<>>
    /\ inside' = [inside EXCEPT ![c] = <<>>]
    /\ \/ owner' = owner
       \/ /\ owner[inside[c][1]] = inside[c][2]
          /\ owner' = [owner EXCEPT ![inside[c][1]] = NoToken]

(* Leases end; nobody gains anything by it.                                  *)
Lapse ==
    /\ owner' \in [LockKeys -> Tokens \cup {NoToken}]
    /\ \A k \in LockKeys : owner'[k] \in {owner[k], NoToken}
    /\ inside' = inside

(* The process that runs the callers goes down.                              *)
Crash ==
    /\ inside' = [c \in Callers |-> <<>>]
    /\ owner' \in [LockKeys -> Tokens \cup {NoToken}]
    /\ \A k \in LockKeys : owner'[k] \in {owner[k], NoToken}

Next ==
    \/ \E c \in Callers, k \in LockKeys, t \in Tokens : Enter(c, k, t)
    \/ \E c \in Callers : Leave(c)
    \/ Lapse
    \/ Crash

Spec == Init /\ [][Next]_vars
=============================================================================
