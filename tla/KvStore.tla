------------------------------- MODULE KvStore -------------------------------
(* The store a plugin sees as ctx.kv (packages/plugin-runtime/src/kv.ts):    *)
(* entries with a time to live, listing and clearing a namespace, and        *)
(* withLock, over one memory backend or over Redis, for callers that run at  *)
(* the same time. A memory operation is one synchronous step; a Redis one is *)
(* one command, whose reply may be lost, and a listing or a clear is many.   *)
(* Payloads are left out: get returns one exactly where exists says TRUE.    *)
EXTENDS Integers

CONSTANTS
    Kinds,       \* the backends considered: "memory", "redis"
    Namespaces,  \* namespace prefixes the host has rendered
    Below,       \* Below[n]: the namespaces whose keys start with "n:", with n
    Keys,        \* keys that pass validateKey
    LockKeys,    \* the full keys that withLock is called with
    Callers,     \* asynchronous flows of plugin code
    Tokens,      \* what randomUUID returns
    NoToken,
    MaxTtl       \* bound on the seconds of a time to live

ASSUME KvAssumption ==
    /\ Kinds \subseteq {"memory", "redis"}
    /\ NoToken \notin Tokens
    /\ MaxTtl \in Nat \ {0}
    /\ Below \in [Namespaces -> SUBSET Namespaces]
    /\ LockKeys \subseteq Namespaces \X Keys

VARIABLES
    kind,    \* config.backend.kind of the stores
    values,  \* values[k]: seconds the entry of k has left, or Forever, or Absent
    locks,   \* locks[k]: the token of k's lock entry and the seconds it has left
    hold,    \* hold[c]: the withLock that c is inside of
    scan     \* the listKeys or clear in progress, one at a time

vars == <<kind, values, locks, hold, scan>>

FullKeys == Namespaces \X Keys
Items == ({"data"} \X FullKeys) \cup ({"lock"} \X LockKeys)
Absent == -1
Forever == MaxTtl + 1

NoLock == [token |-> NoToken, left |-> 0]
Locks == [token : Tokens \cup {NoToken}, left : 0..MaxTtl]

(* left and revoked are history: the seconds of lease that were promised,    *)
(* and whether a clear took the lock since.                                  *)
NoHold == [key |-> <<>>, token |-> NoToken, left |-> 0, revoked |-> FALSE]
Holds == [key : LockKeys \cup {<<>>}, token : Tokens \cup {NoToken},
          left : 0..MaxTtl, revoked : BOOLEAN]

(* cover: the items the pattern matches; todo: those there when SCAN began   *)
(* and not visited yet; batch: what the last reply holds and a clear has not *)
(* unlinked; found: the answer. steady and fresh are history: the items that *)
(* were there all the time, and those written meanwhile. An item that failed *)
(* to be unlinked leaves the cover, and stays in found if it was the last.   *)
Scan(op, cover, todo, batch, found, steady, fresh) ==
    [op |-> op, cover |-> cover, todo |-> todo, batch |-> batch,
     found |-> found, steady |-> steady, fresh |-> fresh]
Scans == [op : {"none", "list", "listed", "clear", "failed"},
          cover : SUBSET Items, todo : SUBSET Items, batch : SUBSET Items,
          found : SUBSET Items, steady : SUBSET Items, fresh : SUBSET Items]
NoScan == Scan("none", {}, {}, {}, {}, {}, {})
Cleared(spared) == Scan("none", {}, {}, {}, spared, {}, {})
Failed == Scan("failed", {}, {}, {}, {}, {}, {})
Listed(found, steady) == Scan("listed", {}, {}, {}, found, steady, {})

Live(k) == values[k] > 0
Locked(k) == locks[k].left > 0
Exists(i) == IF i[1] = "data" THEN Live(i[2]) ELSE Locked(i[2])
Scanning == scan.op \in {"list", "clear"}

TypeOK ==
    /\ kind \in Kinds
    /\ values \in [FullKeys -> Absent..Forever]
    /\ locks \in [LockKeys -> Locks]
    /\ hold \in [Callers -> Holds]
    /\ scan \in Scans

Init ==
    /\ kind \in Kinds
    /\ values = [k \in FullKeys |-> Absent]
    /\ locks = [k \in LockKeys |-> NoLock]
    /\ hold = [c \in Callers |-> NoHold]
    /\ scan = NoScan

(***************************************************************************)
(* Entries. A command of Redis may be carried out and its reply be lost, or *)
(* not be carried out: either way the call rejects, and only the latter     *)
(* differs for the store; it is a step that changes nothing.                *)
(***************************************************************************)

(* readValue of the memory store deletes what it finds expired.              *)
Purged(ks) ==
    [k \in FullKeys |-> IF k \in ks /\ values[k] = 0 THEN Absent ELSE values[k]]

(* An item that is written while SCAN runs may be in its replies or not; one *)
(* that was there before, and still is, will be.                             *)
Written(i) ==
    LET anew == IF Exists(i) THEN {} ELSE {i}
    IN  IF i \notin scan.cover THEN scan
        ELSE Scan(scan.op, scan.cover, scan.todo \ anew, scan.batch, scan.found,
                  scan.steady \ anew, scan.fresh \cup {i})

(* SET with EX, or without when the time to live is zero or less.            *)
SecondsLeft(ttlSec) == IF ttlSec > 0 THEN ttlSec ELSE Forever

Set(k, ttlSec) ==
    /\ values' = [values EXCEPT ![k] = SecondsLeft(ttlSec)]
    /\ scan' = Written(<<"data", k>>)
    /\ UNCHANGED <<kind, locks, hold>>

(* get and exists.                                                           *)
Read(k) ==
    /\ values' = Purged({k})
    /\ UNCHANGED <<kind, locks, hold, scan>>

Del(k) ==
    /\ values' = [values EXCEPT ![k] = Absent]
    /\ UNCHANGED <<kind, locks, hold, scan>>

(***************************************************************************)
(* withLock.                                                                *)
(***************************************************************************)

TokensInUse ==
    {locks[k].token : k \in LockKeys} \cup {hold[c].token : c \in Callers}

(* The lock entry is made, and the caller enters fn if it hears of it.       *)
Lock(c, k, t, ttlSec, heard) ==
    /\ hold[c] = NoHold
    /\ t \notin TokensInUse
    /\ locks' = [locks EXCEPT ![k] = [token |-> t, left |-> ttlSec]]
    /\ hold' = IF heard THEN [hold EXCEPT ![c] =
                    [key |-> k, token |-> t, left |-> ttlSec, revoked |-> FALSE]]
               ELSE hold
    /\ scan' = Written(<<"lock", k>>)
    /\ UNCHANGED <<kind, values>>

(* readLock finds none, or one that is over: a ttlSec of zero makes a lock   *)
(* that is over at once. A busy lock changes nothing: withLock returns null  *)
(* or throws.                                                                *)
AcquireMemory(c, k, t, ttlSec) ==
    /\ kind = "memory"
    /\ ~Locked(k)
    /\ Lock(c, k, t, ttlSec, TRUE)

(* Faulty variant: SET without NX.                                           *)
AcquireTaken(c, k, t, ttlSec) ==
    /\ kind = "redis"
    /\ ttlSec > 0
    /\ Lock(c, k, t, ttlSec, TRUE)

(* SET NX PX, which refuses a time to live of zero; the reply may be lost.   *)
AcquireRedis(c, k, t, ttlSec) ==
    /\ kind = "redis"
    /\ ~Locked(k)
    /\ ttlSec > 0
    /\ \E heard \in BOOLEAN : Lock(c, k, t, ttlSec, heard)

(* fn is over.                                                               *)
Leave(c) ==
    /\ hold[c] # NoHold
    /\ hold' = [hold EXCEPT ![c] = NoHold]
    /\ UNCHANGED <<kind, values, scan>>

(* Faulty variant: finally deletes the lock whoever's it is.                 *)
ReleaseAny(c) ==
    /\ kind = "memory"
    /\ Leave(c)
    /\ locks' = [locks EXCEPT ![hold[c].key] = NoLock]

(* finally: the entry is deleted if it carries the token of this call.       *)
Freed(c) ==
    [locks EXCEPT ![hold[c].key] = IF @.token = hold[c].token THEN NoLock ELSE @]

ReleaseMemory(c) ==
    /\ kind = "memory"
    /\ Leave(c)
    /\ locks' = Freed(c)

(* The EVAL of the unlock script may fail: withLock rejects, and the lock    *)
(* stays until its lease ends.                                               *)
ReleaseRedis(c) ==
    /\ kind = "redis"
    /\ Leave(c)
    /\ locks' = Freed(c) \/ locks' = locks

(***************************************************************************)
(* listKeys and clear.                                                      *)
(***************************************************************************)

Matching(n, pattern) == {<<"data", <<n, key>>>> : key \in pattern}
Own(n) == {i \in Items : i[2][1] = n}

(* The holders of the locks in ks lose them to a clear.                      *)
Revoked(ks) ==
    [c \in Callers |->
        IF hold[c].key \in ks \cap LockKeys /\ locks[hold[c].key].token = hold[c].token
        THEN [hold[c] EXCEPT !.revoked = TRUE] ELSE hold[c]]

(* The memory store lists in one step, from the keys of every namespace of   *)
(* its backend: a foreign key stands there in full, and only "*" matches it. *)
ListMemory(n, pattern) ==
    LET own == {i \in Matching(n, pattern) : Exists(i)}
        foreign == IF pattern = Keys THEN {"data"} \X FullKeys ELSE {}
    IN  /\ kind = "memory"
        /\ values' = Purged(FullKeys)
        /\ scan' = Listed(own \cup {i \in foreign : Exists(i)}, own)
        /\ UNCHANGED <<kind, locks, hold>>

ClearMemory(n) ==
    LET own == {n} \X Keys
    IN  /\ kind = "memory"
        /\ values' = [k \in FullKeys |-> IF k \in own THEN Absent ELSE values[k]]
        /\ locks' = [k \in LockKeys |-> IF k \in own THEN NoLock ELSE locks[k]]
        /\ hold' = Revoked(own)
        /\ UNCHANGED <<kind, scan>>

(* The first SCAN of a listing of n, whose pattern is "n:data:..." , or of a *)
(* clear of n, whose pattern "n:*" takes in the namespaces below n.          *)
StartScan(op, n, pattern) ==
    LET cover == IF op = "list" THEN Matching(n, pattern)
                 ELSE UNION {Own(m) : m \in Below[n]}
        there == {i \in cover : Exists(i)}
    IN  /\ kind = "redis"
        /\ ~Scanning
        /\ scan' = Scan(op, cover, there, {}, {}, there, {})
        /\ UNCHANGED <<kind, values, locks, hold>>

(* Faulty variant: the listing ends with the first empty reply.           *)
ListReplyStops ==
    /\ scan.op = "list"
    /\ \E visit \in SUBSET scan.todo, again \in SUBSET scan.fresh :
         LET keys == {i \in visit \cup again : Exists(i)}
             todo == scan.todo \ visit
             found == scan.found \cup keys
             steady == {i \in scan.steady : Exists(i)}
         IN scan' = IF todo = {} \/ keys = {} THEN Listed(found, steady)
                    ELSE Scan("list", scan.cover, todo, {}, found, steady, scan.fresh)
    /\ UNCHANGED <<kind, values, locks, hold>>

(* A reply of SCAN holds some of the items that were there from the start    *)
(* and perhaps some written since; a listing collects them until the cursor  *)
(* is back at 0.                                                             *)
ListReply ==
    /\ scan.op = "list"
    /\ \E visit \in SUBSET scan.todo, again \in SUBSET scan.fresh :
         LET todo == scan.todo \ visit
             found == scan.found \cup {i \in visit \cup again : Exists(i)}
             steady == {i \in scan.steady : Exists(i)}
         IN scan' = IF todo = {} THEN Listed(found, steady)
                    ELSE Scan("list", scan.cover, todo, {}, found, steady, scan.fresh)
    /\ UNCHANGED <<kind, values, locks, hold>>

(* Faulty variant: an empty reply breaks the loop instead of going on.    *)
ClearReplyStops ==
    /\ scan.op = "clear"
    /\ scan.batch = {}
    /\ \E visit \in SUBSET scan.todo :
         LET keys == {i \in visit : Exists(i)}
         IN scan' = IF keys = {} THEN NoScan
                    ELSE Scan("clear", scan.cover, scan.todo \ visit, keys,
                              {}, {}, scan.fresh)
    /\ UNCHANGED <<kind, values, locks, hold>>

(* A clear will unlink what the reply holds, and is over after the last one. *)
ClearReply ==
    /\ scan.op = "clear"
    /\ scan.batch = {}
    /\ \E visit \in SUBSET scan.todo, again \in SUBSET scan.fresh :
         LET keys == {i \in visit \cup again : Exists(i)}
             todo == scan.todo \ visit
         IN scan' = IF todo = {} /\ keys = {} THEN NoScan
                    ELSE Scan("clear", scan.cover, todo, keys, {}, {}, scan.fresh)
    /\ UNCHANGED <<kind, values, locks, hold>>

(* An UNLINK is answered, and the clear is over if it was the last one.      *)
Answered(i, spared) ==
    scan' = IF scan.todo = {} /\ scan.batch = {i} THEN Cleared(spared)
            ELSE Scan("clear", scan.cover \ spared, scan.todo, scan.batch \ {i},
                      {}, {}, scan.fresh \ spared)

(* One UNLINK of the pipeline; the key comes from a reply of earlier, and    *)
(* may have been written anew.                                               *)
Unlink(i) ==
    /\ scan.op = "clear"
    /\ i \in scan.batch
    /\ values' = [k \in FullKeys |-> IF i = <<"data", k>> THEN Absent ELSE values[k]]
    /\ locks' = [k \in LockKeys |-> IF i = <<"lock", k>> THEN NoLock ELSE locks[k]]
    /\ hold' = Revoked({k \in LockKeys : i = <<"lock", k>>})
    /\ Answered(i, {})
    /\ UNCHANGED kind

(* It fails: pipeline.exec() puts the error into its results, and the loop   *)
(* over them only counts numbers.                                            *)
UnlinkFails(i) ==
    /\ scan.op = "clear"
    /\ i \in scan.batch
    /\ Answered(i, {i})
    /\ UNCHANGED <<kind, values, locks, hold>>

(* A command of the scan fails: the call rejects, what is done is done.      *)
ScanFails ==
    /\ Scanning
    /\ scan' = Failed
    /\ UNCHANGED <<kind, values, locks, hold>>

(***************************************************************************)
(* The world.                                                               *)
(***************************************************************************)

(* Faulty variant: SET without PX, the lock has no time to live in Redis. *)
TickWithoutPx ==
    /\ values' = values
    /\ locks' = [k \in LockKeys |->
            IF kind = "redis" THEN locks[k] ELSE [locks[k] EXCEPT !.left = 0]]
    /\ hold' = [c \in Callers |-> [hold[c] EXCEPT !.left = 0]]
    /\ UNCHANGED <<kind, scan>>

(* A second less.                                                            *)
Aged(left) == IF left > 0 THEN left - 1 ELSE left

(* A second passes. Redis drops what has expired by itself.                  *)
Tick ==
    /\ values' = [k \in FullKeys |->
            CASE values[k] = Forever -> Forever
              [] values[k] = 1 /\ kind = "redis" -> Absent
              [] OTHER -> Aged(values[k])]
    /\ locks' = [k \in LockKeys |->
            IF kind = "redis" /\ locks[k].left <= 1 THEN NoLock
            ELSE [locks[k] EXCEPT !.left = Aged(@)]]
    /\ hold' = [c \in Callers |-> [hold[c] EXCEPT !.left = Aged(@)]]
    /\ UNCHANGED <<kind, scan>>

(* The runtime process goes down and comes up again: its memory backend is   *)
(* empty, Redis keeps everything, the locks of dead callers included.        *)
Restart ==
    /\ hold' = [c \in Callers |-> NoHold]
    /\ scan' = Failed
    /\ values' = IF kind = "memory" THEN [k \in FullKeys |-> Absent] ELSE values
    /\ locks' = IF kind = "memory" THEN [k \in LockKeys |-> NoLock] ELSE locks
    /\ UNCHANGED kind

Next ==
    \/ \E k \in FullKeys :
         \/ \E ttlSec \in 0..MaxTtl : Set(k, ttlSec)
         \/ Read(k)
         \/ Del(k)
    \/ \E c \in Callers :
         \/ \E k \in LockKeys, t \in Tokens, ttlSec \in 0..MaxTtl :
              AcquireMemory(c, k, t, ttlSec) \/ AcquireRedis(c, k, t, ttlSec)
         \/ ReleaseMemory(c)
         \/ ReleaseRedis(c)
    \/ \E n \in Namespaces, pattern \in {Keys} \cup {{key} : key \in Keys} :
         ListMemory(n, pattern) \/ StartScan("list", n, pattern)
    \/ \E n \in Namespaces : ClearMemory(n) \/ StartScan("clear", n, Keys)
    \/ ListReply
    \/ ClearReply
    \/ \E i \in Items : Unlink(i) \/ UnlinkFails(i)
    \/ ScanFails
    \/ Tick
    \/ Restart

Spec == Init /\ [][Next]_vars /\ WF_vars(Tick)

(***************************************************************************)
(* Properties.                                                              *)
(***************************************************************************)

(* Inside the lease it was promised, unless a clear took the lock.           *)
Leased(c) == hold[c].left > 0 /\ ~hold[c].revoked

(* No two callers run fn under one key within their leases (the busy check,  *)
(* SET NX, and the token compared in finally).                               *)
LeaseIsExclusive ==
    \A c, d \in Callers :
        Leased(c) /\ Leased(d) /\ hold[c].key = hold[d].key => c = d

(* What a clear leaves of its namespace when it returns was written while it *)
(* ran, or its UNLINK failed, whatever happened between scans and unlinks.   *)
ClearEmpties ==
    [][scan.op = "clear" /\ scan'.op = "none"
        => {i \in scan.cover : Exists(i)'} \subseteq scan.fresh \cup scan'.found]_vars

(* A finished listing has every key that was there the whole time.           *)
ListingIsComplete == scan.op = "listed" => scan.steady \subseteq scan.found

(* withLock is a lease lock: a stale finally frees nothing that is another's.*)
Lease == INSTANCE LeaseLock WITH
    owner <- [k \in LockKeys |-> IF Locked(k) THEN locks[k].token ELSE NoToken],
    inside <- [c \in Callers |->
        IF hold[c] = NoHold THEN <<>> ELSE <<hold[c].key, hold[c].token>>]
LeaseLockHolds == Lease!Spec

(* No lock outlives its lease, not even one whose holder died, whose reply   *)
(* was lost or whose release failed.                                         *)
LocksEnd ==
    \A k \in LockKeys, t \in Tokens :
        (Locked(k) /\ locks[k].token = t) ~> ~(Locked(k) /\ locks[k].token = t)
=============================================================================
