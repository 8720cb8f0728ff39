--------------------------- MODULE KvStoreProofs -----------------------------
(* Theorems about KvStore: its leases exclude each other, it implements      *)
(* LeaseLock, and listings and clears leave out nothing they should not.     *)
EXTENDS KvStore, TLAPS

(***************************************************************************)
(* The inductive invariant. A token is held by one caller at most, and a    *)
(* caller within its lease has the lock, for at least as long.              *)
(***************************************************************************)

HoldsDiffer ==
    \A c, d \in Callers :
        hold[c].token = hold[d].token /\ hold[c].token # NoToken => c = d

HoldersEntered ==
    \A c \in Callers :
        hold[c] = NoHold \/ (hold[c].key \in LockKeys /\ hold[c].token \in Tokens)

LeasesAreBacked ==
    \A c \in Callers : Leased(c) =>
        /\ locks[hold[c].key].token = hold[c].token
        /\ hold[c].left <= locks[hold[c].key].left

LocksInv == HoldsDiffer /\ HoldersEntered /\ LeasesAreBacked

(* What a scan has yet to deal with.                                         *)
ScanInv ==
    /\ scan.op = "list" => scan.steady \subseteq scan.todo \cup scan.found
    /\ scan.op = "listed" => scan.steady \subseteq scan.found
    /\ scan.op = "clear" => \A i \in scan.cover :
         Exists(i) => i \in scan.todo \cup scan.batch \cup scan.fresh

IInv == TypeOK /\ LocksInv /\ ScanInv

(***************************************************************************)
(* Types.                                                                   *)
(***************************************************************************)

LEMMA Shapes ==
    /\ NoLock \in Locks
    /\ NoHold \in Holds
    /\ NoScan \in Scans /\ Failed \in Scans
    /\ Absent \in Absent..Forever /\ Forever \in Absent..Forever
BY KvAssumption, SMT
   DEF NoLock, Locks, NoHold, Holds, NoScan, Failed, Scan, Scans, Absent, Forever

LEMMA ItemShape ==
    ASSUME NEW i \in Items
    PROVE  \/ i[1] = "data" /\ i[2] \in FullKeys
           \/ i[1] = "lock" /\ i[2] \in LockKeys
BY SMT DEF Items, FullKeys

LEMMA ScanShape ==
    ASSUME NEW op \in {"none", "list", "listed", "clear", "failed"},
           NEW cover \in SUBSET Items, NEW todo \in SUBSET Items,
           NEW batch \in SUBSET Items, NEW found \in SUBSET Items,
           NEW steady \in SUBSET Items, NEW fresh \in SUBSET Items
    PROVE  Scan(op, cover, todo, batch, found, steady, fresh) \in Scans
BY DEF Scan, Scans

LEMMA WrittenShape ==
    ASSUME TypeOK, NEW i \in Items
    PROVE  Written(i) \in Scans
<1>1. CASE i \notin scan.cover
  BY <1>1 DEF Written, TypeOK
<1>2. CASE i \in scan.cover
  <2> DEFINE anew == IF Exists(i) THEN {} ELSE {i}
  <2>1. Written(i) = Scan(scan.op, scan.cover, scan.todo \ anew, scan.batch, scan.found,
                          scan.steady \ anew, scan.fresh \cup {i})
    BY <1>2 DEF Written
  <2>2. /\ scan.op \in {"none", "list", "listed", "clear", "failed"}
        /\ scan.cover \in SUBSET Items /\ scan.todo \in SUBSET Items
        /\ scan.batch \in SUBSET Items /\ scan.found \in SUBSET Items
        /\ scan.steady \in SUBSET Items /\ scan.fresh \in SUBSET Items
    BY DEF TypeOK, Scans
  <2>3. /\ scan.todo \ anew \in SUBSET Items /\ scan.steady \ anew \in SUBSET Items
        /\ scan.fresh \cup {i} \in SUBSET Items
    BY <2>2
  <2> HIDE DEF anew
  <2> QED BY <2>1, <2>2, <2>3, ScanShape
<1> QED BY <1>1, <1>2

LEMMA InitType == Init => TypeOK
BY Shapes DEF Init, TypeOK

(* What a state holds by its type; cited wherever a field is looked at.      *)
LEMMA Fields ==
    ASSUME TypeOK
    PROVE  /\ scan.op \in {"none", "list", "listed", "clear", "failed"}
           /\ scan.cover \in SUBSET Items /\ scan.todo \in SUBSET Items
           /\ scan.batch \in SUBSET Items /\ scan.found \in SUBSET Items
           /\ scan.steady \in SUBSET Items /\ scan.fresh \in SUBSET Items
           /\ \A k \in FullKeys : values[k] \in Absent..Forever
           /\ \A k \in LockKeys : locks[k].token \in Tokens \cup {NoToken}
                                /\ locks[k].left \in 0..MaxTtl
           /\ \A c \in Callers : /\ hold[c].key \in LockKeys \cup {<<>>}
                                 /\ hold[c].token \in Tokens \cup {NoToken}
                                 /\ hold[c].left \in 0..MaxTtl
                                 /\ hold[c].revoked \in BOOLEAN
BY DEF TypeOK, Scans, Locks, Holds

LEMMA RevokedShape ==
    ASSUME TypeOK, NEW ks
    PROVE  Revoked(ks) \in [Callers -> Holds]
<1> SUFFICES ASSUME NEW c \in Callers
             PROVE  /\ hold[c] \in Holds
                    /\ [hold[c] EXCEPT !.revoked = TRUE] \in Holds
  BY DEF Revoked
<1> QED BY DEF TypeOK, Holds

LEMMA PurgedShape ==
    ASSUME TypeOK, NEW ks
    PROVE  Purged(ks) \in [FullKeys -> Absent..Forever]
BY Shapes DEF TypeOK, Purged

LEMMA LockType ==
    ASSUME TypeOK, NEW c \in Callers, NEW k \in LockKeys, NEW t \in Tokens,
           NEW ttlSec \in 0..MaxTtl, NEW heard \in BOOLEAN,
           Lock(c, k, t, ttlSec, heard)
    PROVE  TypeOK'
<1>1. locks' \in [LockKeys -> Locks]
  BY DEF Lock, TypeOK, Locks
<1>2. hold' \in [Callers -> Holds]
  <2>1. [key |-> k, token |-> t, left |-> ttlSec, revoked |-> FALSE] \in Holds
    BY DEF Holds
  <2> QED BY <2>1 DEF Lock, TypeOK
<1>3. scan' \in Scans
  <2>1. <<"lock", k>> \in Items
    BY DEF Items
  <2> QED BY <2>1, WrittenShape DEF Lock
<1> QED BY <1>1, <1>2, <1>3 DEF Lock, TypeOK

LEMMA ReleaseType ==
    ASSUME TypeOK, NEW c \in Callers, ReleaseMemory(c) \/ ReleaseRedis(c)
    PROVE  TypeOK'
<1>1. Freed(c) \in [LockKeys -> Locks]
  BY Shapes DEF Freed, TypeOK
<1>2. hold' \in [Callers -> Holds]
  BY Shapes DEF ReleaseMemory, ReleaseRedis, Leave, TypeOK
<1> QED BY <1>1, <1>2 DEF ReleaseMemory, ReleaseRedis, Leave, TypeOK

LEMMA UnlinkType ==
    ASSUME TypeOK, NEW i \in Items, Unlink(i) \/ UnlinkFails(i)
    PROVE  TypeOK'
<1>1. ASSUME NEW spared \in SUBSET Items, Answered(i, spared)
      PROVE  scan' \in Scans
  <2>1. Cleared(spared) \in Scans
    BY <1>1, ScanShape DEF Cleared
  <2>2. Scan("clear", scan.cover \ spared, scan.todo, scan.batch \ {i},
             {}, {}, scan.fresh \ spared) \in Scans
    BY Fields, ScanShape
  <2> QED BY <1>1, <2>1, <2>2 DEF Answered
<1>2. CASE UnlinkFails(i)
  BY <1>1, <1>2 DEF UnlinkFails, TypeOK
<1>3. CASE Unlink(i)
  <2>1. scan' \in Scans
    BY <1>1, <1>3 DEF Unlink
  <2>2. values' \in [FullKeys -> Absent..Forever]
    BY <1>3, Shapes DEF Unlink, TypeOK
  <2>3. locks' \in [LockKeys -> Locks]
    BY <1>3, Shapes DEF Unlink, TypeOK
  <2>4. hold' \in [Callers -> Holds]
    BY <1>3, RevokedShape DEF Unlink
  <2> QED BY <1>3, <2>1, <2>2, <2>3, <2>4 DEF Unlink, TypeOK
<1> QED BY <1>2, <1>3

LEMMA TickType == ASSUME TypeOK, Tick PROVE TypeOK'
<1>1. \A left \in 0..MaxTtl : Aged(left) \in 0..MaxTtl
  BY KvAssumption DEF Aged
<1>2. values' \in [FullKeys -> Absent..Forever]
  <2>1. \A v \in Absent..Forever : Aged(v) \in Absent..Forever
    BY KvAssumption DEF Aged, Absent, Forever
  <2> QED BY <2>1, Shapes DEF Tick, TypeOK
<1>3. locks' \in [LockKeys -> Locks]
  <2>1. \A k \in LockKeys : [locks[k] EXCEPT !.left = Aged(@)] \in Locks
    BY <1>1 DEF TypeOK, Locks
  <2> QED BY <2>1, Shapes DEF Tick, TypeOK
<1>4. hold' \in [Callers -> Holds]
  <2>1. \A c \in Callers : [hold[c] EXCEPT !.left = Aged(@)] \in Holds
    BY <1>1 DEF TypeOK, Holds
  <2> QED BY <2>1 DEF Tick
<1> QED BY <1>2, <1>3, <1>4 DEF Tick, TypeOK

LEMMA EntryType ==
    ASSUME TypeOK, NEW k \in FullKeys,
           (\E ttlSec \in 0..MaxTtl : Set(k, ttlSec)) \/ Read(k) \/ Del(k)
    PROVE  TypeOK'
<1>1. ASSUME NEW ttlSec \in 0..MaxTtl, Set(k, ttlSec) PROVE TypeOK'
  <2>1. SecondsLeft(ttlSec) \in Absent..Forever
    BY KvAssumption DEF SecondsLeft, Absent, Forever
  <2>2. <<"data", k>> \in Items
    BY DEF Items
  <2> QED BY <1>1, <2>1, <2>2, WrittenShape DEF Set, TypeOK
<1>2. CASE Read(k)
  BY <1>2, PurgedShape DEF Read, TypeOK
<1>3. CASE Del(k)
  BY <1>3, Shapes DEF Del, TypeOK
<1> QED BY <1>1, <1>2, <1>3

LEMMA OwnItems ==
    /\ \A n \in Namespaces : Own(n) \subseteq Items
    /\ \A n \in Namespaces, pattern \in SUBSET Keys : Matching(n, pattern) \subseteq Items
<1>1. ASSUME NEW n \in Namespaces, NEW pattern \in SUBSET Keys
      PROVE  Matching(n, pattern) \subseteq Items
  BY DEF Matching, Items, FullKeys
<1> QED BY <1>1 DEF Own

LEMMA StartScanType ==
    ASSUME TypeOK, NEW n \in Namespaces, NEW op \in {"list", "clear"},
           NEW pattern \in SUBSET Keys, StartScan(op, n, pattern)
    PROVE  TypeOK'
<1> DEFINE cover == IF op = "list" THEN Matching(n, pattern)
                    ELSE UNION {Own(m) : m \in Below[n]}
           there == {i \in cover : Exists(i)}
<1>1. cover \subseteq Items
  <2>1. \A m \in Below[n] : m \in Namespaces
    BY KvAssumption
  <2> QED BY <2>1, OwnItems
<1>2. there \in SUBSET Items
  BY <1>1
<1>3. scan' = Scan(op, cover, there, {}, {}, there, {})
  BY DEF StartScan
<1> HIDE DEF cover, there
<1>4. scan' \in Scans
  BY <1>1, <1>2, <1>3, ScanShape
<1> QED BY <1>4 DEF StartScan, TypeOK

LEMMA ListMemoryType ==
    ASSUME TypeOK, NEW n \in Namespaces, NEW pattern \in SUBSET Keys,
           ListMemory(n, pattern)
    PROVE  TypeOK'
<1> DEFINE own == {i \in Matching(n, pattern) : Exists(i)}
           foreign == IF pattern = Keys THEN {"data"} \X FullKeys ELSE {}
           found == own \cup {i \in foreign : Exists(i)}
<1>1. own \in SUBSET Items
  BY OwnItems
<1>2. found \in SUBSET Items
  BY <1>1 DEF Items
<1>3. scan' = Listed(found, own)
  BY DEF ListMemory
<1> HIDE DEF own, found
<1>4. scan' \in Scans
  BY <1>1, <1>2, <1>3, ScanShape DEF Listed
<1> QED BY <1>4, PurgedShape DEF ListMemory, TypeOK

LEMMA ClearMemoryType ==
    ASSUME TypeOK, NEW n \in Namespaces, ClearMemory(n)
    PROVE  TypeOK'
<1>1. values' \in [FullKeys -> Absent..Forever]
  BY Shapes DEF ClearMemory, TypeOK
<1>2. locks' \in [LockKeys -> Locks]
  BY Shapes DEF ClearMemory, TypeOK
<1> QED BY <1>1, <1>2, RevokedShape DEF ClearMemory, TypeOK

LEMMA ReplyType ==
    ASSUME TypeOK, ListReply \/ ClearReply
    PROVE  TypeOK'
<1>1. CASE ListReply
  <2>1. PICK visit \in SUBSET scan.todo, again \in SUBSET scan.fresh :
          LET todo == scan.todo \ visit
              found == scan.found \cup {i \in visit \cup again : Exists(i)}
              steady == {i \in scan.steady : Exists(i)}
          IN scan' = IF todo = {} THEN Listed(found, steady)
                     ELSE Scan("list", scan.cover, todo, {}, found, steady, scan.fresh)
    BY <1>1 DEF ListReply
  <2> DEFINE todo == scan.todo \ visit
             found == scan.found \cup {i \in visit \cup again : Exists(i)}
             steady == {i \in scan.steady : Exists(i)}
  <2>2. /\ todo \in SUBSET Items /\ found \in SUBSET Items /\ steady \in SUBSET Items
        /\ scan.cover \in SUBSET Items /\ scan.fresh \in SUBSET Items
    BY Fields
  <2>3. \/ scan' = Listed(found, steady)
        \/ scan' = Scan("list", scan.cover, todo, {}, found, steady, scan.fresh)
    BY <2>1
  <2> HIDE DEF todo, found, steady
  <2>4. scan' \in Scans
    BY <2>2, <2>3, ScanShape DEF Listed
  <2> QED BY <1>1, <2>4 DEF ListReply, TypeOK
<1>2. CASE ClearReply
  <2>1. PICK visit \in SUBSET scan.todo, again \in SUBSET scan.fresh :
          LET keys == {i \in visit \cup again : Exists(i)}
              todo == scan.todo \ visit
          IN scan' = IF todo = {} /\ keys = {} THEN NoScan
                     ELSE Scan("clear", scan.cover, todo, keys, {}, {}, scan.fresh)
    BY <1>2 DEF ClearReply
  <2> DEFINE keys == {i \in visit \cup again : Exists(i)}
             todo == scan.todo \ visit
  <2>2. /\ todo \in SUBSET Items /\ keys \in SUBSET Items
        /\ scan.cover \in SUBSET Items /\ scan.fresh \in SUBSET Items
    BY Fields
  <2>3. \/ scan' = NoScan
        \/ scan' = Scan("clear", scan.cover, todo, keys, {}, {}, scan.fresh)
    BY <2>1
  <2> HIDE DEF todo, keys
  <2>4. scan' \in Scans
    BY <2>2, <2>3, ScanShape, Shapes
  <2> QED BY <1>2, <2>4 DEF ClearReply, TypeOK
<1> QED BY <1>1, <1>2

LEMMA RestartType == ASSUME TypeOK, Restart PROVE TypeOK'
<1>1. [c \in Callers |-> NoHold] \in [Callers -> Holds]
  BY Shapes
<1>2. /\ [k \in FullKeys |-> Absent] \in [FullKeys -> Absent..Forever]
      /\ [k \in LockKeys |-> NoLock] \in [LockKeys -> Locks]
  BY Shapes
<1> QED BY <1>1, <1>2, Shapes DEF Restart, TypeOK

(* Next, as the alternatives the proofs go through.                          *)
LEMMA Steps ==
    ASSUME [Next]_vars
    PROVE  \/ \E k \in FullKeys :
                (\E ttlSec \in 0..MaxTtl : Set(k, ttlSec)) \/ Read(k) \/ Del(k)
           \/ \E c \in Callers, k \in LockKeys, t \in Tokens, ttlSec \in 0..MaxTtl :
                AcquireMemory(c, k, t, ttlSec) \/ AcquireRedis(c, k, t, ttlSec)
           \/ \E c \in Callers : ReleaseMemory(c) \/ ReleaseRedis(c)
           \/ \E n \in Namespaces, pattern \in SUBSET Keys :
                ListMemory(n, pattern) \/ StartScan("list", n, pattern)
           \/ \E n \in Namespaces : ClearMemory(n) \/ StartScan("clear", n, Keys)
           \/ ListReply \/ ClearReply
           \/ \E i \in Items : Unlink(i) \/ UnlinkFails(i)
           \/ ScanFails
           \/ Tick
           \/ Restart
           \/ UNCHANGED vars
<1>1. ASSUME NEW pattern \in {Keys} \cup {{key} : key \in Keys}
      PROVE  pattern \in SUBSET Keys
  OBVIOUS
<1> QED BY <1>1 DEF Next

LEMMA TypeStep == TypeOK /\ [Next]_vars => TypeOK'
<1> SUFFICES ASSUME TypeOK, [Next]_vars PROVE TypeOK'
  OBVIOUS
<1>1. ASSUME NEW c \in Callers, NEW k \in LockKeys, NEW t \in Tokens,
             NEW ttlSec \in 0..MaxTtl,
             AcquireMemory(c, k, t, ttlSec) \/ AcquireRedis(c, k, t, ttlSec)
      PROVE  TypeOK'
  BY <1>1, LockType DEF AcquireMemory, AcquireRedis
<1>2. CASE ScanFails
  BY <1>2, Shapes DEF ScanFails, TypeOK
<1>3. CASE UNCHANGED vars
  BY <1>3 DEF vars, TypeOK
<1>4. Keys \in SUBSET Keys
  OBVIOUS
<1> QED
  BY Steps, EntryType, <1>1, ReleaseType, ListMemoryType, StartScanType, <1>4,
     ClearMemoryType, ReplyType, UnlinkType, <1>2, TickType, RestartType, <1>3

(* Entries, locks, callers and scans keep their types.                       *)
THEOREM TypeCorrect == Spec => []TypeOK
BY InitType, TypeStep, PTL DEF Spec

(***************************************************************************)
(* Leases.                                                                  *)
(***************************************************************************)

LEMMA InitLocks == Init => LocksInv
BY DEF Init, LocksInv, HoldsDiffer, HoldersEntered, LeasesAreBacked, Leased, NoHold

LEMMA LockLocks ==
    ASSUME TypeOK, LocksInv, NEW c \in Callers, NEW k \in LockKeys, NEW t \in Tokens,
           NEW ttlSec \in 0..MaxTtl, NEW heard \in BOOLEAN,
           ~Locked(k), Lock(c, k, t, ttlSec, heard)
    PROVE  LocksInv'
<1> DEFINE entered == [key |-> k, token |-> t, left |-> ttlSec, revoked |-> FALSE]
<1>1. \A d \in Callers : hold'[d] = IF heard /\ d = c THEN entered ELSE hold[d]
  BY DEF Lock, TypeOK
<1>2. \A j \in LockKeys :
        locks'[j] = IF j = k THEN [token |-> t, left |-> ttlSec] ELSE locks[j]
  BY DEF Lock, TypeOK
<1>3. t # NoToken /\ \A d \in Callers : hold[d].token # t
  BY KvAssumption DEF Lock, TokensInUse
<1>4. HoldsDiffer'
  BY <1>1, <1>3 DEF LocksInv, HoldsDiffer
<1>5. HoldersEntered'
  BY <1>1 DEF LocksInv, HoldersEntered
<1>6. LeasesAreBacked'
  <2> SUFFICES ASSUME NEW d \in Callers, Leased(d)'
               PROVE  /\ locks'[hold'[d].key].token = hold'[d].token
                      /\ hold'[d].left <= locks'[hold'[d].key].left
    BY DEF LeasesAreBacked
  <2>1. CASE heard /\ d = c
    BY <2>1, <1>1, <1>2
  <2>2. CASE ~(heard /\ d = c)
    <3>1. hold'[d] = hold[d] /\ Leased(d)
      BY <2>2, <1>1 DEF Leased
    <3>2. hold[d].key \in LockKeys
      BY <3>1 DEF LocksInv, HoldersEntered, Leased, NoHold
    <3>3. hold[d].left <= locks[hold[d].key].left /\ hold[d].left > 0
      BY <3>1 DEF LocksInv, LeasesAreBacked, Leased
    <3>4. hold[d].key # k
      BY <3>3, Fields DEF Locked
    <3> QED BY <3>1, <3>2, <3>4, <1>2 DEF LocksInv, LeasesAreBacked
  <2> QED BY <2>1, <2>2
<1> QED BY <1>4, <1>5, <1>6 DEF LocksInv

LEMMA ReleaseLocks ==
    ASSUME TypeOK, LocksInv, NEW c \in Callers, ReleaseMemory(c) \/ ReleaseRedis(c)
    PROVE  LocksInv'
<1>1. \A d \in Callers : hold'[d] = IF d = c THEN NoHold ELSE hold[d]
  BY DEF ReleaseMemory, ReleaseRedis, Leave, TypeOK
<1>2. \A k \in LockKeys : \/ locks'[k] = locks[k]
                          \/ locks[k].token = hold[c].token
  <2>1. locks' = Freed(c) \/ locks' = locks
    BY DEF ReleaseMemory, ReleaseRedis
  <2> QED BY <2>1 DEF Freed, TypeOK
<1>3. hold[c].token \in Tokens
  BY DEF LocksInv, HoldersEntered, ReleaseMemory, ReleaseRedis, Leave
<1>4. HoldsDiffer'
  BY <1>1 DEF LocksInv, HoldsDiffer, NoHold
<1>5. HoldersEntered'
  BY <1>1 DEF LocksInv, HoldersEntered
<1>6. LeasesAreBacked'
  <2> SUFFICES ASSUME NEW d \in Callers, Leased(d)'
               PROVE  /\ locks'[hold'[d].key].token = hold'[d].token
                      /\ hold'[d].left <= locks'[hold'[d].key].left
    BY DEF LeasesAreBacked
  <2>1. d # c /\ hold'[d] = hold[d] /\ Leased(d)
    BY <1>1 DEF Leased, NoHold
  <2>2. hold[d].key \in LockKeys
    BY <2>1 DEF LocksInv, HoldersEntered, Leased, NoHold
  <2>3. locks[hold[d].key].token = hold[d].token
    BY <2>1 DEF LocksInv, LeasesAreBacked
  <2>4. hold[d].token # hold[c].token
    BY <2>1, <1>3, KvAssumption DEF LocksInv, HoldsDiffer
  <2> QED BY <2>1, <2>2, <2>3, <2>4, <1>2 DEF LocksInv, LeasesAreBacked
<1> QED BY <1>4, <1>5, <1>6 DEF LocksInv

(* A clear that takes the locks of ks, in one step or one by one.            *)
LEMMA RevokeLocks ==
    ASSUME TypeOK, LocksInv, NEW ks, hold' = Revoked(ks),
           \A k \in LockKeys \ ks : locks'[k] = locks[k]
    PROVE  LocksInv'
<1>1. \A d \in Callers :
        /\ hold'[d].key = hold[d].key /\ hold'[d].token = hold[d].token
        /\ hold'[d].left = hold[d].left
        /\ hold[d] = NoHold => hold'[d] = NoHold
        /\ ~hold'[d].revoked =>
             /\ ~hold[d].revoked
             /\ ~(hold[d].key \in ks \cap LockKeys
                  /\ locks[hold[d].key].token = hold[d].token)
  <2> SUFFICES ASSUME NEW d \in Callers
               PROVE  /\ hold'[d].key = hold[d].key /\ hold'[d].token = hold[d].token
                      /\ hold'[d].left = hold[d].left
                      /\ hold[d] = NoHold => hold'[d] = NoHold
                      /\ ~hold'[d].revoked =>
                           /\ ~hold[d].revoked
                           /\ ~(hold[d].key \in ks \cap LockKeys
                                /\ locks[hold[d].key].token = hold[d].token)
    OBVIOUS
  <2>1. hold'[d] = IF hold[d].key \in ks \cap LockKeys
                        /\ locks[hold[d].key].token = hold[d].token
                   THEN [hold[d] EXCEPT !.revoked = TRUE] ELSE hold[d]
    BY DEF Revoked
  <2>2. hold[d] \in Holds
    BY DEF TypeOK
  <2>3. hold[d] = NoHold => hold[d].key \notin LockKeys
    BY KvAssumption DEF NoHold
  <2> QED BY <2>1, <2>2, <2>3 DEF Holds
<1>2. HoldsDiffer'
  BY <1>1 DEF LocksInv, HoldsDiffer
<1>3. HoldersEntered'
  BY <1>1 DEF LocksInv, HoldersEntered
<1>4. LeasesAreBacked'
  <2> SUFFICES ASSUME NEW d \in Callers, Leased(d)'
               PROVE  /\ locks'[hold'[d].key].token = hold'[d].token
                      /\ hold'[d].left <= locks'[hold'[d].key].left
    BY DEF LeasesAreBacked
  <2>1. Leased(d)
    BY <1>1 DEF Leased
  <2>2. hold[d].key \in LockKeys
    BY <2>1 DEF LocksInv, HoldersEntered, Leased, NoHold
  <2>3. locks[hold[d].key].token = hold[d].token
    BY <2>1 DEF LocksInv, LeasesAreBacked
  <2>4. hold[d].key \in LockKeys \ ks
    BY <1>1, <2>2, <2>3 DEF Leased
  <2> QED BY <1>1, <2>1, <2>4 DEF LocksInv, LeasesAreBacked
<1> QED BY <1>2, <1>3, <1>4 DEF LocksInv

LEMMA TickLocks == ASSUME TypeOK, LocksInv, Tick PROVE LocksInv'
<1>1. \A d \in Callers :
        /\ hold'[d].key = hold[d].key /\ hold'[d].token = hold[d].token
        /\ hold'[d].left = Aged(hold[d].left) /\ hold'[d].revoked = hold[d].revoked
        /\ hold[d] = NoHold => hold'[d] = NoHold
  <2> SUFFICES ASSUME NEW d \in Callers
               PROVE  /\ hold'[d].key = hold[d].key /\ hold'[d].token = hold[d].token
                      /\ hold'[d].left = Aged(hold[d].left)
                      /\ hold'[d].revoked = hold[d].revoked
                      /\ hold[d] = NoHold => hold'[d] = NoHold
    OBVIOUS
  <2>1. hold'[d] = [hold[d] EXCEPT !.left = Aged(@)]
    BY DEF Tick
  <2>2. hold[d] \in Holds
    BY DEF TypeOK
  <2> QED BY <2>1, <2>2 DEF Holds, NoHold, Aged
<1>2. \A k \in LockKeys :
        \/ locks[k].left <= 1
        \/ locks'[k].token = locks[k].token /\ locks'[k].left = Aged(locks[k].left)
  <2> SUFFICES ASSUME NEW k \in LockKeys, ~(locks[k].left <= 1)
               PROVE  /\ locks'[k].token = locks[k].token
                      /\ locks'[k].left = Aged(locks[k].left)
    OBVIOUS
  <2>1. locks'[k] = [locks[k] EXCEPT !.left = Aged(@)]
    BY DEF Tick
  <2>2. locks[k] \in Locks
    BY DEF TypeOK
  <2> QED BY <2>1, <2>2 DEF Locks
<1>3. HoldsDiffer'
  BY <1>1 DEF LocksInv, HoldsDiffer
<1>4. HoldersEntered'
  BY <1>1 DEF LocksInv, HoldersEntered
<1>5. LeasesAreBacked'
  <2> SUFFICES ASSUME NEW d \in Callers, Leased(d)'
               PROVE  /\ locks'[hold'[d].key].token = hold'[d].token
                      /\ hold'[d].left <= locks'[hold'[d].key].left
    BY DEF LeasesAreBacked
  <2>1. Leased(d) /\ hold[d].left > 1
    BY <1>1, Fields DEF Leased, Aged
  <2>2. hold[d].key \in LockKeys
    BY <2>1 DEF LocksInv, HoldersEntered, Leased, NoHold
  <2>3. hold[d].left <= locks[hold[d].key].left
    BY <2>1 DEF LocksInv, LeasesAreBacked
  <2>4. /\ locks'[hold[d].key].token = locks[hold[d].key].token
        /\ locks'[hold[d].key].left = Aged(locks[hold[d].key].left)
    BY <1>2, <2>1, <2>2, <2>3, Fields
  <2>5. locks[hold[d].key].token = hold[d].token
    BY <2>1 DEF LocksInv, LeasesAreBacked
  <2> QED BY <1>1, <2>1, <2>2, <2>3, <2>4, <2>5, Fields DEF Aged
<1> QED BY <1>3, <1>4, <1>5 DEF LocksInv

LEMMA LocksStep == TypeOK /\ LocksInv /\ [Next]_vars => LocksInv'
<1> SUFFICES ASSUME TypeOK, LocksInv, [Next]_vars PROVE LocksInv'
  OBVIOUS
<1>1. ASSUME NEW c \in Callers, NEW k \in LockKeys, NEW t \in Tokens,
             NEW ttlSec \in 0..MaxTtl,
             AcquireMemory(c, k, t, ttlSec) \/ AcquireRedis(c, k, t, ttlSec)
      PROVE  LocksInv'
  BY <1>1, LockLocks DEF AcquireMemory, AcquireRedis
<1>2. ASSUME NEW n \in Namespaces, ClearMemory(n) PROVE LocksInv'
  <2>1. \A k \in LockKeys \ ({n} \X Keys) : locks'[k] = locks[k]
    BY <1>2 DEF ClearMemory
  <2>2. hold' = Revoked({n} \X Keys)
    BY <1>2 DEF ClearMemory
  <2> QED BY <2>1, <2>2, RevokeLocks
<1>3. ASSUME NEW i \in Items, Unlink(i) PROVE LocksInv'
  <2> DEFINE ks == {k \in LockKeys : i = <<"lock", k>>}
  <2>1. \A k \in LockKeys \ ks : locks'[k] = locks[k]
    BY <1>3 DEF Unlink
  <2>2. hold' = Revoked(ks)
    BY <1>3 DEF Unlink
  <2> QED BY <2>1, <2>2, RevokeLocks
<1>4. CASE Restart
  BY <1>4 DEF Restart, LocksInv, HoldsDiffer, HoldersEntered, LeasesAreBacked,
              Leased, NoHold
<1>5. ASSUME UNCHANGED <<locks, hold>> PROVE LocksInv'
  BY <1>5 DEF LocksInv, HoldsDiffer, HoldersEntered, LeasesAreBacked, Leased
<1>6. ASSUME NEW k \in FullKeys,
             (\E ttlSec \in 0..MaxTtl : Set(k, ttlSec)) \/ Read(k) \/ Del(k)
      PROVE  UNCHANGED <<locks, hold>>
  BY <1>6 DEF Set, Read, Del
<1>7. ASSUME NEW n \in Namespaces, NEW pattern \in SUBSET Keys,
             \/ ListMemory(n, pattern) \/ StartScan("list", n, pattern)
             \/ StartScan("clear", n, Keys)
      PROVE  UNCHANGED <<locks, hold>>
  BY <1>7 DEF ListMemory, StartScan
<1>8. ASSUME \/ ListReply \/ ClearReply \/ ScanFails \/ UNCHANGED vars
             \/ \E i \in Items : UnlinkFails(i)
      PROVE  UNCHANGED <<locks, hold>>
  BY <1>8 DEF ListReply, ClearReply, ScanFails, UnlinkFails, vars
<1>9. Keys \in SUBSET Keys
  OBVIOUS
<1> QED
  BY Steps, <1>6, <1>1, ReleaseLocks, <1>7, <1>9, <1>2, <1>8, <1>3, TickLocks, <1>4, <1>5

LEMMA LocksInvariant == Spec => [](TypeOK /\ LocksInv)
<1>1. TypeOK /\ LocksInv /\ [Next]_vars => (TypeOK /\ LocksInv)'
  BY TypeStep, LocksStep
<1> QED BY InitType, InitLocks, <1>1, PTL DEF Spec

LEMMA LeasesAreExclusive == TypeOK /\ LocksInv => LeaseIsExclusive
<1> SUFFICES ASSUME TypeOK, LocksInv, NEW c \in Callers, NEW d \in Callers,
                    Leased(c), Leased(d), hold[c].key = hold[d].key
             PROVE  c = d
  BY DEF LeaseIsExclusive
<1>1. hold[c].token = hold[d].token
  BY DEF LocksInv, LeasesAreBacked
<1>2. hold[c].token # NoToken
  BY KvAssumption DEF LocksInv, HoldersEntered, Leased, NoHold
<1> QED BY <1>1, <1>2 DEF LocksInv, HoldsDiffer

(* Two callers never run under one key within their leases, on either backend*)
(* and whatever happens to replies, clears and processes.                    *)
THEOREM LeasesExclude == Spec => []LeaseIsExclusive
BY LocksInvariant, LeasesAreExclusive, PTL

(***************************************************************************)
(* Listings and clears.                                                     *)
(***************************************************************************)

LEMMA InitScan == Init => ScanInv
BY DEF Init, ScanInv, NoScan, Scan

(* Whoever writes one item, and no other, keeps the books of the scan.       *)
LEMMA WriteScan ==
    ASSUME TypeOK, ScanInv, NEW i \in Items, scan' = Written(i),
           \A j \in Items \ {i} : Exists(j)' => Exists(j)
    PROVE  ScanInv'
<1>1. CASE i \notin scan.cover
  BY <1>1, Fields DEF Written, ScanInv
<1>2. CASE i \in scan.cover
  <2> DEFINE anew == IF Exists(i) THEN {} ELSE {i}
  <2>1. scan' = Scan(scan.op, scan.cover, scan.todo \ anew, scan.batch, scan.found,
                     scan.steady \ anew, scan.fresh \cup {i})
    BY <1>2 DEF Written
  <2>2. /\ scan'.op = scan.op /\ scan'.cover = scan.cover
        /\ scan'.todo = scan.todo \ anew /\ scan'.batch = scan.batch
        /\ scan'.found = scan.found /\ scan'.steady = scan.steady \ anew
        /\ scan'.fresh = scan.fresh \cup {i}
    BY <2>1 DEF Scan
  <2>3. anew \subseteq {i}
    OBVIOUS
  <2> HIDE DEF anew
  <2> QED BY <2>2, <2>3, Fields DEF ScanInv
<1> QED BY <1>1, <1>2

(* Nobody writes anything.                                                   *)
LEMMA QuietScan ==
    ASSUME TypeOK, ScanInv, scan' = scan, \A j \in Items : Exists(j)' => Exists(j)
    PROVE  ScanInv'
BY Fields DEF ScanInv

LEMMA ListReplyScan == ASSUME TypeOK, ScanInv, ListReply PROVE ScanInv'
<1>1. PICK visit \in SUBSET scan.todo, again \in SUBSET scan.fresh :
        LET todo == scan.todo \ visit
            found == scan.found \cup {i \in visit \cup again : Exists(i)}
            steady == {i \in scan.steady : Exists(i)}
        IN scan' = IF todo = {} THEN Listed(found, steady)
                   ELSE Scan("list", scan.cover, todo, {}, found, steady, scan.fresh)
  BY DEF ListReply
<1> DEFINE todo == scan.todo \ visit
           found == scan.found \cup {i \in visit \cup again : Exists(i)}
           steady == {i \in scan.steady : Exists(i)}
<1>2. steady \subseteq todo \cup found
  BY DEF ScanInv, ListReply
<1>3. \/ todo = {} /\ scan' = Listed(found, steady)
      \/ scan' = Scan("list", scan.cover, todo, {}, found, steady, scan.fresh)
  BY <1>1
<1> HIDE DEF todo, found, steady
<1> QED BY <1>2, <1>3 DEF ScanInv, Listed, Scan

(* The reply that ends a clear leaves nothing but what was written meanwhile.*)
LEMMA ClearReplyScan ==
    ASSUME TypeOK, ScanInv, ClearReply
    PROVE  /\ ScanInv'
           /\ scan'.op = "none" =>
                \A i \in scan.cover : Exists(i)' => i \in scan.fresh
<1>1. PICK visit \in SUBSET scan.todo, again \in SUBSET scan.fresh :
        LET keys == {i \in visit \cup again : Exists(i)}
            todo == scan.todo \ visit
        IN scan' = IF todo = {} /\ keys = {} THEN NoScan
                   ELSE Scan("clear", scan.cover, todo, keys, {}, {}, scan.fresh)
  BY DEF ClearReply
<1> DEFINE keys == {i \in visit \cup again : Exists(i)}
           todo == scan.todo \ visit
<1>2. \A i \in Items : Exists(i)' = Exists(i)
  BY DEF ClearReply, Exists, Live, Locked
<1>3. \A i \in scan.cover : Exists(i) => i \in todo \cup keys \cup scan.fresh
  BY DEF ScanInv, ClearReply
<1>4. \/ todo = {} /\ keys = {} /\ scan' = NoScan
      \/ scan' = Scan("clear", scan.cover, todo, keys, {}, {}, scan.fresh)
  BY <1>1
<1> HIDE DEF todo, keys
<1> QED BY <1>2, <1>3, <1>4, Fields DEF ScanInv, NoScan, Scan

LEMMA UnlinkScan ==
    ASSUME TypeOK, ScanInv, NEW u \in Items, Unlink(u) \/ UnlinkFails(u)
    PROVE  /\ ScanInv'
           /\ scan'.op = "none" =>
                \A i \in scan.cover : Exists(i)' => i \in scan.fresh \cup scan'.found
<1>1. PICK spared \in SUBSET {u} :
        Answered(u, spared) /\ (spared = {} => ~Exists(u)')
  <2>1. CASE UnlinkFails(u)
    BY <2>1 DEF UnlinkFails
  <2>2. CASE Unlink(u)
    <3>1. ~Exists(u)'
      <4>1. CASE u[1] = "data" /\ u[2] \in FullKeys
        <5>1. u = <<"data", u[2]>>
          BY <4>1 DEF Items
        <5> QED BY <2>2, <4>1, <5>1 DEF Unlink, Exists, Live, Absent
      <4>2. CASE u[1] = "lock" /\ u[2] \in LockKeys
        <5>1. u = <<"lock", u[2]>>
          BY <4>2 DEF Items
        <5> QED BY <2>2, <4>2, <5>1 DEF Unlink, Exists, Locked, NoLock
      <4> QED BY <4>1, <4>2, ItemShape
    <3> QED BY <2>2, <3>1 DEF Unlink
  <2> QED BY <2>1, <2>2
<1>2. \A i \in Items : Exists(i)' => Exists(i)
  <2>1. \A k \in FullKeys : values'[k] = values[k] \/ values'[k] = Absent
    BY DEF Unlink, UnlinkFails
  <2>2. \A k \in LockKeys : locks'[k] = locks[k] \/ locks'[k] = NoLock
    BY DEF Unlink, UnlinkFails
  <2> QED BY <2>1, <2>2, ItemShape DEF Exists, Live, Locked, Absent, NoLock
<1>3. scan.op = "clear"
  BY DEF Unlink, UnlinkFails
<1>4. CASE scan.todo = {} /\ scan.batch = {u} /\ scan' = Cleared(spared)
  BY <1>1, <1>2, <1>3, <1>4, Fields DEF ScanInv, Cleared, Scan
<1>5. CASE scan' = Scan("clear", scan.cover \ spared, scan.todo, scan.batch \ {u},
                        {}, {}, scan.fresh \ spared)
  BY <1>1, <1>2, <1>3, <1>5, Fields DEF ScanInv, Scan
<1> QED BY <1>1, <1>4, <1>5 DEF Answered

(* Entries and locks that do not come to life make no item exist.            *)
LEMMA NothingNew ==
    ASSUME NEW i \in Items,
           \A k \in FullKeys : i = <<"data", k>> => (values'[k] > 0 => values[k] > 0),
           \A k \in LockKeys : i = <<"lock", k>> => (locks'[k].left > 0 => locks[k].left > 0)
    PROVE  Exists(i)' => Exists(i)
<1>1. CASE i[1] = "data" /\ i[2] \in FullKeys
  <2>1. i = <<"data", i[2]>>
    BY <1>1 DEF Items
  <2> QED BY <1>1, <2>1 DEF Exists, Live
<1>2. CASE i[1] = "lock" /\ i[2] \in LockKeys
  <2>1. i = <<"lock", i[2]>>
    BY <1>2 DEF Items
  <2> QED BY <1>2, <2>1 DEF Exists, Locked
<1> QED BY <1>1, <1>2, ItemShape

LEMMA SetScan ==
    ASSUME TypeOK, ScanInv, NEW k \in FullKeys, NEW ttlSec \in 0..MaxTtl, Set(k, ttlSec)
    PROVE  ScanInv'
<1>1. ASSUME NEW j \in Items \ {<<"data", k>>} PROVE Exists(j)' => Exists(j)
  <2>1. \A l \in FullKeys : j = <<"data", l>> => values'[l] = values[l]
    BY DEF Set, TypeOK
  <2> QED BY <2>1, NothingNew DEF Set
<1>2. <<"data", k>> \in Items
  BY DEF Items
<1> QED BY <1>1, <1>2, WriteScan DEF Set

LEMMA LockScan ==
    ASSUME TypeOK, ScanInv, NEW c \in Callers, NEW k \in LockKeys, NEW t \in Tokens,
           NEW ttlSec \in 0..MaxTtl, NEW heard \in BOOLEAN,
           Lock(c, k, t, ttlSec, heard)
    PROVE  ScanInv'
<1>1. ASSUME NEW j \in Items \ {<<"lock", k>>} PROVE Exists(j)' => Exists(j)
  <2>1. \A l \in LockKeys : j = <<"lock", l>> => locks'[l] = locks[l]
    BY DEF Lock, TypeOK
  <2> QED BY <2>1, NothingNew DEF Lock
<1>2. <<"lock", k>> \in Items
  BY DEF Items
<1> QED BY <1>1, <1>2, WriteScan DEF Lock

(* Steps that let entries and locks go, or age.                              *)
LEMMA GoneScan ==
    ASSUME TypeOK, ScanInv, scan' = scan,
           \A k \in FullKeys : values'[k] > 0 => values[k] > 0,
           \A k \in LockKeys : locks'[k].left > 0 => locks[k].left > 0
    PROVE  ScanInv'
BY NothingNew, QuietScan

LEMMA AgeScan ==
    ASSUME TypeOK, ScanInv,
           \/ Tick
           \/ \E k \in FullKeys : Read(k) \/ Del(k)
           \/ \E c \in Callers : ReleaseMemory(c) \/ ReleaseRedis(c)
           \/ \E n \in Namespaces : ClearMemory(n)
    PROVE  ScanInv'
<1>1. CASE Tick
  <2>1. \A k \in FullKeys : values'[k] > 0 => values[k] > 0
    BY <1>1, KvAssumption DEF Tick, Aged, Forever, Absent, TypeOK
  <2>2. ASSUME NEW k \in LockKeys, locks'[k].left > 0 PROVE locks[k].left > 0
    <3>1. locks[k] \in Locks
      BY DEF TypeOK
    <3>2. \/ locks'[k] = NoLock \/ locks'[k] = [locks[k] EXCEPT !.left = Aged(@)]
      BY <1>1 DEF Tick
    <3> QED BY <2>2, <3>1, <3>2 DEF Locks, NoLock, Aged
  <2> QED BY <1>1, <2>1, <2>2, GoneScan DEF Tick
<1>2. ASSUME NEW k \in FullKeys, Read(k) \/ Del(k) PROVE ScanInv'
  <2>1. \A l \in FullKeys : values'[l] > 0 => values[l] > 0
    BY <1>2 DEF Read, Del, Purged, Absent, TypeOK
  <2> QED BY <1>2, <2>1, GoneScan DEF Read, Del
<1>3. ASSUME NEW c \in Callers, ReleaseMemory(c) \/ ReleaseRedis(c) PROVE ScanInv'
  <2>1. \A k \in LockKeys : Freed(c)[k] = NoLock \/ Freed(c)[k] = locks[k]
    BY DEF Freed, TypeOK
  <2>2. \A k \in LockKeys : locks'[k].left > 0 => locks[k].left > 0
    BY <1>3, <2>1 DEF ReleaseMemory, ReleaseRedis, NoLock
  <2> QED BY <1>3, <2>2, GoneScan DEF ReleaseMemory, ReleaseRedis, Leave
<1>4. ASSUME NEW n \in Namespaces, ClearMemory(n) PROVE ScanInv'
  BY <1>4, GoneScan DEF ClearMemory, Absent, NoLock
<1> QED BY <1>1, <1>2, <1>3, <1>4

(* Steps that begin or end a scan.                                           *)
LEMMA NewScan ==
    ASSUME TypeOK, ScanInv,
           \/ ScanFails \/ Restart
           \/ \E n \in Namespaces, pattern \in SUBSET Keys :
                ListMemory(n, pattern) \/ StartScan("list", n, pattern)
           \/ \E n \in Namespaces : StartScan("clear", n, Keys)
    PROVE  ScanInv'
<1>1. CASE ScanFails \/ Restart
  BY <1>1 DEF ScanFails, Restart, ScanInv, Failed, Scan
<1>2. ASSUME NEW n \in Namespaces, NEW pattern \in SUBSET Keys, ListMemory(n, pattern)
      PROVE  ScanInv'
  BY <1>2 DEF ListMemory, ScanInv, Listed, Scan
<1>3. ASSUME NEW n \in Namespaces, NEW op \in {"list", "clear"},
             NEW pattern \in SUBSET Keys, StartScan(op, n, pattern)
      PROVE  ScanInv'
  <2> DEFINE cover == IF op = "list" THEN Matching(n, pattern)
                      ELSE UNION {Own(m) : m \in Below[n]}
             there == {i \in cover : Exists(i)}
  <2>1. scan' = Scan(op, cover, there, {}, {}, there, {})
    BY <1>3 DEF StartScan
  <2>2. \A i \in cover : Exists(i)' => i \in there
    BY <1>3 DEF StartScan, Exists, Live, Locked
  <2> HIDE DEF cover, there
  <2> QED BY <2>1, <2>2 DEF ScanInv, Scan
<1>4. Keys \in SUBSET Keys
  OBVIOUS
<1> QED BY <1>1, <1>2, <1>3, <1>4

LEMMA ScanStep == TypeOK /\ ScanInv /\ [Next]_vars => ScanInv'
<1> SUFFICES ASSUME TypeOK, ScanInv, [Next]_vars PROVE ScanInv'
  OBVIOUS
<1>1. ASSUME NEW c \in Callers, NEW k \in LockKeys, NEW t \in Tokens,
             NEW ttlSec \in 0..MaxTtl,
             AcquireMemory(c, k, t, ttlSec) \/ AcquireRedis(c, k, t, ttlSec)
      PROVE  ScanInv'
  BY <1>1, LockScan DEF AcquireMemory, AcquireRedis
<1>2. CASE UNCHANGED vars
  BY <1>2, GoneScan DEF vars
<1> QED
  BY Steps, SetScan, AgeScan, <1>1, NewScan, ListReplyScan, ClearReplyScan, UnlinkScan, <1>2

LEMMA ScanInvariant == Spec => [](TypeOK /\ ScanInv)
<1>1. TypeOK /\ ScanInv /\ [Next]_vars => (TypeOK /\ ScanInv)'
  BY TypeStep, ScanStep
<1> QED BY InitType, InitScan, <1>1, PTL DEF Spec

(* A listing that ends has every key that was there the whole time.          *)
THEOREM ListingsComplete == Spec => []ListingIsComplete
<1>1. ScanInv => ListingIsComplete
  BY DEF ScanInv, ListingIsComplete
<1> QED BY ScanInvariant, <1>1, PTL

LEMMA ClearStep == TypeOK /\ ScanInv /\ [Next]_vars =>
    (scan.op = "clear" /\ scan'.op = "none"
       => {i \in scan.cover : Exists(i)'} \subseteq scan.fresh \cup scan'.found)
<1> SUFFICES ASSUME TypeOK, ScanInv, [Next]_vars, scan.op = "clear", scan'.op = "none"
             PROVE  \A i \in scan.cover : Exists(i)' => i \in scan.fresh \cup scan'.found
  OBVIOUS
<1>1. ASSUME NEW i, scan' = Written(i) PROVE FALSE
  BY <1>1 DEF Written, Scan
<1>2. ASSUME scan' = scan PROVE FALSE
  BY <1>2
<1>3. ASSUME NEW k \in FullKeys,
             (\E ttlSec \in 0..MaxTtl : Set(k, ttlSec)) \/ Read(k) \/ Del(k)
      PROVE  FALSE
  BY <1>1, <1>2, <1>3 DEF Set, Read, Del
<1>4. ASSUME NEW c \in Callers, NEW k \in LockKeys, NEW t \in Tokens,
             NEW ttlSec \in 0..MaxTtl,
             AcquireMemory(c, k, t, ttlSec) \/ AcquireRedis(c, k, t, ttlSec)
      PROVE  FALSE
  BY <1>1, <1>4 DEF AcquireMemory, AcquireRedis, Lock
<1>5. ASSUME NEW n \in Namespaces, NEW pattern \in SUBSET Keys,
             \/ ListMemory(n, pattern) \/ StartScan("list", n, pattern)
             \/ StartScan("clear", n, Keys)
      PROVE  FALSE
  BY <1>5 DEF ListMemory, Listed, Scan, StartScan, Scanning
<1>6. ASSUME \/ \E c \in Callers : ReleaseMemory(c) \/ ReleaseRedis(c)
             \/ \E n \in Namespaces : ClearMemory(n)
             \/ Tick \/ UNCHANGED vars
      PROVE  FALSE
  BY <1>2, <1>6 DEF ReleaseMemory, ReleaseRedis, Leave, ClearMemory, Tick, vars
<1>7. ASSUME ListReply \/ ScanFails \/ Restart PROVE FALSE
  BY <1>7 DEF ListReply, ScanFails, Restart, Failed, Scan
<1>8. Keys \in SUBSET Keys
  OBVIOUS
<1> QED
  BY Steps, <1>3, <1>4, <1>5, <1>6, <1>7, <1>8, ClearReplyScan, UnlinkScan

(* When a clear returns, what its namespace still has was written meanwhile, *)
(* or its UNLINK failed.                                                     *)
THEOREM ClearsEmpty == Spec => ClearEmpties
BY ScanInvariant, ClearStep, PTL DEF ClearEmpties, Spec

(***************************************************************************)
(* The refinement of LeaseLock.                                             *)
(***************************************************************************)

Owner(k) == IF Locked(k) THEN locks[k].token ELSE NoToken
Inside(c) == IF hold[c] = NoHold THEN <<>> ELSE <<hold[c].key, hold[c].token>>

LEMMA InsideShape ==
    ASSUME TypeOK, LocksInv, NEW c \in Callers
    PROVE  /\ Inside(c) = <<>> <=> hold[c] = NoHold
           /\ hold[c] # NoHold =>
                /\ Inside(c)[1] = hold[c].key /\ Inside(c)[2] = hold[c].token
                /\ hold[c].key \in LockKeys /\ hold[c].token \in Tokens
BY DEF Inside, LocksInv, HoldersEntered

(* Leases end, and nobody enters or leaves.                                  *)
LEMMA LapseStep ==
    ASSUME TypeOK, LocksInv, TypeOK',
           \A k \in LockKeys : Owner(k)' \in {Owner(k), NoToken},
           \A c \in Callers : Inside(c)' = Inside(c)
    PROVE  Lease!Lapse
<1>1. \A k \in LockKeys : Owner(k)' \in Tokens \cup {NoToken}
  BY Fields DEF Owner, TypeOK, Locks
<1> QED BY <1>1 DEF Lease!Lapse, Owner, Inside

LEMMA EnterStep ==
    ASSUME TypeOK, LocksInv, TypeOK', LocksInv', NEW c \in Callers, NEW k \in LockKeys,
           NEW t \in Tokens, NEW ttlSec \in 0..MaxTtl, NEW heard \in BOOLEAN,
           ~Locked(k), Lock(c, k, t, ttlSec, heard)
    PROVE  Lease!Enter(c, k, t)
<1> DEFINE entered == [key |-> k, token |-> t, left |-> ttlSec, revoked |-> FALSE]
<1>1. \A d \in Callers : hold'[d] = IF heard /\ d = c THEN entered ELSE hold[d]
  BY DEF Lock, TypeOK
<1>2. \A j \in LockKeys :
        locks'[j] = IF j = k THEN [token |-> t, left |-> ttlSec] ELSE locks[j]
  BY DEF Lock, TypeOK
<1>3. \A d \in Callers : hold[d] # NoHold => Inside(d)[2] # t
  BY InsideShape DEF Lock, TokensInUse
<1>4. entered # NoHold
  BY KvAssumption DEF NoHold
<1>5. \A j \in LockKeys : Owner(j)' = IF j = k /\ ttlSec > 0 THEN t ELSE Owner(j)
  BY <1>2 DEF Owner, Locked
<1>6. \A d \in Callers : Inside(d)' = IF heard /\ d = c THEN <<k, t>> ELSE Inside(d)
  BY <1>1, <1>4 DEF Inside
<1>7. Owner(k) = NoToken /\ Inside(c) = <<>>
  BY DEF Owner, Inside, Lock
<1>8. \A d \in Callers : Inside(d) # <<>> => Inside(d)[2] # t
  BY <1>3, InsideShape
<1> DEFINE owner == [j \in LockKeys |-> Owner(j)]
           inside == [d \in Callers |-> Inside(d)]
<1>9. owner' = [owner EXCEPT ![k] = t] \/ owner' = owner
  BY <1>5
<1>10. inside' = [inside EXCEPT ![c] = <<k, t>>] \/ inside' = inside
  BY <1>6
<1> QED BY <1>7, <1>8, <1>9, <1>10 DEF Lease!Enter, Owner, Inside

LEMMA LeaveStep ==
    ASSUME TypeOK, LocksInv, TypeOK', LocksInv', NEW c \in Callers,
           ReleaseMemory(c) \/ ReleaseRedis(c)
    PROVE  Lease!Leave(c)
<1>1. \A d \in Callers : hold'[d] = IF d = c THEN NoHold ELSE hold[d]
  BY DEF ReleaseMemory, ReleaseRedis, Leave, TypeOK
<1>2. hold[c] # NoHold
  BY DEF ReleaseMemory, ReleaseRedis, Leave
<1>3. hold[c].key \in LockKeys /\ hold[c].token \in Tokens
  BY <1>2, InsideShape
<1>4. \/ locks' = locks
      \/ /\ locks[hold[c].key].token = hold[c].token
         /\ locks' = [locks EXCEPT ![hold[c].key] = NoLock]
  BY <1>3 DEF ReleaseMemory, ReleaseRedis, Freed, TypeOK
<1>5. \A d \in Callers : Inside(d)' = IF d = c THEN <<>> ELSE Inside(d)
  BY <1>1 DEF Inside
<1> DEFINE owner == [j \in LockKeys |-> Owner(j)]
           inside == [d \in Callers |-> Inside(d)]
<1>6. \/ owner' = owner
      \/ /\ owner[inside[c][1]] = inside[c][2]
         /\ owner' = [owner EXCEPT ![inside[c][1]] = NoToken]
  <2>1. CASE locks' = locks
    BY <2>1 DEF Owner, Locked
  <2>2. CASE /\ locks[hold[c].key].token = hold[c].token
             /\ locks' = [locks EXCEPT ![hold[c].key] = NoLock]
    <3>1. \A j \in LockKeys : Owner(j)' = IF j = hold[c].key THEN NoToken ELSE Owner(j)
      BY <2>2 DEF Owner, Locked, NoLock, TypeOK
    <3>2. inside[c][1] = hold[c].key /\ inside[c][2] = hold[c].token
      BY <1>2, InsideShape
    <3>3. CASE Locked(hold[c].key)
      <4>1. Owner(hold[c].key) = hold[c].token
        BY <2>2, <3>3 DEF Owner
      <4> QED BY <1>3, <3>1, <3>2, <4>1
    <3>4. CASE ~Locked(hold[c].key)
      <4>1. Owner(hold[c].key) = NoToken
        BY <3>4 DEF Owner
      <4> QED BY <1>3, <3>1, <4>1
    <3> QED BY <3>3, <3>4
  <2> QED BY <1>4, <2>1, <2>2
<1>7. inside' = [inside EXCEPT ![c] = <<>>]
  BY <1>5
<1>8. inside[c] # <<>>
  BY <1>2, InsideShape
<1> QED BY <1>6, <1>7, <1>8 DEF Lease!Leave, Owner, Inside

(* A step that revokes or ages holds keeps the callers where they are.       *)
LEMMA SameInside ==
    ASSUME TypeOK, NEW c \in Callers,
           hold'[c].key = hold[c].key, hold'[c].token = hold[c].token,
           hold[c] = NoHold <=> hold'[c] = NoHold
    PROVE  Inside(c)' = Inside(c)
BY DEF Inside

LEMMA RevokeLapse ==
    ASSUME TypeOK, LocksInv, TypeOK', NEW ks, hold' = Revoked(ks),
           \A k \in LockKeys : locks'[k] = locks[k] \/ locks'[k] = NoLock
    PROVE  Lease!Lapse
<1>1. ASSUME NEW c \in Callers PROVE Inside(c)' = Inside(c)
  <2>1. hold'[c] = IF hold[c].key \in ks \cap LockKeys
                        /\ locks[hold[c].key].token = hold[c].token
                   THEN [hold[c] EXCEPT !.revoked = TRUE] ELSE hold[c]
    BY DEF Revoked
  <2>2. hold[c] \in Holds
    BY DEF TypeOK
  <2>3. NoHold.key \notin LockKeys
    BY KvAssumption DEF NoHold
  <2>4. hold'[c].key = hold[c].key /\ hold'[c].token = hold[c].token
    BY <2>1, <2>2 DEF Holds
  <2>5. hold[c] = NoHold <=> hold'[c] = NoHold
    BY <2>1, <2>3, <2>4
  <2> QED BY <2>4, <2>5, SameInside
<1>2. \A k \in LockKeys : Owner(k)' \in {Owner(k), NoToken}
  BY DEF Owner, Locked, NoLock
<1> QED BY <1>1, <1>2, LapseStep

LEMMA TickLapse ==
    ASSUME TypeOK, LocksInv, TypeOK', Tick
    PROVE  Lease!Lapse
<1>1. ASSUME NEW c \in Callers PROVE Inside(c)' = Inside(c)
  <2>1. hold'[c] = [hold[c] EXCEPT !.left = Aged(@)]
    BY DEF Tick
  <2>2. hold[c] \in Holds
    BY DEF TypeOK
  <2>3. hold'[c].key = hold[c].key /\ hold'[c].token = hold[c].token
    BY <2>1, <2>2 DEF Holds
  <2>4. ASSUME hold[c] = NoHold PROVE hold'[c] = NoHold
    <3>1. hold'[c] = [NoHold EXCEPT !.left = Aged(NoHold.left)]
      BY <2>1, <2>4
    <3>2. Aged(NoHold.left) = 0
      BY DEF Aged, NoHold
    <3> QED BY <3>1, <3>2 DEF NoHold
  <2>5. NoHold.key \notin LockKeys
    BY KvAssumption DEF NoHold
  <2>6. hold[c] # NoHold => hold'[c] # NoHold
    BY <2>3, <2>5, InsideShape
  <2> QED BY <2>3, <2>4, <2>6, SameInside
<1>2. ASSUME NEW k \in LockKeys PROVE Owner(k)' \in {Owner(k), NoToken}
  <2>1. locks[k] \in Locks
    BY DEF TypeOK
  <2>2. locks'[k] = NoLock \/ locks'[k] = [locks[k] EXCEPT !.left = Aged(@)]
    BY DEF Tick
  <2> QED BY <2>1, <2>2 DEF Owner, Locked, Locks, NoLock, Aged
<1> QED BY <1>1, <1>2, LapseStep

LEMMA RestartCrash ==
    ASSUME TypeOK, LocksInv, TypeOK', Restart
    PROVE  Lease!Crash
<1>1. \A c \in Callers : Inside(c)' = <<>>
  BY DEF Restart, Inside
<1>2. \A k \in LockKeys : Owner(k)' \in {Owner(k), NoToken}
  BY DEF Restart, Owner, Locked, NoLock
<1>3. \A k \in LockKeys : Owner(k)' \in Tokens \cup {NoToken}
  BY Fields DEF Owner, TypeOK, Locks
<1> QED BY <1>1, <1>2, <1>3 DEF Lease!Crash, Owner, Inside

LEMMA RefineInit == Init => Lease!Init
BY DEF Init, Lease!Init, Locked, NoLock

LEMMA RefineStep ==
    TypeOK /\ LocksInv /\ TypeOK' /\ LocksInv' /\ [Next]_vars => [Lease!Next]_(Lease!vars)
<1> SUFFICES ASSUME TypeOK, LocksInv, TypeOK', LocksInv', [Next]_vars
             PROVE  [Lease!Next]_(Lease!vars)
  OBVIOUS
<1>1. ASSUME NEW c \in Callers, NEW k \in LockKeys, NEW t \in Tokens,
             NEW ttlSec \in 0..MaxTtl,
             AcquireMemory(c, k, t, ttlSec) \/ AcquireRedis(c, k, t, ttlSec)
      PROVE  Lease!Next
  <2>1. Lease!Enter(c, k, t)
    BY <1>1, EnterStep DEF AcquireMemory, AcquireRedis
  <2> QED BY <2>1 DEF Lease!Next
<1>2. ASSUME NEW c \in Callers, ReleaseMemory(c) \/ ReleaseRedis(c) PROVE Lease!Next
  BY <1>2, LeaveStep DEF Lease!Next
<1>3. ASSUME NEW n \in Namespaces, ClearMemory(n) PROVE Lease!Next
  <2>1. hold' = Revoked({n} \X Keys)
        /\ \A k \in LockKeys : locks'[k] = locks[k] \/ locks'[k] = NoLock
    BY <1>3 DEF ClearMemory
  <2> QED BY <2>1, RevokeLapse DEF Lease!Next
<1>4. ASSUME NEW i \in Items, Unlink(i) PROVE Lease!Next
  <2>1. hold' = Revoked({k \in LockKeys : i = <<"lock", k>>})
        /\ \A k \in LockKeys : locks'[k] = locks[k] \/ locks'[k] = NoLock
    BY <1>4 DEF Unlink
  <2> QED BY <2>1, RevokeLapse DEF Lease!Next
<1>5. CASE Tick
  BY <1>5, TickLapse DEF Lease!Next
<1>6. CASE Restart
  BY <1>6, RestartCrash DEF Lease!Next
<1>7. ASSUME UNCHANGED <<locks, hold>> PROVE UNCHANGED Lease!vars
  BY <1>7 DEF Lease!vars, Locked
<1>8. ASSUME NEW k \in FullKeys,
             (\E ttlSec \in 0..MaxTtl : Set(k, ttlSec)) \/ Read(k) \/ Del(k)
      PROVE  UNCHANGED <<locks, hold>>
  BY <1>8 DEF Set, Read, Del
<1>9. ASSUME NEW n \in Namespaces, NEW pattern \in SUBSET Keys,
             \/ ListMemory(n, pattern) \/ StartScan("list", n, pattern)
             \/ StartScan("clear", n, Keys)
      PROVE  UNCHANGED <<locks, hold>>
  BY <1>9 DEF ListMemory, StartScan
<1>10. ASSUME \/ ListReply \/ ClearReply \/ ScanFails \/ UNCHANGED vars
              \/ \E i \in Items : UnlinkFails(i)
      PROVE  UNCHANGED <<locks, hold>>
  BY <1>10 DEF ListReply, ClearReply, ScanFails, UnlinkFails, vars
<1>11. Keys \in SUBSET Keys
  OBVIOUS
<1> QED
  BY Steps, <1>1, <1>2, <1>3, <1>4, <1>5, <1>6, <1>7, <1>8, <1>9, <1>10, <1>11

(* withLock is a lease lock, on either backend.                              *)
THEOREM ImplementsLeaseLock == Spec => LeaseLockHolds
<1>1. TypeOK /\ LocksInv /\ [Next]_vars => TypeOK' /\ LocksInv'
  BY TypeStep, LocksStep
<1> QED
  BY LocksInvariant, RefineInit, RefineStep, <1>1, PTL DEF Spec, LeaseLockHolds, Lease!Spec
=============================================================================
