----------------------------- MODULE WarmCache -------------------------------
(* The cache the runtime offers to plugins (packages/plugin-runtime/src/     *)
(* cache.ts): a Map kept in order of use, entries that expire by age, a limit*)
(* on their number and eviction under memory pressure. A value is known by   *)
(* when it was set.                                                          *)
EXTENDS Naturals, Sequences, SequencesExt, Functions

CONSTANTS
    Keys, Weights,
    MaxEntries, MaxAge,   \* WarmCacheOptions
    SoftLimit, HardLimit, \* MemoryPressureConfig
    Usages                \* heap usages reported to handleMemoryPressure

ASSUME CacheAssumption ==
    /\ Weights \subseteq Nat /\ Usages \subseteq Nat
    /\ MaxEntries \in Nat /\ MaxAge \in Nat
    /\ SoftLimit \in Nat /\ HardLimit \in Nat

VARIABLES
    entries,   \* the Map in insertion order: [key, age, weight]
    recent,    \* history: all keys that were set, by their last use
    age,       \* history: age[k], ticks since k was last set
    last       \* history: the last operation

cacheVars == <<entries, recent, age, last>>

Ages == 0..(MaxAge + 1)
KeysOf(s) == [i \in DOMAIN s |-> s[i].key]

(* The elements of s that are in S, in their order.                          *)
Keep(s, S) ==
    LET kept[i \in 0..Len(s)] ==
            IF i = 0 THEN <<>>
            ELSE IF s[i] \in S THEN Append(kept[i - 1], s[i]) ELSE kept[i - 1]
    IN  kept[Len(s)]

With(s, k) == Keep(s, {e \in Range(s) : e.key = k})
Without(s, k) == Keep(s, {e \in Range(s) : e.key # k})
Used(k) == Append(Keep(recent, Keys \ {k}), k)

CacheType ==
    /\ Range(entries) \subseteq [key : Keys, age : Ages, weight : Weights]
    /\ IsInjective(KeysOf(entries))
    /\ Len(entries) <= MaxEntries
    /\ Range(recent) \subseteq Keys /\ IsInjective(recent)
    /\ age \in [Keys -> Ages]
    /\ last \in {"none", "get", "miss", "set", "tick", "normal", "soft", "hard"}

CacheInit ==
    /\ entries = <<>>
    /\ recent = <<>>
    /\ age = [k \in Keys |-> 0]
    /\ last = "none"

(* pruneExpired.                                                             *)
Fresh(s) == Keep(s, {e \in Range(s) : e.age <= MaxAge})

(* totalWeight.                                                              *)
Weight(s) == FoldSeq(LAMBDA e, w : e.weight + w, 0, s)

(* Faulty variant: a hit leaves the entry where it is.                       *)
GetInPlace(k) ==
    LET fresh == Fresh(entries)
        hit == k \in Range(KeysOf(fresh))
    IN  /\ entries' = fresh
        /\ recent' = IF hit THEN Used(k) ELSE recent
        /\ last' = IF hit THEN "get" ELSE "miss"
        /\ UNCHANGED age

(* Faulty variant: a hit is put back as if it were new.                      *)
GetRenews(k) ==
    LET fresh == Fresh(entries)
        hit == With(fresh, k)
    IN  /\ entries' = Without(fresh, k)
                        \o [i \in DOMAIN hit |-> [hit[i] EXCEPT !.age = 0]]
        /\ recent' = IF hit # <<>> THEN Used(k) ELSE recent
        /\ last' = IF hit # <<>> THEN "get" ELSE "miss"
        /\ UNCHANGED age

(* get, and has, which calls it: a hit becomes the youngest entry in use.    *)
Get(k) ==
    LET fresh == Fresh(entries)
        hit == With(fresh, k)
    IN  /\ entries' = Without(fresh, k) \o hit
        /\ recent' = IF hit # <<>> THEN Used(k) ELSE recent
        /\ last' = IF hit # <<>> THEN "get" ELSE "miss"
        /\ UNCHANGED age

(* evictOldest until at most n entries are left.                             *)
Youngest(s, n) == IF Len(s) > n THEN SubSeq(s, Len(s) - n + 1, Len(s)) ELSE s

Set(k, weight) ==
    /\ entries' = Youngest(Append(Without(Fresh(entries), k),
                                  [key |-> k, age |-> 0, weight |-> weight]),
                           MaxEntries)
    /\ recent' = Used(k)
    /\ age' = [age EXCEPT ![k] = 0]
    /\ last' = "set"

(* memoryPressureState.                                                      *)
PressureState(usage) ==
    IF usage >= HardLimit THEN "hard"
    ELSE IF usage >= SoftLimit THEN "soft" ELSE "normal"

(* The entries weigh no more than the target: half the soft limit, or zero.  *)
Meets(s, state) ==
    CASE state = "normal" -> TRUE
      [] state = "soft"   -> 2 * Weight(s) <= SoftLimit
      [] state = "hard"   -> Weight(s) = 0

(* Faulty variant: one entry goes, however much it weighs.                   *)
HandleMemoryPressureOnce(usage) ==
    LET state == PressureState(usage)
    IN  /\ entries' = IF Meets(entries, state) THEN entries ELSE Tail(entries)
        /\ last' = state
        /\ UNCHANGED <<recent, age>>

(* The loop of handleMemoryPressure: after[n] is the Map when its body ran at *)
(* most n times. It stops at the target or when nothing is left.             *)
EvictUntilMet(s, state) ==
    LET after[n \in 0..Len(s)] ==
            IF n = 0 THEN s
            ELSE IF after[n - 1] = <<>> \/ Meets(after[n - 1], state)
                 THEN after[n - 1]
                 ELSE Tail(after[n - 1])
    IN  after[Len(s)]

(* handleMemoryPressure: what has expired is not pruned first.               *)
HandleMemoryPressure(usage) ==
    LET state == PressureState(usage)
    IN  /\ entries' = EvictUntilMet(entries, state)
        /\ last' = state
        /\ UNCHANGED <<recent, age>>

Older(a) == IF a > MaxAge THEN a ELSE a + 1

Tick ==
    /\ entries' = [i \in DOMAIN entries |-> [entries[i] EXCEPT !.age = Older(@)]]
    /\ age' = [k \in Keys |-> Older(age[k])]
    /\ last' = "tick"
    /\ UNCHANGED recent

CacheNext ==
    \/ \E k \in Keys : Get(k) \/ \E weight \in Weights : Set(k, weight)
    \/ \E usage \in Usages : HandleMemoryPressure(usage)
    \/ Tick

CacheSpec == CacheInit /\ [][CacheNext]_cacheVars

Position(k) == CHOOSE i \in DOMAIN recent : recent[i] = k

(* The Map is in order of use: of two entries the one used earlier is evicted*)
(* earlier, whatever was read, replaced or expired between.                  *)
OrderIsUse ==
    /\ CacheType
    /\ \A i, j \in DOMAIN entries :
         i < j => Position(entries[i].key) < Position(entries[j].key)

(* A read does not lengthen the life of an entry: what it finds was set no   *)
(* longer than maxAgeMs ago.                                                 *)
AgeIsHonest ==
    /\ \A e \in Range(entries) : e.age = age[e.key]
    /\ last = "get" => age[entries[Len(entries)].key] <= MaxAge

(* Pressure is met, with whatever weights the entries have; by no more       *)
(* evictions than it takes, the last of them still needed; and at the expense*)
(* of what was used earliest: all that stays was used after all that goes.   *)
PressureIsMet ==
    [][last' \in {"soft", "hard"} /\ entries' # entries =>
         /\ Meets(entries', last')
         /\ ~Meets(Youngest(entries, Len(entries') + 1), last')
         /\ \A gone \in Range(entries) \ Range(entries'), kept \in Range(entries') :
               Position(gone.key) < Position(kept.key)]_cacheVars
=============================================================================
