----------------------------- MODULE CrudPlugin ------------------------------
(* The CRUD plugin (examples/crud-plugin/src/index.ts): notes in SQLite, a   *)
(* warm cache over them, and counters in ctx.kv. Handlers of one process     *)
(* interleave wherever they await; the process may go down and be initialised*)
(* again, with the dbPath it had before.                                     *)
EXTENDS Naturals, FiniteSets

CONSTANTS
    Handlers,      \* handler calls that may be in flight at the same time
    Ids,           \* ids of notes
    Texts,         \* titles and bodies
    None,
    MaxVersion,    \* bound on the version of a note
    MaxMutations   \* bound on the mutations of a behaviour

ASSUME CrudAssumption ==
    /\ IsFiniteSet(Handlers)
    /\ MaxVersion \in Nat \ {0}
    /\ MaxMutations \in Nat
    /\ None \notin Ids

VARIABLES
    opened,     \* database is not null
    notes,      \* notes[id]: the row of the table, durable
    cache,      \* cache[id]: the warm cache of the process
    kvDurable,  \* the host configured Redis
    kv,         \* last_note_id, last_deleted_id and mutation_count
    call,       \* call[h]: where a mutating handler stands
    mutations,  \* history: mutations written to the table
    disturbed   \* history: mutations overlapped, failed or were cut off

vars == <<opened, notes, cache, kvDurable, kv, call, mutations, disturbed>>

Row(version, text) == [version |-> version, text |-> text]
NoRow == Row(0, None)
Rows == [version : 1..MaxVersion, text : Texts] \cup {NoRow}

NoCall == [pc |-> "idle", key |-> "noteId", id |-> None, seen |-> 0]
EmptyKv == [noteId |-> None, deletedId |-> None, count |-> 0]

TypeOK ==
    /\ opened \in BOOLEAN
    /\ notes \in [Ids -> Rows]
    /\ cache \in [Ids -> Rows]
    /\ kvDurable \in BOOLEAN
    /\ kv \in [noteId : Ids \cup {None}, deletedId : Ids \cup {None}, count : Nat]
    /\ call \in [Handlers -> [pc : {"idle", "written", "marked", "counting"},
                              key : {"noteId", "deletedId"},
                              id : Ids \cup {None}, seen : Nat]]
    /\ mutations \in Nat
    /\ disturbed \in BOOLEAN

Init ==
    /\ opened = FALSE
    /\ notes = [id \in Ids |-> NoRow]
    /\ cache = [id \in Ids |-> NoRow]
    /\ kvDurable \in BOOLEAN
    /\ kv = EmptyKv
    /\ call = [h \in Handlers |-> NoCall]
    /\ mutations = 0
    /\ disturbed = FALSE

(* init with a dbPath; without one it answers an error and changes nothing.  *)
InitPlugin ==
    /\ opened' = TRUE
    /\ UNCHANGED <<notes, cache, kvDurable, kv, call, mutations, disturbed>>

Busy(h) == call[h].pc # "idle"

(* A handler that has written its note, up to its first await.               *)
Begin(h, key, id) ==
    /\ opened
    /\ ~Busy(h)
    /\ mutations < MaxMutations
    /\ call' = [call EXCEPT ![h] =
                  [pc |-> "written", key |-> key, id |-> id, seen |-> 0]]
    /\ mutations' = mutations + 1
    /\ disturbed' = (disturbed \/ \E g \in Handlers : Busy(g))
    /\ UNCHANGED <<opened, kvDurable, kv>>

(* loadNote: the cache first, then the table.                                *)
Loaded(id) == IF cache[id] # NoRow THEN cache[id] ELSE notes[id]

CreateNote(h, id, text) ==
    /\ Begin(h, "noteId", id)
    /\ notes' = [notes EXCEPT ![id] = Row(1, text)]
    /\ cache' = [cache EXCEPT ![id] = Row(1, text)]

(* Faulty variant: the cache is left to the next miss, which does not come.  *)
UpdateNoteUncached(h, id, text) ==
    /\ Loaded(id) # NoRow
    /\ Loaded(id).version < MaxVersion
    /\ Begin(h, "noteId", id)
    /\ notes' = [notes EXCEPT ![id] =
                    IF @ = NoRow THEN @ ELSE Row(Loaded(id).version + 1, text)]
    /\ cache' = cache

(* A note that is not found is answered at once; UPDATE changes nothing when *)
(* the row is not there.                                                     *)
UpdateNote(h, id, text) ==
    LET next == Row(Loaded(id).version + 1, text)
    IN  /\ Loaded(id) # NoRow
        /\ Loaded(id).version < MaxVersion
        /\ Begin(h, "noteId", id)
        /\ notes' = [notes EXCEPT ![id] = IF @ = NoRow THEN @ ELSE next]
        /\ cache' = [cache EXCEPT ![id] = next]

(* Faulty variant: the cache keeps what the table no longer has.             *)
DeleteNoteKeepsCache(h, id) ==
    /\ Begin(h, "deletedId", id)
    /\ notes' = [notes EXCEPT ![id] = NoRow]
    /\ cache' = cache

DeleteNote(h, id) ==
    /\ Begin(h, "deletedId", id)
    /\ notes' = [notes EXCEPT ![id] = NoRow]
    /\ cache' = [cache EXCEPT ![id] = NoRow]

(* getNote: a miss is filled from the table.                                 *)
GetNote(id) ==
    /\ cache[id] = NoRow
    /\ opened
    /\ cache' = [cache EXCEPT ![id] = notes[id]]
    /\ UNCHANGED <<opened, notes, kvDurable, kv, call, mutations, disturbed>>

(* listNotes: every row goes to the cache.                                   *)
ListNotes ==
    /\ opened
    /\ cache' = [id \in Ids |-> IF notes[id] # NoRow THEN notes[id] ELSE cache[id]]
    /\ UNCHANGED <<opened, notes, kvDurable, kv, call, mutations, disturbed>>

(* await ctx.kv.set of the id.                                               *)
MarkLast(h) ==
    /\ call[h].pc = "written"
    /\ kv' = [kv EXCEPT ![call[h].key] = call[h].id]
    /\ call' = [call EXCEPT ![h] = [call[h] EXCEPT !.pc = "marked"]]
    /\ UNCHANGED <<opened, notes, cache, kvDurable, mutations, disturbed>>

(* bumpMutationCount: await get.                                             *)
ReadCount(h) ==
    /\ call[h].pc = "marked"
    /\ call' = [call EXCEPT ![h] = [pc |-> "counting", key |-> call[h].key,
                                    id |-> call[h].id, seen |-> kv.count]]
    /\ UNCHANGED <<opened, notes, cache, kvDurable, kv, mutations, disturbed>>

(* Faulty variant: the bump is repeated after it has succeeded.              *)
WriteCountAgain(h) ==
    /\ call[h].pc = "counting"
    /\ kv' = [kv EXCEPT !.count = call[h].seen + 1]
    /\ call' = [call EXCEPT ![h].pc = "marked"]
    /\ UNCHANGED <<opened, notes, cache, kvDurable, mutations, disturbed>>

(* await set, and the answer.                                                *)
WriteCount(h) ==
    /\ call[h].pc = "counting"
    /\ kv' = [kv EXCEPT !.count = call[h].seen + 1]
    /\ call' = [call EXCEPT ![h] = NoCall]
    /\ UNCHANGED <<opened, notes, cache, kvDurable, mutations, disturbed>>

(* A call of ctx.kv rejects, and with it the handler; its note stays.        *)
KvFails(h) ==
    /\ Busy(h)
    /\ call' = [call EXCEPT ![h] = NoCall]
    /\ disturbed' = TRUE
    /\ UNCHANGED <<opened, notes, cache, kvDurable, kv, mutations>>

(* The process goes down; the host starts another one.                       *)
Restart ==
    /\ opened' = FALSE
    /\ cache' = [id \in Ids |-> NoRow]
    /\ call' = [h \in Handlers |-> NoCall]
    /\ kv' = IF kvDurable THEN kv ELSE EmptyKv
    /\ disturbed' = (disturbed \/ ~kvDurable \/ \E h \in Handlers : Busy(h))
    /\ UNCHANGED <<notes, kvDurable, mutations>>

Next ==
    \/ InitPlugin
    \/ \E h \in Handlers, id \in Ids :
         \/ \E text \in Texts : CreateNote(h, id, text) \/ UpdateNote(h, id, text)
         \/ DeleteNote(h, id)
    \/ \E id \in Ids : GetNote(id)
    \/ ListNotes
    \/ \E h \in Handlers : MarkLast(h) \/ ReadCount(h) \/ WriteCount(h) \/ KvFails(h)
    \/ Restart

Spec == Init /\ [][Next]_vars

(* What the cache holds is what the table holds, at every await and after    *)
(* every restart: no answer is stale and no update starts from an old row.   *)
CacheIsCoherent == \A id \in Ids : cache[id] # NoRow => cache[id] = notes[id]

(* mutation_count never runs ahead of the mutations, and is exact once every *)
(* handler is done, as long as no two overlapped and none failed.            *)
CountIsHonest ==
    /\ kv.count <= mutations
    /\ ~disturbed /\ (\A h \in Handlers : ~Busy(h)) => kv.count = mutations

(* An update continues the version the table has: whoever raises it raises   *)
(* it by one, and only a new note starts over.                               *)
VersionsGrow ==
    [][\A id \in Ids :
         notes[id] # notes'[id] /\ notes[id] # NoRow /\ notes'[id] # NoRow
           => notes'[id].version \in {1, notes[id].version + 1}]_vars
=============================================================================
