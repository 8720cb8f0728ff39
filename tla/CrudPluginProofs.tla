-------------------------- MODULE CrudPluginProofs ---------------------------
(* Theorems about CrudPlugin, for any number of handlers and notes: its cache*)
(* is never stale, versions grow by one, and the counter never runs ahead;   *)
(* and about the cache that the runtime gives to such a plugin, WarmCache,   *)
(* for any limits, keys and weights.                                         *)
EXTENDS CrudPlugin, WarmCache, FiniteSetTheorems, SequenceTheorems, WellFoundedInduction, TLAPS

(***************************************************************************)
(* Types.                                                                   *)
(***************************************************************************)

Calls == [pc : {"idle", "written", "marked", "counting"}, key : {"noteId", "deletedId"},
          id : Ids \cup {None}, seen : Nat]
Kvs == [noteId : Ids \cup {None}, deletedId : Ids \cup {None}, count : Nat]

LEMMA InitType == Init => TypeOK
<1>1. NoRow \in Rows
  BY DEF Rows
<1>2. NoCall \in Calls
  BY DEF NoCall, Calls
<1>3. EmptyKv \in Kvs
  BY DEF EmptyKv, Kvs
<1> SUFFICES ASSUME Init PROVE TypeOK
  OBVIOUS
<1>4. notes \in [Ids -> Rows] /\ cache \in [Ids -> Rows]
  BY <1>1 DEF Init
<1>5. call \in [Handlers -> Calls]
  BY <1>2 DEF Init
<1>6. kv \in Kvs
  BY <1>3 DEF Init
<1>7. opened \in BOOLEAN /\ kvDurable \in BOOLEAN /\ mutations \in Nat /\ disturbed \in BOOLEAN
  BY DEF Init
<1> QED BY <1>4, <1>5, <1>6, <1>7 DEF TypeOK, Calls, Kvs

LEMMA RowShape ==
    /\ NoRow \in Rows
    /\ NoRow.version = 0
    /\ \A version \in 1..MaxVersion, text \in Texts :
         Row(version, text) \in Rows /\ Row(version, text) # NoRow
    /\ \A row \in Rows : row # NoRow => row.version \in 1..MaxVersion
BY DEF Rows, NoRow, Row

LEMMA LoadedShape ==
    ASSUME TypeOK, NEW id \in Ids, NEW text \in Texts,
           Loaded(id) # NoRow, Loaded(id).version < MaxVersion
    PROVE  LET next == Row(Loaded(id).version + 1, text) IN next \in Rows /\ next # NoRow
<1>1. Loaded(id) \in Rows
  BY DEF TypeOK, Loaded
<1>2. Loaded(id).version + 1 \in 1..MaxVersion
  BY <1>1, RowShape, CrudAssumption
<1> QED BY <1>2, RowShape

LEMMA BeginType ==
    ASSUME TypeOK, NEW h \in Handlers, NEW key \in {"noteId", "deletedId"},
           NEW id \in Ids, Begin(h, key, id),
           notes' \in [Ids -> Rows], cache' \in [Ids -> Rows]
    PROVE  TypeOK'
<1>1. [pc |-> "written", key |-> key, id |-> id, seen |-> 0] \in Calls
  BY DEF Calls
<1>2. disturbed' \in BOOLEAN
  BY DEF Begin, TypeOK
<1> QED BY <1>1, <1>2 DEF Begin, TypeOK, Calls

LEMMA TypeStep == TypeOK /\ [Next]_vars => TypeOK'
<1> SUFFICES ASSUME TypeOK, [Next]_vars PROVE TypeOK'
  OBVIOUS
<1>1. CASE InitPlugin
  BY <1>1 DEF InitPlugin, TypeOK
<1>2. ASSUME NEW h \in Handlers, NEW id \in Ids, NEW text \in Texts, CreateNote(h, id, text)
      PROVE  TypeOK'
  <2>1. Row(1, text) \in Rows
    BY RowShape, CrudAssumption
  <2>2. notes' \in [Ids -> Rows] /\ cache' \in [Ids -> Rows]
    BY <1>2, <2>1 DEF CreateNote, TypeOK
  <2> QED BY <1>2, <2>2, BeginType DEF CreateNote
<1>3. ASSUME NEW h \in Handlers, NEW id \in Ids, NEW text \in Texts, UpdateNote(h, id, text)
      PROVE  TypeOK'
  <2>1. Row(Loaded(id).version + 1, text) \in Rows
    BY <1>3, LoadedShape DEF UpdateNote
  <2>2. notes' \in [Ids -> Rows] /\ cache' \in [Ids -> Rows]
    BY <1>3, <2>1 DEF UpdateNote, TypeOK
  <2> QED BY <1>3, <2>2, BeginType DEF UpdateNote
<1>4. ASSUME NEW h \in Handlers, NEW id \in Ids, DeleteNote(h, id) PROVE TypeOK'
  <2>1. notes' \in [Ids -> Rows] /\ cache' \in [Ids -> Rows]
    BY <1>4, RowShape DEF DeleteNote, TypeOK
  <2> QED BY <1>4, <2>1, BeginType DEF DeleteNote
<1>5. ASSUME NEW id \in Ids, GetNote(id) PROVE TypeOK'
  BY <1>5 DEF GetNote, TypeOK
<1>6. CASE ListNotes
  BY <1>6 DEF ListNotes, TypeOK
<1>7. ASSUME NEW h \in Handlers, MarkLast(h) PROVE TypeOK'
  <2>1. call[h] \in Calls /\ kv \in Kvs
    BY DEF TypeOK, Calls, Kvs
  <2>2. call[h].id \in Ids \cup {None} /\ call[h].key \in {"noteId", "deletedId"}
    BY <2>1 DEF Calls
  <2>3. [kv EXCEPT !.noteId = call[h].id] \in Kvs /\ [kv EXCEPT !.deletedId = call[h].id] \in Kvs
    BY <2>1, <2>2 DEF Kvs
  <2>4. kv' \in Kvs
    BY <1>7, <2>2, <2>3 DEF MarkLast
  <2>5. [call[h] EXCEPT !.pc = "marked"] \in Calls
    BY <2>1 DEF Calls
  <2> QED BY <1>7, <2>4, <2>5 DEF MarkLast, TypeOK, Calls, Kvs
<1>8. ASSUME NEW h \in Handlers, ReadCount(h) PROVE TypeOK'
  <2>1. call[h] \in Calls /\ kv \in Kvs
    BY DEF TypeOK, Calls, Kvs
  <2>2. [pc |-> "counting", key |-> call[h].key, id |-> call[h].id, seen |-> kv.count] \in Calls
    BY <2>1 DEF Calls, Kvs
  <2> QED BY <1>8, <2>2 DEF ReadCount, TypeOK, Calls
<1>9. ASSUME NEW h \in Handlers, WriteCount(h) PROVE TypeOK'
  <2>1. call[h] \in Calls /\ kv \in Kvs /\ NoCall \in Calls
    BY DEF TypeOK, Calls, Kvs, NoCall
  <2>2. [kv EXCEPT !.count = call[h].seen + 1] \in Kvs
    BY <2>1 DEF Calls, Kvs
  <2> QED BY <1>9, <2>1, <2>2 DEF WriteCount, TypeOK, Calls, Kvs
<1>10. ASSUME NEW h \in Handlers, KvFails(h) PROVE TypeOK'
  <2>1. NoCall \in Calls
    BY DEF Calls, NoCall
  <2> QED BY <1>10, <2>1 DEF KvFails, TypeOK, Calls
<1>11. CASE Restart
  <2>1. NoCall \in Calls /\ EmptyKv \in Kvs
    BY DEF Calls, NoCall, Kvs, EmptyKv
  <2>2. disturbed' \in BOOLEAN
    BY <1>11 DEF Restart, TypeOK
  <2> QED BY <1>11, <2>1, <2>2, RowShape DEF Restart, TypeOK, Calls, Kvs
<1>12. CASE UNCHANGED vars
  BY <1>12 DEF vars, TypeOK
<1> QED
  BY <1>1, <1>2, <1>3, <1>4, <1>5, <1>6, <1>7, <1>8, <1>9, <1>10, <1>11, <1>12 DEF Next

(* Rows, counters and calls keep their types.                                *)
THEOREM TypeCorrect == Spec => []TypeOK
BY InitType, TypeStep, PTL DEF Spec

(***************************************************************************)
(* The cache.                                                               *)
(***************************************************************************)

LEMMA CacheStep == TypeOK /\ CacheIsCoherent /\ [Next]_vars => CacheIsCoherent'
<1> SUFFICES ASSUME TypeOK, CacheIsCoherent, [Next]_vars PROVE CacheIsCoherent'
  OBVIOUS
<1>1. ASSUME UNCHANGED notes, cache' = cache \/ cache' = [id \in Ids |-> NoRow]
      PROVE  CacheIsCoherent'
  BY <1>1 DEF CacheIsCoherent
<1>2. ASSUME NEW h \in Handlers, NEW id \in Ids, NEW text \in Texts, CreateNote(h, id, text)
      PROVE  CacheIsCoherent'
  BY <1>2 DEF CreateNote, CacheIsCoherent, TypeOK
<1>3. ASSUME NEW h \in Handlers, NEW id \in Ids, NEW text \in Texts, UpdateNote(h, id, text)
      PROVE  CacheIsCoherent'
  <2>1. notes[id] # NoRow
    BY <1>3 DEF UpdateNote, Loaded, CacheIsCoherent
  <2> QED BY <1>3, <2>1 DEF UpdateNote, CacheIsCoherent, TypeOK
<1>4. ASSUME NEW h \in Handlers, NEW id \in Ids, DeleteNote(h, id) PROVE CacheIsCoherent'
  BY <1>4 DEF DeleteNote, CacheIsCoherent, TypeOK
<1>5. ASSUME NEW id \in Ids, GetNote(id) PROVE CacheIsCoherent'
  BY <1>5 DEF GetNote, CacheIsCoherent, TypeOK
<1>6. CASE ListNotes
  BY <1>6 DEF ListNotes, CacheIsCoherent, TypeOK
<1>7. CASE InitPlugin
  BY <1>1, <1>7 DEF InitPlugin
<1>8. ASSUME NEW h \in Handlers, MarkLast(h) \/ ReadCount(h) \/ WriteCount(h) \/ KvFails(h)
      PROVE  CacheIsCoherent'
  BY <1>1, <1>8 DEF MarkLast, ReadCount, WriteCount, KvFails
<1>9. CASE Restart
  BY <1>1, <1>9 DEF Restart
<1>10. CASE UNCHANGED vars
  BY <1>1, <1>10 DEF vars
<1> QED
  BY <1>2, <1>3, <1>4, <1>5, <1>6, <1>7, <1>8, <1>9, <1>10 DEF Next

(* An update that finds the row where the table has it continues its version.*)
LEMMA VersionStep ==
    TypeOK /\ CacheIsCoherent /\ [Next]_vars =>
      \A id \in Ids :
         notes[id] # notes'[id] /\ notes[id] # NoRow /\ notes'[id] # NoRow
           => notes'[id].version \in {1, notes[id].version + 1}
<1> SUFFICES ASSUME TypeOK, CacheIsCoherent, [Next]_vars, NEW n \in Ids,
                    notes[n] # notes'[n], notes[n] # NoRow, notes'[n] # NoRow
             PROVE  notes'[n].version \in {1, notes[n].version + 1}
  OBVIOUS
<1>1. ASSUME NEW h \in Handlers, NEW id \in Ids, NEW text \in Texts, CreateNote(h, id, text)
      PROVE  notes'[n].version \in {1, notes[n].version + 1}
  BY <1>1 DEF CreateNote, TypeOK, Row
<1>2. ASSUME NEW h \in Handlers, NEW id \in Ids, NEW text \in Texts, UpdateNote(h, id, text)
      PROVE  notes'[n].version \in {1, notes[n].version + 1}
  <2>1. Loaded(id) = notes[id]
    BY DEF Loaded, CacheIsCoherent
  <2>2. notes' = [notes EXCEPT ![id] =
                    IF @ = NoRow THEN @ ELSE Row(Loaded(id).version + 1, text)]
    BY <1>2 DEF UpdateNote
  <2>3. id = n
    BY <2>2 DEF TypeOK
  <2> QED BY <2>1, <2>2, <2>3 DEF TypeOK, Row
<1>3. ASSUME NEW h \in Handlers, NEW id \in Ids, DeleteNote(h, id) PROVE FALSE
  BY <1>3 DEF DeleteNote, TypeOK
<1>4. notes' # notes
  OBVIOUS
<1>5. ~InitPlugin /\ ~ListNotes /\ ~Restart /\ ~UNCHANGED vars
  BY <1>4 DEF InitPlugin, ListNotes, Restart, vars
<1>6. \A id \in Ids : ~GetNote(id)
  BY <1>4 DEF GetNote
<1>7. \A h \in Handlers : ~(MarkLast(h) \/ ReadCount(h) \/ WriteCount(h) \/ KvFails(h))
  BY <1>4 DEF MarkLast, ReadCount, WriteCount, KvFails
<1> QED
  BY <1>1, <1>2, <1>3, <1>5, <1>6, <1>7 DEF Next

(* The cache never holds what the table does not.                            *)
THEOREM CacheIsNeverStale == Spec => []CacheIsCoherent
<1>1. Init => CacheIsCoherent
  BY DEF Init, CacheIsCoherent
<1> QED
  BY <1>1, TypeCorrect, CacheStep, PTL DEF Spec

(* Nobody raises the version of a note by anything but one, whatever         *)
(* handlers, misses and restarts come between.                               *)
THEOREM VersionsOnlyGrow == Spec => VersionsGrow
<1>1. TypeOK /\ CacheIsCoherent /\ [Next]_vars =>
        [\A id \in Ids :
           notes[id] # notes'[id] /\ notes[id] # NoRow /\ notes'[id] # NoRow
             => notes'[id].version \in {1, notes[id].version + 1}]_vars
  BY VersionStep
<1> QED
  BY <1>1, TypeCorrect, CacheIsNeverStale, PTL DEF Spec, VersionsGrow

(***************************************************************************)
(* The counter. A handler in flight owes a bump: the counter, and every     *)
(* count a handler has read, stay behind by the handlers that owe one.      *)
(***************************************************************************)

Owing == {h \in Handlers : Busy(h)}

Quiet ==
    /\ \A g, h \in Handlers : Busy(g) /\ Busy(h) => g = h
    /\ (\A h \in Handlers : ~Busy(h)) => kv.count = mutations
    /\ \A h \in Handlers : Busy(h) =>
         /\ kv.count + 1 = mutations
         /\ call[h].pc = "counting" => call[h].seen = kv.count

CountInv ==
    /\ kv.count + Cardinality(Owing) <= mutations
    /\ \A h \in Handlers : call[h].pc = "counting"
                             => call[h].seen + Cardinality(Owing) <= mutations
    /\ ~disturbed => Quiet

LEMMA OwingFinite ==
    IsFiniteSet(Owing) /\ Cardinality(Owing) \in Nat
BY CrudAssumption, FS_Subset, FS_CardinalityType DEF Owing

LEMMA Owes ==
    ASSUME TypeOK, TypeOK', NEW h \in Handlers,
           \A g \in Handlers \ {h} : call'[g] = call[g]
    PROVE  /\ Busy(h) /\ ~Busy(h)' => Cardinality(Owing') = Cardinality(Owing) - 1
           /\ ~Busy(h) /\ Busy(h)' => Cardinality(Owing') = Cardinality(Owing) + 1
           /\ (Busy(h) <=> Busy(h)') => Cardinality(Owing') = Cardinality(Owing)
<1>1. \A g \in Handlers \ {h} : Busy(g) <=> Busy(g)'
  BY DEF Busy
<1>2. ASSUME Busy(h), ~Busy(h)' PROVE Cardinality(Owing') = Cardinality(Owing) - 1
  <2>1. Owing' = Owing \ {h} /\ h \in Owing
    BY <1>1, <1>2 DEF Owing
  <2> QED BY <2>1, OwingFinite, FS_RemoveElement
<1>3. ASSUME ~Busy(h), Busy(h)' PROVE Cardinality(Owing') = Cardinality(Owing) + 1
  <2>1. Owing' = Owing \cup {h} /\ h \notin Owing
    BY <1>1, <1>3 DEF Owing
  <2> QED BY <2>1, OwingFinite, FS_AddElement
<1>4. ASSUME Busy(h) <=> Busy(h)' PROVE Cardinality(Owing') = Cardinality(Owing)
  <2>1. Owing' = Owing
    BY <1>1, <1>4 DEF Owing
  <2> QED BY <2>1
<1> QED BY <1>2, <1>3, <1>4

(* How each step moves the calls and the counter.                            *)
LEMMA BeginOwes ==
    ASSUME TypeOK, TypeOK', CountInv, NEW h \in Handlers, NEW key, NEW id, Begin(h, key, id)
    PROVE  CountInv'
<1>1. /\ ~Busy(h) /\ call'[h].pc = "written" /\ mutations' = mutations + 1 /\ kv' = kv
      /\ \A g \in Handlers \ {h} : call'[g] = call[g]
  BY DEF Begin, TypeOK
<1>2. Busy(h)'
  BY <1>1 DEF Busy
<1>3. Cardinality(Owing') = Cardinality(Owing) + 1
  BY <1>1, <1>2, Owes
<1>4. kv.count \in Nat /\ mutations \in Nat /\ \A g \in Handlers : call[g].seen \in Nat
  BY DEF TypeOK
<1>5. kv'.count + Cardinality(Owing') <= mutations'
  BY <1>1, <1>3, <1>4, OwingFinite DEF CountInv
<1>6. ASSUME NEW g \in Handlers, call'[g].pc = "counting"
      PROVE  call'[g].seen + Cardinality(Owing') <= mutations'
  <2>1. g # h /\ call'[g] = call[g]
    BY <1>1, <1>6
  <2> QED BY <1>1, <1>3, <1>4, <1>6, <2>1, OwingFinite DEF CountInv
<1>7. ASSUME ~disturbed' PROVE Quiet'
  <2>1. ~disturbed /\ \A g \in Handlers : ~Busy(g)
    BY <1>7 DEF Begin
  <2>2. kv.count = mutations
    BY <2>1 DEF CountInv, Quiet
  <2>3. \A g \in Handlers : Busy(g)' => g = h
    BY <1>1, <2>1 DEF Busy
  <2> QED BY <1>1, <1>2, <1>4, <2>2, <2>3 DEF Quiet
<1> QED BY <1>5, <1>6, <1>7 DEF CountInv

LEMMA MarkOwes ==
    ASSUME TypeOK, TypeOK', CountInv, NEW h \in Handlers, MarkLast(h)
    PROVE  CountInv'
<1>1. /\ call[h].pc = "written" /\ call'[h].pc = "marked" /\ mutations' = mutations
      /\ \A g \in Handlers \ {h} : call'[g] = call[g]
  BY DEF MarkLast, TypeOK
<1>2. kv'.count = kv.count
  <2>1. call[h].key \in {"noteId", "deletedId"}
    BY DEF TypeOK
  <2> QED BY <2>1 DEF MarkLast, TypeOK
<1>3. \A g \in Handlers : Busy(g) <=> Busy(g)'
  BY <1>1 DEF Busy
<1>4. Cardinality(Owing') = Cardinality(Owing)
  BY <1>1, <1>3, Owes
<1>5. \A g \in Handlers : call'[g].pc = "counting" => g # h /\ call'[g] = call[g]
  BY <1>1
<1>6. disturbed' = disturbed
  BY DEF MarkLast
<1>7. Quiet => Quiet'
  BY <1>1, <1>2, <1>3, <1>5 DEF Quiet
<1> QED BY <1>1, <1>2, <1>4, <1>5, <1>6, <1>7 DEF CountInv

LEMMA ReadOwes ==
    ASSUME TypeOK, TypeOK', CountInv, NEW h \in Handlers, ReadCount(h)
    PROVE  CountInv'
<1>1. /\ call[h].pc = "marked" /\ call'[h].pc = "counting" /\ call'[h].seen = kv.count
      /\ mutations' = mutations /\ kv' = kv /\ disturbed' = disturbed
      /\ \A g \in Handlers \ {h} : call'[g] = call[g]
  BY DEF ReadCount, TypeOK
<1>2. \A g \in Handlers : Busy(g) <=> Busy(g)'
  BY <1>1 DEF Busy
<1>3. Cardinality(Owing') = Cardinality(Owing)
  BY <1>1, <1>2, Owes
<1>4. ASSUME NEW g \in Handlers, call'[g].pc = "counting"
      PROVE  call'[g].seen + Cardinality(Owing') <= mutations'
  <2>1. CASE g = h
    BY <1>1, <1>3, <2>1 DEF CountInv
  <2>2. CASE g # h
    BY <1>1, <1>3, <1>4, <2>2 DEF CountInv
  <2> QED BY <2>1, <2>2
<1>5. Quiet => Quiet'
  BY <1>1, <1>2 DEF Quiet
<1> QED BY <1>1, <1>3, <1>4, <1>5 DEF CountInv

LEMMA WriteOwes ==
    ASSUME TypeOK, TypeOK', CountInv, NEW h \in Handlers, WriteCount(h)
    PROVE  CountInv'
<1>1. /\ call[h].pc = "counting" /\ call'[h].pc = "idle" /\ kv'.count = call[h].seen + 1
      /\ mutations' = mutations /\ disturbed' = disturbed
      /\ \A g \in Handlers \ {h} : call'[g] = call[g]
  BY DEF WriteCount, TypeOK, NoCall
<1>2. Busy(h) /\ ~Busy(h)'
  BY <1>1 DEF Busy
<1>3. Cardinality(Owing') = Cardinality(Owing) - 1
  BY <1>1, <1>2, Owes
<1>4. kv.count \in Nat /\ mutations \in Nat /\ \A g \in Handlers : call[g].seen \in Nat
  BY DEF TypeOK
<1>5. kv'.count + Cardinality(Owing') <= mutations'
  BY <1>1, <1>3, <1>4, OwingFinite DEF CountInv
<1>6. ASSUME NEW g \in Handlers, call'[g].pc = "counting"
      PROVE  call'[g].seen + Cardinality(Owing') <= mutations'
  <2>1. g # h /\ call'[g] = call[g]
    BY <1>1, <1>6
  <2> QED BY <1>1, <1>3, <1>4, <1>6, <2>1, OwingFinite DEF CountInv
<1>7. ASSUME Quiet PROVE Quiet'
  <2>1. kv'.count = mutations'
    BY <1>1, <1>2, <1>4, <1>7 DEF Quiet
  <2>2. \A g \in Handlers : ~Busy(g)'
    BY <1>1, <1>2, <1>7 DEF Quiet, Busy
  <2> QED BY <2>1, <2>2 DEF Quiet
<1> QED BY <1>1, <1>5, <1>6, <1>7 DEF CountInv

LEMMA FailOwes ==
    ASSUME TypeOK, TypeOK', CountInv, NEW h \in Handlers, KvFails(h)
    PROVE  CountInv'
<1>1. /\ call'[h].pc = "idle" /\ mutations' = mutations /\ kv' = kv /\ disturbed'
      /\ \A g \in Handlers \ {h} : call'[g] = call[g]
  BY DEF KvFails, TypeOK, NoCall
<1>2. Busy(h) /\ ~Busy(h)'
  BY <1>1 DEF KvFails, Busy
<1>3. Cardinality(Owing') = Cardinality(Owing) - 1
  BY <1>1, <1>2, Owes
<1>4. kv.count \in Nat /\ mutations \in Nat /\ \A g \in Handlers : call[g].seen \in Nat
  BY DEF TypeOK
<1>5. kv'.count + Cardinality(Owing') <= mutations'
  BY <1>1, <1>3, <1>4, OwingFinite DEF CountInv
<1>6. ASSUME NEW g \in Handlers, call'[g].pc = "counting"
      PROVE  call'[g].seen + Cardinality(Owing') <= mutations'
  <2>1. g # h /\ call'[g] = call[g]
    BY <1>1, <1>6
  <2> QED BY <1>1, <1>3, <1>4, <1>6, <2>1, OwingFinite DEF CountInv
<1> QED BY <1>1, <1>5, <1>6 DEF CountInv

LEMMA RestartOwes ==
    ASSUME TypeOK, TypeOK', CountInv, Restart
    PROVE  CountInv'
<1>1. \A h \in Handlers : ~Busy(h)' /\ call'[h].pc = "idle"
  BY DEF Restart, Busy, NoCall
<1>2. Cardinality(Owing') = 0
  <2>1. Owing' = {}
    BY <1>1 DEF Owing
  <2> QED BY <2>1, FS_EmptySet
<1>3. kv.count \in Nat /\ mutations \in Nat /\ mutations' = mutations
  BY DEF TypeOK, Restart
<1>4. kv'.count <= mutations'
  <2>1. kv'.count = kv.count \/ kv'.count = 0
    BY DEF Restart, EmptyKv
  <2> QED BY <1>3, <2>1, OwingFinite DEF CountInv
<1>5. kv'.count + Cardinality(Owing') <= mutations'
  <2>1. kv'.count \in Nat
    BY DEF TypeOK
  <2> QED BY <1>2, <1>4, <2>1
<1>6. ASSUME ~disturbed' PROVE Quiet'
  <2>1. ~disturbed /\ kvDurable /\ \A h \in Handlers : ~Busy(h)
    BY <1>6 DEF Restart
  <2>2. kv' = kv
    BY <2>1 DEF Restart
  <2> QED BY <1>1, <1>3, <2>1, <2>2 DEF CountInv, Quiet
<1> QED BY <1>1, <1>5, <1>6 DEF CountInv

LEMMA CountStep == TypeOK /\ TypeOK' /\ CountInv /\ [Next]_vars => CountInv'
<1> SUFFICES ASSUME TypeOK, TypeOK', CountInv, [Next]_vars PROVE CountInv'
  OBVIOUS
<1>1. ASSUME NEW h \in Handlers, NEW id \in Ids,
             \/ \E text \in Texts : CreateNote(h, id, text) \/ UpdateNote(h, id, text)
             \/ DeleteNote(h, id)
      PROVE  CountInv'
  <2>1. PICK key \in {"noteId", "deletedId"} : Begin(h, key, id)
    BY <1>1 DEF CreateNote, UpdateNote, DeleteNote
  <2> QED BY <2>1, BeginOwes
<1>2. ASSUME UNCHANGED <<kv, call, mutations, disturbed>> PROVE CountInv'
  <2>1. Owing' = Owing
    BY <1>2 DEF Owing, Busy
  <2>2. Quiet => Quiet'
    BY <1>2 DEF Quiet, Busy
  <2> QED BY <1>2, <2>1, <2>2 DEF CountInv
<1>3. CASE InitPlugin \/ ListNotes \/ UNCHANGED vars \/ \E id \in Ids : GetNote(id)
  BY <1>2, <1>3 DEF InitPlugin, ListNotes, GetNote, vars
<1>4. ASSUME NEW h \in Handlers, MarkLast(h) \/ ReadCount(h) \/ WriteCount(h) \/ KvFails(h)
      PROVE  CountInv'
  BY <1>4, MarkOwes, ReadOwes, WriteOwes, FailOwes
<1>5. CASE Restart
  BY <1>5, RestartOwes
<1> HIDE DEF CountInv
<1> QED BY <1>1, <1>3, <1>4, <1>5 DEF Next

(* No interleaving, failure or restart makes the counter run ahead, and      *)
(* handlers one after the other keep it exact.                               *)
THEOREM CountsAreHonest == Spec => []CountIsHonest
<1>1. Init => CountInv
  <2> SUFFICES ASSUME Init PROVE CountInv
    OBVIOUS
  <2>1. \A h \in Handlers : ~Busy(h) /\ call[h].pc = "idle"
    BY DEF Init, Busy, NoCall
  <2>2. Owing = {}
    BY <2>1 DEF Owing
  <2>3. kv.count = 0 /\ mutations = 0
    BY DEF Init, EmptyKv
  <2> QED BY <2>1, <2>2, <2>3, FS_EmptySet DEF CountInv, Quiet
<1>2. TypeOK /\ CountInv => CountIsHonest
  <2> SUFFICES ASSUME TypeOK, CountInv PROVE CountIsHonest
    OBVIOUS
  <2>1. kv.count <= mutations
    BY OwingFinite DEF CountInv, TypeOK
  <2> QED BY <2>1 DEF CountInv, Quiet, CountIsHonest
<1>3. TypeOK /\ TypeOK' /\ CountInv /\ [Next]_vars => CountInv'
  BY CountStep
<1> QED
  BY <1>1, <1>2, <1>3, TypeCorrect, PTL DEF Spec

(***************************************************************************)
(* The warm cache. CrudPlugin abstracts its order, its limits and its       *)
(* evictions; WarmCache is a specification of its own, and so are the       *)
(* theorems from here on.                                                   *)
(***************************************************************************)
\* The order of the natural numbers, as a relation.
Less == {p \in Nat \X Nat : p[1] < p[2]}

\* Every nonempty set of naturals has a least element.
LEMMA LessIsWellFounded == IsWellFoundedOn(Less, Nat)
  <1>1. IsWellFoundedOn(OpToRel(<, Nat), Nat)
    BY NatLessThanWellFounded
  <1>2. OpToRel(<, Nat) = Less
    BY Zenon DEF OpToRel, Less
  <1> QED BY <1>1, <1>2, Zenon

\* Induction for a set of natural numbers.
LEMMA NatSetInduction ==
    ASSUME NEW S, 0 \in S, \A n \in Nat : n \in S => n + 1 \in S
    PROVE  Nat \subseteq S
  <1> DEFINE T == Nat \ S
  <1> SUFFICES ASSUME T # {} PROVE FALSE
    OBVIOUS
  <1>1. PICK x \in T : \A y \in T : ~(<<y, x>> \in Less)
    <2>1. T \subseteq Nat /\ T # {}
      OBVIOUS
    <2> HIDE DEF T
    <2> QED BY <2>1, LessIsWellFounded, WFMin, Zenon
  <1>2. x \in Nat \ {0}
    OBVIOUS
  <1>3. x - 1 \in Nat /\ <<x - 1, x>> \in Less
    BY <1>2 DEF Less
  <1>4. x - 1 \in S
    BY <1>1, <1>3
  <1>5. (x - 1) + 1 \in S
    BY <1>3, <1>4
  <1> QED BY <1>2, <1>5

(***************************************************************************)
(* Keep, a recursive function, picks the elements it should.                *)
(***************************************************************************)
(* t has, in their order, the elements of S among the first n of s; f says   *)
(* where each of them was.                                                   *)
PicksBy(f, t, s, S, n) ==
    /\ f \in [1..Len(t) -> 1..n]
    /\ \A i \in 1..Len(t) : t[i] = s[f[i]] /\ t[i] \in S
    /\ \A i, j \in 1..Len(t) : i < j => f[i] < f[j]
    /\ \A h \in 1..n : s[h] \in S => \E i \in 1..Len(t) : f[i] = h

Picks(t, s, S, n) == \E f : PicksBy(f, t, s, S, n)

\* One more element of s is picked or passed over.
LEMMA PickNext ==
    ASSUME NEW X, NEW s \in Seq(X), NEW S, NEW n \in Nat, n + 1 <= Len(s),
           NEW t \in Seq(X), Picks(t, s, S, n)
    PROVE  /\ s[n + 1] \in X
           /\ Picks(IF s[n + 1] \in S THEN Append(t, s[n + 1]) ELSE t, s, S, n + 1)
  <1>1. n + 1 \in 1..Len(s)
    BY LenProperties
  <1>2. s[n + 1] \in X
    BY <1>1, ElementOfSeq
  <1>3. PICK f : PicksBy(f, t, s, S, n)
    BY DEF Picks
  <1>4. CASE s[n + 1] \notin S
    <2>1. f \in [1..Len(t) -> 1..(n + 1)]
      BY <1>3 DEF PicksBy
    <2>2. ASSUME NEW h \in 1..(n + 1), s[h] \in S PROVE \E i \in 1..Len(t) : f[i] = h
      <3>1. h \in 1..n
        BY <1>4, <2>2
      <3> QED BY <1>3, <2>2, <3>1 DEF PicksBy
    <2>3. PicksBy(f, t, s, S, n + 1)
      BY <1>3, <2>1, <2>2 DEF PicksBy
    <2> QED BY <1>2, <1>4, <2>3 DEF Picks
  <1>5. CASE s[n + 1] \in S
    <2> DEFINE u == Append(t, s[n + 1])
               g == [i \in 1..Len(u) |-> IF i <= Len(t) THEN f[i] ELSE n + 1]
    <2>1. /\ Len(t) \in Nat /\ Len(u) = Len(t) + 1
          /\ \A i \in 1..Len(t) : u[i] = t[i]
          /\ u[Len(t) + 1] = s[n + 1]
      BY <1>2, LenProperties, AppendProperties
    <2> HIDE DEF u
    <2>2. \A i \in 1..Len(u) : i \in 1..Len(t) \/ i = Len(t) + 1
      BY <2>1
    <2>3. \A i \in 1..Len(t) : f[i] \in 1..n /\ g[i] = f[i]
      <3>1. \A i \in 1..Len(t) : i \in 1..Len(u) /\ i <= Len(t)
        BY <2>1
      <3>2. \A i \in 1..Len(t) : f[i] \in 1..n
        BY <1>3 DEF PicksBy
      <3> QED BY <3>1, <3>2
    <2>4. g[Len(t) + 1] = n + 1 /\ g \in [1..Len(u) -> 1..(n + 1)]
      <3>1. Len(t) + 1 \in 1..Len(u) /\ ~(Len(t) + 1 <= Len(t))
        BY <2>1
      <3>2. \A i \in 1..Len(u) : i <= Len(t) => f[i] \in 1..(n + 1)
        <4> HIDE DEF g
        <4>1. \A i \in 1..Len(u) : i <= Len(t) => i \in 1..Len(t)
          BY <2>1
        <4>2. \A i \in 1..n : i \in 1..(n + 1)
          OBVIOUS
        <4> QED BY <2>3, <4>1, <4>2
      <3>3. n + 1 \in 1..(n + 1)
        OBVIOUS
      <3> QED BY <3>1, <3>2, <3>3
    <2> HIDE DEF g
    <2>5. \A i \in 1..Len(u) : u[i] = s[g[i]] /\ u[i] \in S
      BY <1>3, <1>5, <2>1, <2>2, <2>3, <2>4 DEF PicksBy
    <2>6. \A i, j \in 1..Len(u) : i < j => g[i] < g[j]
      BY <1>3, <2>1, <2>2, <2>3, <2>4 DEF PicksBy
    <2>7. ASSUME NEW h \in 1..(n + 1), s[h] \in S PROVE \E i \in 1..Len(u) : g[i] = h
      <3>1. CASE h = n + 1
        BY <2>1, <2>4, <3>1
      <3>2. CASE h # n + 1
        <4>1. h \in 1..n
          BY <3>2
        <4>2. PICK i \in 1..Len(t) : f[i] = h
          BY <1>3, <2>7, <4>1 DEF PicksBy
        <4> QED BY <2>1, <2>3, <4>2
      <3> QED BY <3>1, <3>2
    <2>8. Picks(u, s, S, n + 1)
      BY <2>4, <2>5, <2>6, <2>7 DEF PicksBy, Picks
    <2> QED BY <1>2, <1>5, <2>8 DEF u
  <1> QED BY <1>4, <1>5

KeepStep(kept, s, S, i) ==
    IF i = 0 THEN <<>>
    ELSE IF s[i] \in S THEN Append(kept[i - 1], s[i]) ELSE kept[i - 1]

\* Keep is what its recursion says: the elements of S, in their order.
LEMMA KeepIs ==
    ASSUME NEW X, NEW s \in Seq(X), NEW S
    PROVE  Keep(s, S) \in Seq(X) /\ Picks(Keep(s, S), s, S, Len(s))
  <1> DEFINE L == Len(s)
             Good(g, n) == /\ g \in [0..n -> Seq(X)]
                           /\ \A i \in 0..n : g[i] = KeepStep(g, s, S, i) /\ Picks(g[i], s, S, i)
             Some(n) == n <= L => \E g : Good(g, n)
             T == {n \in Nat : Some(n)}
  <1>1. L \in Nat
    BY LenProperties
  <1> HIDE DEF L
  <1>2. Some(0)
    <2> DEFINE g == [i \in 0..0 |-> <<>>]
    <2>1. g \in [0..0 -> Seq(X)] /\ g[0] = <<>> /\ \A i \in 0..0 : i = 0
      BY EmptySeq
    <2>2. PicksBy([i \in 1..0 |-> 0], <<>>, s, S, 0)
      <3>1. Len(<<>>) = 0 /\ 1..0 = {}
        BY EmptySeq
      <3> QED BY <3>1 DEF PicksBy
    <2>3. KeepStep(g, s, S, 0) = <<>>
      BY DEF KeepStep
    <2> HIDE DEF g
    <2>4. \A i \in 0..0 : g[i] = KeepStep(g, s, S, i) /\ Picks(g[i], s, S, i)
      BY <2>1, <2>2, <2>3 DEF Picks
    <2> QED BY <2>1, <2>4
  <1>3. ASSUME NEW n \in Nat, Some(n) PROVE Some(n + 1)
    <2> SUFFICES ASSUME n + 1 <= L PROVE \E g : Good(g, n + 1)
      BY Zenon
    <2>1. PICK g : Good(g, n)
      <3>1. n <= L
        BY <1>1
      <3> QED BY <1>3, <3>1, Zenon
    <2>2. g \in [0..n -> Seq(X)] /\ n \in 0..n
      BY <2>1
    <2> DEFINE c == IF s[n + 1] \in S THEN Append(g[n], s[n + 1]) ELSE g[n]
    <2>3. g[n] \in Seq(X) /\ Picks(g[n], s, S, n)
      BY <2>1, <2>2
    <2>4. s[n + 1] \in X /\ Picks(c, s, S, n + 1)
      BY <2>3, PickNext DEF L
    <2>5. c \in Seq(X)
      BY <2>3, <2>4, AppendProperties
    <2> HIDE DEF c
    <2> DEFINE h == [i \in 0..(n + 1) |-> IF i <= n THEN g[i] ELSE c]
    <2>6. \A i \in 0..(n + 1) : i \in 0..n \/ i = n + 1
      OBVIOUS
    <2>7. h \in [0..(n + 1) -> Seq(X)] /\ h[n + 1] = c /\ \A i \in 0..n : h[i] = g[i]
      <3>1. \A i \in 0..n : g[i] \in Seq(X) /\ i <= n
        BY <2>2
      <3> QED BY <2>5, <2>6, <3>1
    <2> HIDE DEF h
    <2>8. ASSUME NEW i \in 0..n PROVE h[i] = KeepStep(h, s, S, i) /\ Picks(h[i], s, S, i)
      <3>1. h[i] = KeepStep(g, s, S, i) /\ Picks(h[i], s, S, i)
        BY <2>1, <2>7
      <3>2. KeepStep(g, s, S, i) = KeepStep(h, s, S, i)
        <4>1. CASE i = 0
          BY <4>1 DEF KeepStep
        <4>2. CASE i # 0
          <5>1. i - 1 \in 0..n
            BY <4>2
          <5>2. h[i - 1] = g[i - 1]
            BY <2>7, <5>1
          <5> QED BY <5>2 DEF KeepStep
        <4> QED BY <4>1, <4>2
      <3> QED BY <3>1, <3>2
    <2>9. h[n + 1] = KeepStep(h, s, S, n + 1)
      <3>1. n + 1 # 0 /\ (n + 1) - 1 = n /\ h[n] = g[n]
        BY <2>2, <2>7
      <3> QED BY <2>7, <3>1 DEF KeepStep, c
    <2>10. Good(h, n + 1)
      <3>1. Picks(h[n + 1], s, S, n + 1)
        BY <2>4, <2>7
      <3> QED BY <2>6, <2>7, <2>8, <2>9, <3>1
    <2> QED BY <2>10
  <1>4. Nat \subseteq T
    <2> HIDE DEF Some
    <2>1. 0 \in T /\ \A n \in Nat : n \in T => n + 1 \in T
      BY <1>2, <1>3
    <2> HIDE DEF T
    <2> QED BY <2>1, NatSetInduction
  <1>5. PICK g : Good(g, L)
    <2>1. Some(L) /\ L <= L
      <3> HIDE DEF Some
      <3> QED BY <1>1, <1>4
    <2> QED BY <2>1
  <1>6. g = [i \in 0..L |-> KeepStep(g, s, S, i)]
    BY <1>5
  <1> DEFINE f == CHOOSE f : f = [i \in 0..L |-> KeepStep(f, s, S, i)]
  <1>7. f = [i \in 0..L |-> KeepStep(f, s, S, i)]
    <2> HIDE DEF Good
    <2> QED BY <1>6, Zenon
  <1>8. Keep(s, S) = f[L]
    BY Zenon DEF Keep, KeepStep, L
  <1> HIDE DEF f
  <1> DEFINE Same(n) == n <= L => f[n] = g[n]
             U == {n \in Nat : Same(n)}
  <1>9. Same(0)
    <2>1. 0 \in 0..L
      BY <1>1
    <2> QED BY <1>6, <1>7, <2>1 DEF KeepStep
  <1>10. ASSUME NEW n \in Nat, Same(n) PROVE Same(n + 1)
    <2> SUFFICES ASSUME n + 1 <= L PROVE f[n + 1] = g[n + 1]
      OBVIOUS
    <2>1. n + 1 \in 0..L /\ (n + 1) - 1 = n /\ n + 1 # 0 /\ n <= L
      BY <1>1
    <2>2. f[n + 1] = KeepStep(f, s, S, n + 1) /\ g[n + 1] = KeepStep(g, s, S, n + 1)
      BY <1>5, <1>7, <2>1
    <2>3. f[n] = g[n]
      BY <1>10, <2>1
    <2> QED BY <2>1, <2>2, <2>3 DEF KeepStep
  <1>11. Nat \subseteq U
    <2> HIDE DEF Same
    <2>1. 0 \in U /\ \A n \in Nat : n \in U => n + 1 \in U
      BY <1>9, <1>10
    <2> HIDE DEF U
    <2> QED BY <2>1, NatSetInduction
  <1>12. f[L] = g[L]
    <2>1. Same(L) /\ L <= L
      <3> HIDE DEF Same
      <3> QED BY <1>1, <1>11
    <2> QED BY <2>1
  <1>13. g[L] \in Seq(X) /\ Picks(g[L], s, S, L)
    <2>1. L \in 0..L
      BY <1>1
    <2> QED BY <1>5, <2>1
  <1> QED BY <1>8, <1>12, <1>13 DEF L

(***************************************************************************)
(* Orders: who is in a sequence, who is before whom, and what keeps both.   *)
(***************************************************************************)
Has(r, k) == \E p \in 1..Len(r) : r[p] = k
Before(r, j, k) == \E p, q \in 1..Len(r) : p < q /\ r[p] = j /\ r[q] = k
Distinct(r) == \A p, q \in 1..Len(r) : r[p] = r[q] => p = q

\* t is what some elements of s are, in their order.
Within(t, s) ==
    \E f \in [1..Len(t) -> 1..Len(s)] :
        /\ \A i \in 1..Len(t) : t[i] = s[f[i]]
        /\ \A i, j \in 1..Len(t) : i < j => f[i] < f[j]

CacheEntry == [key : Keys, age : Ages, weight : Weights]

\* The entries s are in the order of r.
InOrder(s, r) ==
    /\ \A i \in 1..Len(s) : Has(r, s[i].key)
    /\ \A i, j \in 1..Len(s) : i < j => Before(r, s[i].key, s[j].key)

\* What was picked was there, and in S.
LEMMA PickedWithin ==
    ASSUME NEW t, NEW s, NEW S, Picks(t, s, S, Len(s))
    PROVE  Within(t, s) /\ \A i \in 1..Len(t) : t[i] \in S
  BY DEF Picks, PicksBy, Within

\* Taking entries out leaves the others in order.
LEMMA WithinInOrder ==
    ASSUME NEW t, NEW s, NEW r, Within(t, s), InOrder(s, r)
    PROVE  InOrder(t, r)
  <1>1. PICK f \in [1..Len(t) -> 1..Len(s)] :
              /\ \A i \in 1..Len(t) : t[i] = s[f[i]]
              /\ \A i, j \in 1..Len(t) : i < j => f[i] < f[j]
    BY DEF Within
  <1>2. \A i \in 1..Len(t) : f[i] \in 1..Len(s)
    BY <1>1
  <1> QED BY <1>1, <1>2 DEF InOrder

\* Taking out twice is taking out.
LEMMA WithinTransitive ==
    ASSUME NEW t, NEW s, NEW r, Within(t, s), Within(s, r)
    PROVE  Within(t, r)
  <1>1. PICK f \in [1..Len(t) -> 1..Len(s)] :
              /\ \A i \in 1..Len(t) : t[i] = s[f[i]]
              /\ \A i, j \in 1..Len(t) : i < j => f[i] < f[j]
    BY DEF Within
  <1>2. PICK g \in [1..Len(s) -> 1..Len(r)] :
              /\ \A i \in 1..Len(s) : s[i] = r[g[i]]
              /\ \A i, j \in 1..Len(s) : i < j => g[i] < g[j]
    BY DEF Within
  <1> DEFINE h == [i \in 1..Len(t) |-> g[f[i]]]
  <1>3. \A i \in 1..Len(t) : f[i] \in 1..Len(s) /\ g[f[i]] \in 1..Len(r)
    BY <1>1, <1>2
  <1>4. h \in [1..Len(t) -> 1..Len(r)] /\ \A i \in 1..Len(t) : h[i] = g[f[i]]
    BY <1>3
  <1> HIDE DEF h
  <1>5. \A i \in 1..Len(t) : t[i] = r[h[i]]
    BY <1>1, <1>2, <1>3, <1>4
  <1>6. \A i, j \in 1..Len(t) : i < j => h[i] < h[j]
    BY <1>1, <1>2, <1>3, <1>4
  <1> QED BY <1>4, <1>5, <1>6 DEF Within

\* There are n numbers up to n.
LEMMA UpToCount == \A n \in Nat : IsFiniteSet(1..n) /\ Cardinality(1..n) = n
  <1> TAKE n \in Nat
  <1>1. 1 \in Int /\ n \in Int
    OBVIOUS
  <1>2. IsFiniteSet(1..n) /\ Cardinality(1..n) = IF 1 > n THEN 0 ELSE n - 1 + 1
    BY <1>1, FS_Interval
  <1> QED BY <1>2

\* No more elements can be taken out of a sequence than it has.
LEMMA WithinIsShorter ==
    ASSUME NEW X, NEW t \in Seq(X), NEW s \in Seq(X), Within(t, s)
    PROVE  Len(t) <= Len(s)
  <1>1. Len(t) \in Nat /\ Len(s) \in Nat
    BY LenProperties
  <1>2. PICK f \in [1..Len(t) -> 1..Len(s)] :
              \A i, j \in 1..Len(t) : i < j => f[i] < f[j]
    BY DEF Within
  <1>3. f \in Injection(1..Len(t), 1..Len(s))
    <2>1. ASSUME NEW i \in 1..Len(t), NEW j \in 1..Len(t), f[i] = f[j] PROVE i = j
      <3>1. f[i] \in 1..Len(s) /\ f[j] \in 1..Len(s)
        BY <1>2
      <3> QED BY <1>1, <1>2, <2>1, <3>1
    <2> QED BY <2>1 DEF Injection, IsInjective
  <1> QED
    <2>1. Cardinality(1..Len(t)) <= Cardinality(1..Len(s))
      BY <1>1, <1>3, FS_Interval, FS_Injection
    <2> QED BY <1>1, <2>1, UpToCount

\* Youngest: the last n of s, or all of them.
LEMMA YoungestIs ==
    ASSUME NEW X, NEW s \in Seq(X), NEW n \in Nat
    PROVE  /\ Youngest(s, n) \in Seq(X)
           /\ Within(Youngest(s, n), s)
           /\ Len(Youngest(s, n)) = IF Len(s) > n THEN n ELSE Len(s)
  <1>1. Len(s) \in Nat /\ \A i \in 1..Len(s) : s[i] \in X
    BY LenProperties, ElementOfSeq
  <1>2. CASE Len(s) > n
    <2> DEFINE m == Len(s) - n
               t == SubSeq(s, m + 1, Len(s))
               f == [i \in 1..n |-> m + i]
    <2>1. m \in Nat /\ m + n = Len(s)
      BY <1>1, <1>2
    <2> HIDE DEF m
    <2>2. \A i \in (m + 1)..Len(s) : s[i] \in X
      BY <1>1, <2>1
    <2>3. /\ t \in Seq(X)
          /\ Len(t) = IF m + 1 <= Len(s) THEN Len(s) - (m + 1) + 1 ELSE 0
          /\ \A i \in 1..(Len(s) - (m + 1) + 1) : t[i] = s[(m + 1) + i - 1]
      BY <1>1, <2>1, <2>2, SubSeqProperties
    <2> HIDE DEF t
    <2>4. Len(t) = n /\ \A i \in 1..n : t[i] = s[m + i]
      BY <1>1, <2>1, <2>3
    <2>5. f \in [1..n -> 1..Len(s)] /\ \A i \in 1..n : f[i] = m + i
      BY <1>1, <2>1
    <2> HIDE DEF f
    <2>6. Within(t, s)
      <3>1. f \in [1..Len(t) -> 1..Len(s)]
        BY <2>4, <2>5
      <3>2. \A i \in 1..Len(t) : t[i] = s[f[i]]
        BY <2>4, <2>5
      <3>3. \A i, j \in 1..Len(t) : i < j => f[i] < f[j]
        BY <2>1, <2>4, <2>5
      <3> QED BY <3>1, <3>2, <3>3, Zenon DEF Within
    <2>7. Youngest(s, n) = t
      BY <1>2 DEF Youngest, t, m
    <2> QED BY <1>2, <2>3, <2>4, <2>6, <2>7
  <1>3. CASE ~(Len(s) > n)
    <2>1. Within(s, s)
      <3> DEFINE f == [i \in 1..Len(s) |-> i]
      <3>1. f \in [1..Len(s) -> 1..Len(s)] /\ \A i \in 1..Len(s) : f[i] = i
        OBVIOUS
      <3> HIDE DEF f
      <3> QED BY <3>1 DEF Within
    <2> QED BY <1>3, <2>1 DEF Youngest
  <1> QED BY <1>2, <1>3

\* A key that is used goes to the end, and the others keep their order.
LEMMA UsedIs ==
    ASSUME recent \in Seq(Keys), Distinct(recent), NEW k \in Keys
    PROVE  /\ Used(k) \in Seq(Keys)
           /\ Distinct(Used(k))
           /\ Has(Used(k), k)
           /\ \A j : Has(recent, j) /\ j # k => Has(Used(k), j) /\ Before(Used(k), j, k)
           /\ \A i, j : Before(recent, i, j) /\ i # k /\ j # k => Before(Used(k), i, j)
  <1> DEFINE t == Keep(recent, Keys \ {k})
             u == Append(t, k)
             n == Len(t)
             N == Len(recent)
  <1>1. t \in Seq(Keys) /\ Picks(t, recent, Keys \ {k}, N)
    BY KeepIs
  <1>2. PICK f : PicksBy(f, t, recent, Keys \ {k}, N)
    BY <1>1 DEF Picks
  <1> HIDE DEF t
  <1>3. /\ n \in Nat /\ N \in Nat
        /\ u \in Seq(Keys) /\ Len(u) = n + 1
        /\ \A i \in 1..n : u[i] = t[i]
        /\ u[n + 1] = k
    BY <1>1, LenProperties, AppendProperties
  <1>4. Used(k) = u
    BY DEF Used, t
  <1>5. \A p \in 1..N : recent[p] \in Keys
    BY ElementOfSeq
  <1> HIDE DEF u
  <1>6. /\ \A i \in 1..n : f[i] \in 1..N /\ u[i] = recent[f[i]] /\ u[i] # k
        /\ \A i, j \in 1..n : i < j => f[i] < f[j]
        /\ \A h \in 1..N : recent[h] # k => \E i \in 1..n : f[i] = h
    BY <1>2, <1>3, <1>5 DEF PicksBy
  <1>7. 1..Len(u) = 1..n \cup {n + 1} /\ \A i \in 1..n : i < n + 1
    BY <1>3
  <1> HIDE DEF n, N
  <1>8. Distinct(u)
    <2>1. ASSUME NEW p \in 1..n, NEW q \in 1..n, u[p] = u[q] PROVE p = q
      <3>1. recent[f[p]] = recent[f[q]] /\ f[p] \in 1..N /\ f[q] \in 1..N
        BY <1>6, <2>1
      <3>2. f[p] = f[q]
        BY <3>1 DEF Distinct, N
      <3>3. p \in Int /\ q \in Int /\ f[p] \in Int
        BY <3>1
      <3> QED BY <1>6, <3>2, <3>3
    <2> QED BY <1>3, <1>6, <1>7, <2>1 DEF Distinct
  <1>9. Has(u, k)
    BY <1>3, <1>7 DEF Has
  <1>10. ASSUME NEW j, Has(recent, j), j # k PROVE Has(u, j) /\ Before(u, j, k)
    <2>1. PICK h \in 1..N : recent[h] = j
      BY <1>10 DEF Has, N
    <2>2. PICK i \in 1..n : f[i] = h
      BY <1>6, <1>10, <2>1
    <2>3. u[i] = j /\ i \in 1..Len(u) /\ n + 1 \in 1..Len(u)
      BY <1>6, <1>7, <2>1, <2>2
    <2> QED BY <1>3, <1>7, <2>3 DEF Has, Before
  <1>11. ASSUME NEW i, NEW j, Before(recent, i, j), i # k, j # k PROVE Before(u, i, j)
    <2>1. PICK p \in 1..N, q \in 1..N : p < q /\ recent[p] = i /\ recent[q] = j
      BY <1>11 DEF Before, N
    <2>2. PICK a \in 1..n, b \in 1..n : f[a] = p /\ f[b] = q
      BY <1>6, <1>11, <2>1
    <2>3. u[a] = i /\ u[b] = j /\ a \in 1..Len(u) /\ b \in 1..Len(u)
      BY <1>6, <1>7, <2>1, <2>2
    <2>4. a < b
      <3>1. a \in Int /\ b \in Int /\ p \in Int /\ q \in Int
        BY <2>1, <2>2
      <3>2. ~(b < a) /\ b # a
        BY <1>6, <2>1, <2>2, <3>1
      <3> QED BY <3>1, <3>2
    <2> QED BY <2>3, <2>4 DEF Before
  <1> QED BY <1>3, <1>4, <1>8, <1>9, <1>10, <1>11

(***************************************************************************)
(* The cache: what holds of it between two operations.                      *)
(***************************************************************************)
CacheInv ==
    /\ entries \in Seq(CacheEntry)
    /\ Len(entries) <= MaxEntries
    /\ recent \in Seq(Keys)
    /\ Distinct(recent)
    /\ InOrder(entries, recent)
    /\ age \in [Keys -> Ages]
    /\ \A i \in 1..Len(entries) : entries[i].age = age[entries[i].key]
    /\ last \in {"none", "get", "miss", "set", "tick", "normal", "soft", "hard"}
    /\ last = "get" => Len(entries) # 0 /\ entries[Len(entries)].age <= MaxAge

\* An empty cache has the invariant.
LEMMA InitOfCache == CacheInit => CacheInv
  <1> SUFFICES ASSUME CacheInit PROVE CacheInv
    OBVIOUS
  <1>1. <<>> \in Seq(CacheEntry) /\ <<>> \in Seq(Keys) /\ Len(<<>>) = 0 /\ 1..0 = {}
    BY EmptySeq
  <1>2. MaxEntries \in Nat /\ 0 \in Ages
    BY CacheAssumption DEF Ages
  <1> QED BY <1>1, <1>2 DEF CacheInit, CacheInv, Distinct, InOrder

\* Entries in order of use have keys of their own.
LEMMA KeysDiffer ==
    ASSUME NEW s, NEW r, InOrder(s, r), Distinct(r),
           NEW i \in 1..Len(s), NEW j \in 1..Len(s), s[i].key = s[j].key
    PROVE  i = j
  <1>1. ASSUME NEW a \in 1..Len(s), NEW b \in 1..Len(s), a < b PROVE s[a].key # s[b].key
    <2>1. PICK p, q \in 1..Len(r) : p < q /\ r[p] = s[a].key /\ r[q] = s[b].key
      BY <1>1 DEF InOrder, Before
    <2> QED BY <2>1 DEF Distinct
  <1> QED BY <1>1

\* pruneExpired leaves entries that are not too old, and in their order.
LEMMA FreshIs ==
    ASSUME NEW s \in Seq(CacheEntry)
    PROVE  /\ Fresh(s) \in Seq(CacheEntry)
           /\ Within(Fresh(s), s)
           /\ \A i \in 1..Len(Fresh(s)) : Fresh(s)[i].age <= MaxAge
  <1> DEFINE S == {e \in Range(s) : e.age <= MaxAge}
             t == Keep(s, S)
  <1>1. Fresh(s) = t
    BY DEF Fresh
  <1> HIDE DEF S
  <1>2. t \in Seq(CacheEntry) /\ Picks(t, s, S, Len(s))
    BY KeepIs
  <1> HIDE DEF t
  <1>3. Within(t, s) /\ \A i \in 1..Len(t) : t[i] \in S
    BY <1>2, PickedWithin
  <1>4. \A e \in S : e.age <= MaxAge
    BY DEF S
  <1> QED BY <1>1, <1>2, <1>3, <1>4

\* Deleting a key leaves the entries of the others.
LEMMA WithoutIs ==
    ASSUME NEW s \in Seq(CacheEntry), NEW k
    PROVE  /\ Without(s, k) \in Seq(CacheEntry)
           /\ Within(Without(s, k), s)
           /\ \A i \in 1..Len(Without(s, k)) : Without(s, k)[i].key # k
  <1> DEFINE S == {e \in Range(s) : e.key # k}
             t == Keep(s, S)
  <1>1. Without(s, k) = t
    BY DEF Without
  <1> HIDE DEF S
  <1>2. t \in Seq(CacheEntry) /\ Picks(t, s, S, Len(s))
    BY KeepIs
  <1> HIDE DEF t
  <1>3. Within(t, s) /\ \A i \in 1..Len(t) : t[i] \in S
    BY <1>2, PickedWithin
  <1>4. \A e \in S : e.key # k
    BY DEF S
  <1> QED BY <1>1, <1>2, <1>3, <1>4

\* What a hit finds is one entry, of this key.
LEMMA WithIs ==
    ASSUME NEW s \in Seq(CacheEntry), NEW r, InOrder(s, r), Distinct(r), NEW k,
           With(s, k) # <<>>
    PROVE  \E e \in CacheEntry, h \in 1..Len(s) :
             With(s, k) = <<e>> /\ s[h] = e /\ e.key = k
  <1> DEFINE S == {e \in Range(s) : e.key = k}
             t == Keep(s, S)
  <1>1. With(s, k) = t
    BY DEF With
  <1>2. \A e \in S : e.key = k
    OBVIOUS
  <1> HIDE DEF S
  <1>3. t \in Seq(CacheEntry) /\ Picks(t, s, S, Len(s))
    BY KeepIs
  <1> HIDE DEF t
  <1>4. PICK f : PicksBy(f, t, s, S, Len(s))
    BY <1>3 DEF Picks
  <1>5. Len(t) \in Nat /\ Len(t) # 0
    BY <1>1, <1>3, LenProperties, EmptySeq
  <1>6. \A i \in 1..Len(t) : t[i] = s[f[i]] /\ t[i].key = k /\ f[i] \in 1..Len(s)
    BY <1>2, <1>4 DEF PicksBy
  <1>7. Len(t) = 1
    <2> SUFFICES ASSUME Len(t) # 1 PROVE FALSE
      OBVIOUS
    <2>1. 1 \in 1..Len(t) /\ 2 \in 1..Len(t)
      <3>1. \A n \in Nat : n # 0 /\ n # 1 => 1 \in 1..n /\ 2 \in 1..n
        OBVIOUS
      <3> QED BY <1>5, <3>1
    <2>2. f[1] < f[2] /\ f[1] \in 1..Len(s) /\ f[2] \in 1..Len(s)
      BY <1>4, <1>6, <2>1 DEF PicksBy
    <2>3. s[f[1]].key = s[f[2]].key
      BY <1>6, <2>1
    <2>4. f[1] = f[2]
      BY <2>2, <2>3, KeysDiffer
    <2> QED BY <2>2, <2>4
  <1>8. t[1] \in CacheEntry /\ t = <<t[1]>>
    <2>1. t[1] \in CacheEntry
      <3>1. 1 \in 1..Len(t)
        BY <1>7
      <3> QED BY <1>3, <3>1, ElementOfSeq
    <2> DEFINE u == <<t[1]>>
    <2>2. u \in Seq(CacheEntry) /\ Len(u) = 1 /\ u[1] = t[1]
      BY <2>1
    <2> HIDE DEF u
    <2>3. \A i \in 1..Len(t) : t[i] = u[i]
      BY <1>7, <2>2
    <2>4. t = u
      BY <1>3, <1>7, <2>2, <2>3, SeqEqual
    <2> QED BY <2>1, <2>4 DEF u
  <1> QED BY <1>1, <1>6, <1>7, <1>8

\* An entry that is taken out leaves room for itself.
LEMMA RoomForHit ==
    ASSUME NEW t \in Seq(CacheEntry), NEW s \in Seq(CacheEntry), Within(t, s),
           NEW k, \A i \in 1..Len(t) : t[i].key # k,
           NEW h \in 1..Len(s), s[h].key = k
    PROVE  Len(t) + 1 <= Len(s)
  <1>1. Len(t) \in Nat /\ Len(s) \in Nat
    BY LenProperties
  <1>2. PICK f \in [1..Len(t) -> 1..Len(s)] :
              /\ \A i \in 1..Len(t) : t[i] = s[f[i]]
              /\ \A i, j \in 1..Len(t) : i < j => f[i] < f[j]
    BY DEF Within
  <1> DEFINE n == Len(t) + 1
             g == [i \in 1..n |-> IF i <= Len(t) THEN f[i] ELSE h]
  <1>3. n \in Nat /\ n \in 1..n /\ \A i \in 1..n : i \in 1..Len(t) \/ i = n
    BY <1>1
  <1>4. \A i \in 1..Len(t) : i \in 1..n /\ g[i] = f[i]
    BY <1>1
  <1>5. g[n] = h
    BY <1>1
  <1> HIDE DEF g, n
  <1>6. ASSUME NEW i \in 1..n PROVE g[i] \in 1..Len(s)
    BY <1>2, <1>3, <1>4, <1>5
  <1>7. ASSUME NEW i \in 1..n, NEW j \in 1..n, g[i] = g[j] PROVE i = j
    <2>1. \A a \in 1..Len(t) : g[a] # g[n]
      BY <1>2, <1>4, <1>5
    <2>2. CASE i \in 1..Len(t) /\ j \in 1..Len(t)
      <3>1. f[i] = f[j] /\ f[i] \in 1..Len(s) /\ f[j] \in 1..Len(s)
        BY <1>2, <1>4, <1>7, <2>2
      <3> QED BY <1>2, <2>2, <3>1
    <2> QED BY <1>3, <1>7, <2>1, <2>2
  <1>8. g \in [1..n -> 1..Len(s)]
    BY <1>6 DEF g
  <1>9. g \in Injection(1..n, 1..Len(s))
    BY <1>7, <1>8 DEF Injection, IsInjective
  <1>10. Cardinality(1..n) <= Cardinality(1..Len(s))
    BY <1>1, <1>9, UpToCount, FS_Injection
  <1> QED BY <1>1, <1>3, <1>10, UpToCount DEF n

\* The entry used last goes to the end, as its key does.
LEMMA AppendInOrder ==
    ASSUME recent \in Seq(Keys), Distinct(recent),
           NEW s \in Seq(CacheEntry), InOrder(s, recent),
           NEW e \in CacheEntry, NEW k \in Keys, e.key = k, \A i \in 1..Len(s) : s[i].key # k
    PROVE  InOrder(Append(s, e), Used(k))
  <1> DEFINE u == Append(s, e)
             n == Len(s)
             r == Used(k)
  <1>1. /\ n \in Nat /\ Len(u) = n + 1
        /\ \A i \in 1..n : u[i] = s[i]
        /\ u[n + 1] = e
    BY LenProperties, AppendProperties
  <1>2. /\ Has(r, k)
        /\ \A j : Has(recent, j) /\ j # k => Has(r, j) /\ Before(r, j, k)
        /\ \A i, j : Before(recent, i, j) /\ i # k /\ j # k => Before(r, i, j)
    BY UsedIs
  <1>3. /\ \A i \in 1..n : Has(recent, s[i].key) /\ s[i].key # k
        /\ \A i, j \in 1..n : i < j => Before(recent, s[i].key, s[j].key)
    BY DEF InOrder
  <1> HIDE DEF u, n, r
  <1>4. \A i \in 1..Len(u) : i \in 1..n \/ i = n + 1
    BY <1>1
  <1>5. ASSUME NEW i \in 1..Len(u) PROVE Has(r, u[i].key)
    BY <1>1, <1>2, <1>3, <1>4
  <1>6. ASSUME NEW i \in 1..Len(u), NEW j \in 1..Len(u), i < j
        PROVE  Before(r, u[i].key, u[j].key)
    <2>1. i \in 1..n
      BY <1>1, <1>4, <1>6
    <2>2. CASE j \in 1..n
      BY <1>1, <1>2, <1>3, <1>6, <2>1, <2>2
    <2>3. CASE j = n + 1
      BY <1>1, <1>2, <1>3, <2>1, <2>3
    <2> QED BY <1>4, <2>2, <2>3
  <1>7. InOrder(u, r)
    BY <1>5, <1>6 DEF InOrder
  <1> QED BY <1>7 DEF u, r

\* What is said of every entry is said of those that are left.
LEMMA WithinAges ==
    ASSUME NEW t, NEW s, Within(t, s), NEW a, \A i \in 1..Len(s) : s[i].age = a[s[i].key]
    PROVE  \A i \in 1..Len(t) : t[i].age = a[t[i].key]
  BY DEF Within

\* get: prune, delete, insert again, all of one entry at most.
LEMMA GetKeeps ==
    ASSUME CacheInv, NEW k \in Keys, Get(k)
    PROVE  CacheInv'
  <1> DEFINE fresh == Fresh(entries)
             hit == With(fresh, k)
             rest == Without(fresh, k)
  <1>1. /\ entries' = rest \o hit
        /\ recent' = IF hit # <<>> THEN Used(k) ELSE recent
        /\ last' = IF hit # <<>> THEN "get" ELSE "miss"
        /\ age' = age
    BY DEF Get
  <1>2. /\ entries \in Seq(CacheEntry) /\ Len(entries) <= MaxEntries /\ MaxEntries \in Nat
        /\ recent \in Seq(Keys) /\ Distinct(recent) /\ InOrder(entries, recent)
        /\ age \in [Keys -> Ages]
        /\ \A i \in 1..Len(entries) : entries[i].age = age[entries[i].key]
    BY CacheAssumption DEF CacheInv
  <1>3. /\ fresh \in Seq(CacheEntry) /\ Within(fresh, entries)
        /\ \A i \in 1..Len(fresh) : fresh[i].age <= MaxAge
    BY <1>2, FreshIs
  <1> HIDE DEF fresh
  <1>4. /\ rest \in Seq(CacheEntry) /\ Within(rest, fresh)
        /\ \A i \in 1..Len(rest) : rest[i].key # k
    BY <1>3, WithoutIs
  <1> HIDE DEF rest
  <1>5. Within(rest, entries)
    BY <1>3, <1>4, WithinTransitive
  <1>6. InOrder(fresh, recent) /\ InOrder(rest, recent)
    BY <1>2, <1>3, <1>5, WithinInOrder
  <1>7. /\ \A i \in 1..Len(fresh) : fresh[i].age = age[fresh[i].key]
        /\ \A i \in 1..Len(rest) : rest[i].age = age[rest[i].key]
    BY <1>2, <1>3, <1>5, WithinAges
  <1>8. /\ Len(fresh) <= Len(entries) /\ Len(rest) <= Len(entries)
        /\ Len(entries) \in Nat /\ Len(fresh) \in Nat /\ Len(rest) \in Nat
    BY <1>2, <1>3, <1>4, <1>5, WithinIsShorter, LenProperties
  <1>9. CASE hit = <<>>
    <2>1. entries' = rest
      BY <1>1, <1>4, <1>9, ConcatEmptySeq
    <2>2. recent' = recent /\ last' = "miss"
      BY <1>1, <1>9
    <2>3. Len(rest) <= MaxEntries
      BY <1>2, <1>8
    <2> QED BY <1>1, <1>2, <1>4, <1>6, <1>7, <2>1, <2>2, <2>3 DEF CacheInv
  <1>10. CASE hit # <<>>
    <2>1. PICK e \in CacheEntry, h \in 1..Len(fresh) :
                hit = <<e>> /\ fresh[h] = e /\ e.key = k
      BY <1>2, <1>3, <1>6, <1>10, WithIs
    <2> HIDE DEF hit
    <2>2. entries' = Append(rest, e)
      BY <1>1, <1>4, <2>1, AppendIsConcat
    <2>3. recent' = Used(k) /\ last' = "get"
      BY <1>1, <1>10
    <2>4. entries' \in Seq(CacheEntry) /\ Len(entries') = Len(rest) + 1
          /\ (\A i \in 1..Len(rest) : entries'[i] = rest[i]) /\ entries'[Len(rest) + 1] = e
      BY <1>4, <2>2, AppendProperties
    <2>5. Len(rest) + 1 <= Len(fresh)
      BY <1>3, <1>4, <2>1, RoomForHit
    <2>6. Len(entries') <= MaxEntries /\ Len(entries') # 0
      BY <1>2, <1>8, <2>4, <2>5
    <2>7. InOrder(entries', recent')
      BY <1>2, <1>4, <1>6, <2>1, <2>2, <2>3, AppendInOrder
    <2>8. recent' \in Seq(Keys) /\ Distinct(recent')
      BY <1>2, <2>3, UsedIs
    <2>9. e.age = age[e.key] /\ e.age <= MaxAge
      BY <1>3, <1>7, <2>1
    <2>10. \A i \in 1..Len(entries') : entries'[i].age = age'[entries'[i].key]
      <3>1. \A i \in 1..Len(entries') : i \in 1..Len(rest) \/ i = Len(rest) + 1
        BY <1>8, <2>4
      <3> QED BY <1>1, <1>7, <2>4, <2>9, <3>1
    <2>11. entries'[Len(entries')].age <= MaxAge
      BY <2>4, <2>9
    <2> QED BY <1>1, <1>2, <2>3, <2>4, <2>6, <2>7, <2>8, <2>10, <2>11 DEF CacheInv
  <1> QED BY <1>9, <1>10

\* set: prune, delete, insert, evict to the limit.
LEMMA SetKeeps ==
    ASSUME CacheInv, NEW k \in Keys, NEW weight \in Weights,
           Set(k, weight)
    PROVE  CacheInv'
  <1> DEFINE fresh == Fresh(entries)
             rest == Without(fresh, k)
             e == [key |-> k, age |-> 0, weight |-> weight]
             all == Append(rest, e)
  <1>1. /\ entries' = Youngest(all, MaxEntries)
        /\ recent' = Used(k)
        /\ age' = [age EXCEPT ![k] = 0]
        /\ last' = "set"
    BY DEF Set
  <1>2. /\ entries \in Seq(CacheEntry) /\ MaxEntries \in Nat /\ MaxAge \in Nat
        /\ recent \in Seq(Keys) /\ Distinct(recent) /\ InOrder(entries, recent)
        /\ age \in [Keys -> Ages]
        /\ \A i \in 1..Len(entries) : entries[i].age = age[entries[i].key]
    BY CacheAssumption DEF CacheInv
  <1>3. fresh \in Seq(CacheEntry) /\ Within(fresh, entries)
    BY <1>2, FreshIs
  <1> HIDE DEF fresh
  <1>4. /\ rest \in Seq(CacheEntry) /\ Within(rest, fresh)
        /\ \A i \in 1..Len(rest) : rest[i].key # k
    BY <1>3, WithoutIs
  <1> HIDE DEF rest
  <1>5. Within(rest, entries)
    BY <1>3, <1>4, WithinTransitive
  <1>6. InOrder(rest, recent) /\ \A i \in 1..Len(rest) : rest[i].age = age[rest[i].key]
    BY <1>2, <1>5, WithinInOrder, WithinAges
  <1>7. 0 \in Ages
    BY <1>2 DEF Ages
  <1>8. e \in CacheEntry /\ e.key = k /\ e.age = 0
    BY <1>7 DEF CacheEntry
  <1> HIDE DEF e
  <1>9. /\ all \in Seq(CacheEntry) /\ Len(all) = Len(rest) + 1 /\ Len(rest) \in Nat
        /\ \A i \in 1..Len(rest) : all[i] = rest[i]
        /\ all[Len(rest) + 1] = e
    BY <1>4, <1>8, AppendProperties, LenProperties
  <1>10. InOrder(all, recent')
    BY <1>1, <1>2, <1>4, <1>6, <1>8, AppendInOrder
  <1> HIDE DEF all
  <1>11. age' \in [Keys -> Ages] /\ age'[k] = 0 /\ \A j \in Keys : j # k => age'[j] = age[j]
    BY <1>1, <1>2, <1>7
  <1>12. \A i \in 1..Len(all) : all[i].age = age'[all[i].key]
    <2>1. \A i \in 1..Len(all) : i \in 1..Len(rest) \/ i = Len(rest) + 1
      BY <1>9
    <2>2. \A i \in 1..Len(rest) : rest[i].key \in Keys
      <3>1. \A i \in 1..Len(rest) : rest[i] \in CacheEntry
        BY <1>4, ElementOfSeq
      <3> QED BY <3>1 DEF CacheEntry
    <2> QED BY <1>4, <1>6, <1>8, <1>9, <1>11, <2>1, <2>2
  <1>13. /\ entries' \in Seq(CacheEntry) /\ Within(entries', all)
         /\ Len(entries') <= MaxEntries
    BY <1>1, <1>2, <1>9, YoungestIs
  <1>14. InOrder(entries', recent')
    BY <1>10, <1>13, WithinInOrder
  <1>15. \A i \in 1..Len(entries') : entries'[i].age = age'[entries'[i].key]
    BY <1>12, <1>13, WithinAges
  <1>16. recent' \in Seq(Keys) /\ Distinct(recent')
    BY <1>1, <1>2, UsedIs
  <1> QED BY <1>1, <1>11, <1>13, <1>14, <1>15, <1>16 DEF CacheInv

\* How many entries memory pressure leaves.
Leaves(n, s, state) ==
    /\ n = 0 \/ Meets(Youngest(s, n), state)
    /\ \A m \in (n + 1)..Len(s) : ~Meets(Youngest(s, m), state)

\* The eviction loop ends: with the most entries that meet the target, or none.
LEMMA SomeAreLeft ==
    ASSUME NEW s \in Seq(CacheEntry), NEW state
    PROVE  \E n \in 0..Len(s) : Leaves(n, s, state)
  <1>1. Len(s) \in Nat
    BY LenProperties
  <1> DEFINE Good == {n \in 0..Len(s) : n = 0 \/ Meets(Youngest(s, n), state)}
             Left == {Len(s) - n : n \in Good}
  <1>3. Left \subseteq Nat /\ Len(s) - 0 \in Left
    BY <1>1
  <1> HIDE DEF Left
  <1>4. PICK x \in Left : \A y \in Left : ~(<<y, x>> \in Less)
    BY <1>3, LessIsWellFounded, WFMin, Zenon
  <1>5. PICK n \in Good : x = Len(s) - n
    BY <1>4 DEF Left
  <1>6. ASSUME NEW m \in (n + 1)..Len(s), Meets(Youngest(s, m), state) PROVE FALSE
    <2>1. m \in Good /\ m > n
      BY <1>1, <1>5, <1>6
    <2>2. m \in 0..Len(s) /\ n \in 0..Len(s)
      BY <1>5, <2>1
    <2> HIDE DEF Good
    <2>3. Len(s) - m \in Left
      BY <2>1 DEF Left
    <2>4. Len(s) - m < x /\ Len(s) - m \in Nat /\ x \in Nat
      BY <1>1, <1>5, <2>1, <2>2
    <2> QED BY <1>4, <2>3, <2>4 DEF Less
  <1> QED BY <1>5, <1>6 DEF Leaves

\* Where the elements of Youngest are in s.
LEMMA YoungestAt ==
    ASSUME NEW X, NEW s \in Seq(X), NEW n \in 0..Len(s)
    PROVE  /\ Youngest(s, n) \in Seq(X) /\ Len(Youngest(s, n)) = n
           /\ \A i \in 1..n : Youngest(s, n)[i] = s[(Len(s) - n) + i]
  <1>1. Len(s) \in Nat /\ n \in Nat
    BY LenProperties
  <1>2. Youngest(s, n) \in Seq(X) /\ Len(Youngest(s, n)) = n
    BY <1>1, YoungestIs
  <1>3. \A i \in 1..n : Youngest(s, n)[i] = s[(Len(s) - n) + i]
    <2>1. CASE Len(s) > n
      <3> DEFINE m == (Len(s) - n) + 1
      <3>1. m \in Nat /\ m >= 1 /\ (Len(s) - m) + 1 = n
        BY <1>1, <2>1
      <3>2. \A i \in m..Len(s) : s[i] \in X
        BY <1>1, <3>1, ElementOfSeq
      <3>3. Youngest(s, n) = SubSeq(s, m, Len(s))
        BY <2>1 DEF Youngest
      <3> HIDE DEF m
      <3>4. \A i \in 1..((Len(s) - m) + 1) : SubSeq(s, m, Len(s))[i] = s[(m + i) - 1]
        BY <1>1, <3>1, <3>2, SubSeqProperties
      <3>5. \A i \in 1..n : (m + i) - 1 = (Len(s) - n) + i
        BY <1>1 DEF m
      <3> QED BY <3>1, <3>3, <3>4, <3>5
    <2>2. CASE ~(Len(s) > n)
      <3>1. Youngest(s, n) = s /\ \A i \in 1..n : (Len(s) - n) + i = i
        BY <1>1, <2>2 DEF Youngest
      <3> QED BY <3>1
    <2> QED BY <2>1, <2>2
  <1> QED BY <1>2, <1>3

\* Evicting the oldest of the n youngest leaves the n - 1 youngest.
LEMMA EvictOne ==
    ASSUME NEW X, NEW s \in Seq(X), NEW n \in 1..Len(s)
    PROVE  Youngest(s, n) # <<>> /\ Tail(Youngest(s, n)) = Youngest(s, n - 1)
  <1> DEFINE y == Youngest(s, n)
             z == Youngest(s, n - 1)
  <1>1. Len(s) \in Nat /\ n \in 0..Len(s) /\ n - 1 \in 0..Len(s) /\ n \in Nat /\ n - 1 \in Nat
    BY LenProperties
  <1>2. y \in Seq(X) /\ Len(y) = n /\ \A i \in 1..n : y[i] = s[(Len(s) - n) + i]
    BY <1>1, YoungestAt
  <1>3. /\ z \in Seq(X) /\ Len(z) = n - 1
        /\ \A i \in 1..(n - 1) : z[i] = s[(Len(s) - (n - 1)) + i]
    BY <1>1, YoungestAt
  <1> HIDE DEF y, z
  <1>4. y # <<>>
    BY <1>1, <1>2, EmptySeq
  <1>5. /\ Tail(y) \in Seq(X) /\ Len(Tail(y)) = n - 1
        /\ \A i \in 1..(n - 1) : Tail(y)[i] = y[i + 1]
    BY <1>1, <1>2, <1>4, HeadTailProperties
  <1>6. \A i \in 1..(n - 1) : Tail(y)[i] = z[i]
    <2> TAKE i \in 1..(n - 1)
    <2>1. i + 1 \in 1..n /\ (Len(s) - n) + (i + 1) = (Len(s) - (n - 1)) + i
      BY <1>1
    <2> QED BY <1>2, <1>3, <1>5, <2>1
  <1>7. Tail(y) = z
    BY <1>3, <1>5, <1>6, SeqEqual
  <1> QED BY <1>4, <1>7 DEF y, z

EvictStep(after, s, state, n) ==
    IF n = 0 THEN s
    ELSE IF after[n - 1] = <<>> \/ Meets(after[n - 1], state)
         THEN after[n - 1]
         ELSE Tail(after[n - 1])

\* The loop of handleMemoryPressure computes what Leaves says: pass by pass it
\* has evicted one more, until as many are left as should be.
LEMMA EvictUntilMetIs ==
    ASSUME NEW s \in Seq(CacheEntry), NEW state
    PROVE  \E n \in 0..Len(s) :
             Leaves(n, s, state) /\ EvictUntilMet(s, state) = Youngest(s, n)
  <1> DEFINE L == Len(s)
  <1>1. L \in Nat
    BY LenProperties
  <1>2. PICK k \in 0..L : Leaves(k, s, state)
    BY SomeAreLeft
  <1> DEFINE left(n) == IF L - n >= k THEN L - n ELSE k
             g == [n \in 0..L |-> Youngest(s, left(n))]
  <1>3. g[0] = s
    <2>1. 0 \in 0..L /\ left(0) = L /\ ~(L > L)
      BY <1>1
    <2> QED BY <2>1 DEF Youngest
  <1>4. ASSUME NEW n \in 1..L PROVE g[n] = EvictStep(g, s, state, n)
    <2>1. n - 1 \in 0..L /\ n \in 0..L /\ n # 0
      BY <1>1
    <2>2. g[n] = Youngest(s, left(n)) /\ g[n - 1] = Youngest(s, left(n - 1))
      BY <2>1
    <2>3. CASE L - n >= k
      <3>1. /\ left(n) = L - n /\ left(n - 1) = (L - n) + 1
            /\ (L - n) + 1 \in 1..L /\ (L - n) + 1 \in (k + 1)..L
            /\ ((L - n) + 1) - 1 = L - n
        BY <1>1, <2>3
      <3>2. ~Meets(g[n - 1], state)
        <4>1. ~Meets(Youngest(s, (L - n) + 1), state)
          BY <1>2, <3>1 DEF Leaves
        <4> QED BY <2>2, <3>1, <4>1
      <3>3. g[n - 1] # <<>> /\ Tail(g[n - 1]) = g[n]
        BY <2>2, <3>1, EvictOne
      <3> HIDE DEF g
      <3> QED BY <2>1, <3>2, <3>3 DEF EvictStep
    <2>4. CASE ~(L - n >= k)
      <3>1. left(n) = k /\ left(n - 1) = k
        BY <1>1, <2>4
      <3>2. g[n] = g[n - 1] /\ g[n - 1] = Youngest(s, k)
        BY <2>2, <3>1
      <3>3. g[n - 1] = <<>> \/ Meets(g[n - 1], state)
        <4>1. CASE k = 0
          <5>1. Len(Youngest(s, k)) = 0 /\ Youngest(s, k) \in Seq(CacheEntry)
            BY <4>1, <1>1, YoungestAt
          <5> QED BY <3>2, <5>1, EmptySeq
        <4>2. CASE k # 0
          BY <1>2, <3>2, <4>2 DEF Leaves
        <4> QED BY <4>1, <4>2
      <3> HIDE DEF g
      <3> QED BY <2>1, <3>2, <3>3 DEF EvictStep
    <2> QED BY <2>3, <2>4
  <1>5. g[L] = Youngest(s, k) /\ DOMAIN g = 0..L
    <2>1. L \in 0..L /\ left(L) = k
      BY <1>1
    <2> QED BY <2>1
  <1>6. g = [n \in 0..L |-> EvictStep(g, s, state, n)]
    <2>1. \A n \in 0..L : n = 0 \/ n \in 1..L
      BY <1>1
    <2>2. \A n \in 0..L : g[n] = EvictStep(g, s, state, n)
      <3>1. EvictStep(g, s, state, 0) = s
        BY DEF EvictStep
      <3> HIDE DEF g
      <3> QED BY <1>3, <1>4, <2>1, <3>1
    <2>3. g = [n \in 0..L |-> g[n]]
      OBVIOUS
    <2> HIDE DEF g
    <2> QED BY <2>2, <2>3
  <1> HIDE DEF g, L
  <1> DEFINE f == CHOOSE f : f = [n \in 0..L |-> EvictStep(f, s, state, n)]
  <1>7. f = [n \in 0..L |-> EvictStep(f, s, state, n)]
    BY <1>6, Zenon
  <1>8. EvictUntilMet(s, state) = f[L]
    BY Zenon DEF EvictUntilMet, EvictStep, L
  <1> HIDE DEF f
  <1> DEFINE Same(n) == n <= L => f[n] = g[n]
             U == {n \in Nat : Same(n)}
  <1>9. Same(0)
    <2>1. 0 \in 0..L
      BY <1>1
    <2>2. f[0] = s
      BY <1>7, <2>1 DEF EvictStep
    <2> QED BY <1>3, <2>2
  <1>10. ASSUME NEW n \in Nat, Same(n) PROVE Same(n + 1)
    <2> SUFFICES ASSUME n + 1 <= L PROVE f[n + 1] = g[n + 1]
      OBVIOUS
    <2>1. n + 1 \in 0..L /\ n + 1 \in 1..L /\ (n + 1) - 1 = n /\ n + 1 # 0 /\ n <= L
      BY <1>1
    <2>2. f[n + 1] = EvictStep(f, s, state, n + 1)
      BY <1>7, <2>1
    <2>3. g[n + 1] = EvictStep(g, s, state, n + 1)
      BY <1>4, <2>1
    <2>4. f[n] = g[n]
      BY <1>10, <2>1
    <2> QED BY <2>1, <2>2, <2>3, <2>4 DEF EvictStep
  <1>11. Nat \subseteq U
    <2> HIDE DEF Same
    <2>1. 0 \in U /\ \A n \in Nat : n \in U => n + 1 \in U
      BY <1>9, <1>10
    <2> HIDE DEF U
    <2> QED BY <2>1, NatSetInduction
  <1>12. f[L] = g[L]
    <2>1. Same(L) /\ L <= L
      <3> HIDE DEF Same
      <3> QED BY <1>1, <1>11
    <2> QED BY <2>1
  <1> QED BY <1>2, <1>5, <1>8, <1>12 DEF L

\* handleMemoryPressure leaves so many of the youngest.
LEMMA PressureLeaves ==
    ASSUME CacheInv, NEW usage, HandleMemoryPressure(usage)
    PROVE  \E n \in 0..Len(entries) :
             /\ Leaves(n, entries, last')
             /\ entries' = Youngest(entries, n)
             /\ last' = PressureState(usage)
             /\ UNCHANGED <<recent, age>>
  <1> DEFINE state == PressureState(usage)
  <1>1. PICK n \in 0..Len(entries) :
              Leaves(n, entries, state) /\ EvictUntilMet(entries, state) = Youngest(entries, n)
    BY EvictUntilMetIs DEF CacheInv
  <1>2. entries' = EvictUntilMet(entries, state) /\ last' = state /\ UNCHANGED <<recent, age>>
    BY DEF HandleMemoryPressure
  <1> HIDE DEF state
  <1>3. last' = PressureState(usage)
    BY <1>2 DEF state
  <1> QED BY <1>1, <1>2, <1>3

\* Evicting the oldest keeps the invariant.
LEMMA PressureKeeps ==
    ASSUME CacheInv, NEW usage, HandleMemoryPressure(usage)
    PROVE  CacheInv'
  <1>1. PICK n \in 0..Len(entries) :
              /\ entries' = Youngest(entries, n)
              /\ last' = PressureState(usage)
              /\ UNCHANGED <<recent, age>>
    BY PressureLeaves
  <1>2. /\ entries \in Seq(CacheEntry) /\ Len(entries) <= MaxEntries
        /\ InOrder(entries, recent)
        /\ \A i \in 1..Len(entries) : entries[i].age = age[entries[i].key]
    BY DEF CacheInv
  <1>3. Len(entries) \in Nat /\ n \in Nat
    BY <1>2, LenProperties
  <1>4. /\ entries' \in Seq(CacheEntry) /\ Within(entries', entries)
        /\ Len(entries') = IF Len(entries) > n THEN n ELSE Len(entries)
    BY <1>1, <1>2, <1>3, YoungestIs
  <1>5. InOrder(entries', recent')
    BY <1>1, <1>2, <1>4, WithinInOrder
  <1>6. \A i \in 1..Len(entries') : entries'[i].age = age'[entries'[i].key]
    BY <1>1, <1>2, <1>4, WithinAges
  <1>7. Len(entries') <= MaxEntries
    <2>1. MaxEntries \in Nat
      BY CacheAssumption
    <2> QED BY <1>2, <1>3, <1>4, <2>1
  <1>8. last' \in {"normal", "soft", "hard"}
    BY <1>1 DEF PressureState
  <1>9. last' # "get" /\ recent' \in Seq(Keys) /\ Distinct(recent') /\ age' \in [Keys -> Ages]
    BY <1>1, <1>8 DEF CacheInv
  <1> QED BY <1>4, <1>5, <1>6, <1>7, <1>8, <1>9 DEF CacheInv

\* Time passes for the entries as for the keys that were set.
LEMMA TickKeeps ==
    ASSUME CacheInv, Tick
    PROVE  CacheInv'
  <1> DEFINE n == Len(entries)
  <1>1. /\ n \in Nat /\ DOMAIN entries = 1..n
        /\ \A i \in 1..n : entries[i] \in CacheEntry
    BY LenProperties, ElementOfSeq DEF CacheInv
  <1>2. \A a \in Ages : Older(a) \in Ages
    BY CacheAssumption DEF Older, Ages
  <1>3. /\ entries' = [i \in 1..n |-> [entries[i] EXCEPT !.age = Older(entries[i].age)]]
        /\ age' = [k \in Keys |-> Older(age[k])]
        /\ last' = "tick" /\ recent' = recent
    BY <1>1 DEF Tick
  <1>4. ASSUME NEW i \in 1..n
        PROVE  /\ entries'[i] \in CacheEntry
               /\ entries'[i].key = entries[i].key
               /\ entries'[i].age = Older(entries[i].age)
    <2>1. entries[i] \in CacheEntry /\ Older(entries[i].age) \in Ages
      BY <1>1, <1>2 DEF CacheEntry
    <2>2. entries'[i] = [entries[i] EXCEPT !.age = Older(entries[i].age)]
      BY <1>3
    <2> QED BY <2>1, <2>2 DEF CacheEntry
  <1>5. entries' \in Seq(CacheEntry) /\ Len(entries') = n
    <2>1. entries' \in [1..n -> CacheEntry]
      BY <1>3, <1>4
    <2>2. entries' \in Seq(CacheEntry)
      BY <1>1, <2>1, SeqDef
    <2> QED BY <1>1, <2>1, <2>2, LenProperties
  <1> HIDE DEF n
  <1>6. InOrder(entries', recent')
    <2>1. InOrder(entries, recent)
      BY DEF CacheInv
    <2> QED BY <1>3, <1>4, <1>5, <2>1 DEF InOrder, n
  <1>7. age' \in [Keys -> Ages]
    BY <1>2, <1>3 DEF CacheInv
  <1>8. \A i \in 1..n : entries'[i].age = age'[entries'[i].key]
    <2>1. \A i \in 1..n : entries[i].key \in Keys /\ entries[i].age = age[entries[i].key]
      BY <1>1 DEF CacheInv, CacheEntry, n
    <2> QED BY <1>3, <1>4, <2>1
  <1> QED BY <1>3, <1>5, <1>6, <1>7, <1>8 DEF CacheInv, n

\* The inductive invariant of the cache: entries in the order of use, their age
\* that of their last set, and the one a read found still fresh.
THEOREM CacheInvariant == CacheSpec => []CacheInv
  <1>1. CacheInit => CacheInv
    BY InitOfCache
  <1>2. CacheInv /\ [CacheNext]_cacheVars => CacheInv'
    <2> SUFFICES ASSUME CacheInv, [CacheNext]_cacheVars PROVE CacheInv'
      OBVIOUS
    <2>1. CASE \E k \in Keys : Get(k)
      BY <2>1, GetKeeps
    <2>2. CASE \E k \in Keys, weight \in Weights : Set(k, weight)
      BY <2>2, SetKeeps
    <2>3. CASE \E usage \in Usages : HandleMemoryPressure(usage)
      BY <2>3, PressureKeeps
    <2>4. CASE Tick
      BY <2>4, TickKeeps
    <2>5. CASE UNCHANGED cacheVars
      BY <2>5 DEF cacheVars, CacheInv, Distinct, InOrder, Has, Before
    <2> QED BY <2>1, <2>2, <2>3, <2>4, <2>5 DEF CacheNext
  <1> QED BY <1>1, <1>2, PTL DEF CacheSpec

\* The invariant puts the entries in the order of use.
LEMMA CacheInOrder == CacheInv => OrderIsUse
  <1> SUFFICES ASSUME CacheInv PROVE OrderIsUse
    OBVIOUS
  <1>1. /\ entries \in Seq(CacheEntry) /\ recent \in Seq(Keys)
        /\ Distinct(recent) /\ InOrder(entries, recent)
    BY DEF CacheInv
  <1>2. /\ DOMAIN entries = 1..Len(entries) /\ DOMAIN recent = 1..Len(recent)
        /\ \A i \in 1..Len(entries) : entries[i] \in CacheEntry
        /\ \A p \in 1..Len(recent) : recent[p] \in Keys
    BY <1>1, LenProperties, ElementOfSeq
  <1>3. Range(entries) \subseteq [key : Keys, age : Ages, weight : Weights]
    BY <1>2 DEF Range, CacheEntry
  <1>4. IsInjective(KeysOf(entries))
    <2>1. \A i, j \in 1..Len(entries) : entries[i].key = entries[j].key => i = j
      BY <1>1, KeysDiffer
    <2> QED BY <1>2, <2>1 DEF IsInjective, KeysOf
  <1>5. Range(recent) \subseteq Keys /\ IsInjective(recent)
    BY <1>1, <1>2 DEF Range, IsInjective, Distinct
  <1>6. CacheType
    BY <1>3, <1>4, <1>5 DEF CacheInv, CacheType
  <1>7. ASSUME NEW p \in 1..Len(recent) PROVE Position(recent[p]) = p
    BY <1>1, <1>2 DEF Position, Distinct
  <1>8. ASSUME NEW i \in DOMAIN entries, NEW j \in DOMAIN entries, i < j
        PROVE  Position(entries[i].key) < Position(entries[j].key)
    <2>1. PICK p, q \in 1..Len(recent) :
                p < q /\ recent[p] = entries[i].key /\ recent[q] = entries[j].key
      <3>1. i \in 1..Len(entries) /\ j \in 1..Len(entries)
        BY <1>2
      <3>2. Before(recent, entries[i].key, entries[j].key)
        BY <1>1, <1>8, <3>1 DEF InOrder
      <3> QED BY <3>2, Zenon DEF Before
    <2> QED BY <1>7, <2>1
  <1> QED BY <1>6, <1>8 DEF OrderIsUse

\* OrderIsUse: of two entries of the Map the one that was used earlier is evicted
\* earlier, whatever was read, replaced or pruned between.
THEOREM EvictsInOrderOfUse == CacheSpec => []OrderIsUse
  BY CacheInOrder, CacheInvariant, PTL

\* AgeIsHonest: an entry is as old as its last set, whatever read it since, and
\* a read finds none that is too old.
THEOREM ReadsDoNotRenew == CacheSpec => []AgeIsHonest
  <1>1. CacheInv => AgeIsHonest
    <2> SUFFICES ASSUME CacheInv PROVE AgeIsHonest
      OBVIOUS
    <2>1. /\ Len(entries) \in Nat /\ DOMAIN entries = 1..Len(entries)
          /\ \A i \in 1..Len(entries) : entries[i].age = age[entries[i].key]
          /\ last = "get" => Len(entries) # 0 /\ entries[Len(entries)].age <= MaxAge
      BY LenProperties DEF CacheInv
    <2>2. \A e \in Range(entries) : e.age = age[e.key]
      BY <2>1 DEF Range
    <2>3. last = "get" => age[entries[Len(entries)].key] <= MaxAge
      <3>1. \A n \in Nat : n # 0 => n \in 1..n
        OBVIOUS
      <3> QED BY <2>1, <3>1
    <2> QED BY <2>2, <2>3 DEF AgeIsHonest
  <1> QED BY <1>1, CacheInvariant, PTL

\* An empty cache weighs nothing.
LEMMA NoWeight == Weight(<<>>) = 0
  <1> DEFINE first(s) == CHOOSE x \in s : TRUE
             rest(f, s) == <<>>[first(s)].weight + f[s \ {first(s)}]
             f == CHOOSE f : f = [s \in SUBSET {} |-> IF s = {} THEN 0 ELSE rest(f, s)]
             none == [s \in SUBSET {} |-> 0]
  <1>1. DOMAIN <<>> = {}
    OBVIOUS
  <1>2. Weight(<<>>) = f[{}]
    BY <1>1, Zenon DEF Weight, FoldSeq, FoldFunction,
                       FoldFunctionOnSet, MapThenFoldSet
  <1> HIDE DEF rest
  <1>3. none = [s \in SUBSET {} |-> IF s = {} THEN 0 ELSE rest(none, s)]
    BY \A s \in SUBSET {} : s = {}
  <1> HIDE DEF none
  <1>4. f = [s \in SUBSET {} |-> IF s = {} THEN 0 ELSE rest(f, s)]
    BY <1>3, Zenon
  <1> HIDE DEF f
  <1>5. f[{}] = 0
    BY <1>4
  <1> QED BY <1>2, <1>5

\* PressureIsMet: under pressure the loop gets the cache down to its target, its
\* last eviction was still needed, and all that stays was used after all that goes.
THEOREM EvictsWhatIsNeeded == CacheSpec => PressureIsMet
  <1> DEFINE Met == /\ Meets(entries', last')
                    /\ ~Meets(Youngest(entries, Len(entries') + 1), last')
                    /\ \A gone \in Range(entries) \ Range(entries'), kept \in Range(entries') :
                          Position(gone.key) < Position(kept.key)
  <1>1. CacheInv /\ [CacheNext]_cacheVars =>
          [last' \in {"soft", "hard"} /\ entries' # entries => Met]_cacheVars
    <2> SUFFICES ASSUME CacheInv, CacheNext, last' \in {"soft", "hard"}, entries' # entries
                 PROVE  Met
      OBVIOUS
    <2>1. PICK usage : HandleMemoryPressure(usage)
      <3>1. \A k \in Keys : Get(k) => last' \in {"get", "miss"}
        BY DEF Get
      <3>2. \A k \in Keys, weight \in Weights : Set(k, weight) => last' = "set"
        BY DEF Set
      <3>3. Tick => last' = "tick"
        BY DEF Tick
      <3> QED BY <3>1, <3>2, <3>3 DEF CacheNext
    <2>2. PICK n \in 0..Len(entries) :
                Leaves(n, entries, last') /\ entries' = Youngest(entries, n)
      BY <2>1, PressureLeaves
    <2>3. entries \in Seq(CacheEntry) /\ Len(entries) \in Nat /\ n \in Nat
      BY LenProperties DEF CacheInv
    <2>4. /\ entries' \in Seq(CacheEntry) /\ Len(entries') = n
          /\ \A i \in 1..n : entries'[i] = entries[(Len(entries) - n) + i]
      BY <2>2, <2>3, YoungestAt
    <2>5. n + 1 \in (n + 1)..Len(entries)
      <3>1. n # Len(entries)
        <4> SUFFICES ASSUME n = Len(entries) PROVE FALSE
          OBVIOUS
        <4>1. ~(Len(entries) > n)
          BY <2>3
        <4> QED BY <2>2, <4>1 DEF Youngest
      <3> QED BY <2>3, <3>1
    <2>6. ~Meets(Youngest(entries, Len(entries') + 1), last')
      BY <2>2, <2>4, <2>5 DEF Leaves
    <2>7. Meets(entries', last')
      <3>1. CASE n = 0
        <4>1. Weight(entries') = 0
          BY <2>4, <3>1, NoWeight, EmptySeq
        <4>2. SoftLimit \in Nat
          BY CacheAssumption
        <4>3. 2 * Weight(entries') <= SoftLimit
          BY <4>1, <4>2
        <4>4. CASE last' = "soft"
          BY <4>3, <4>4 DEF Meets
        <4>5. CASE last' = "hard"
          BY <4>1, <4>5 DEF Meets
        <4> QED BY <4>4, <4>5
      <3>2. CASE n # 0
        BY <2>2, <3>2 DEF Leaves
      <3> QED BY <3>1, <3>2
    <2>8. ASSUME NEW gone \in Range(entries) \ Range(entries'), NEW kept \in Range(entries')
          PROVE  Position(gone.key) < Position(kept.key)
      <3>1. /\ DOMAIN entries = 1..Len(entries) /\ DOMAIN entries' = 1..n
            /\ \A i, j \in DOMAIN entries :
                  i < j => Position(entries[i].key) < Position(entries[j].key)
        BY <2>3, <2>4, LenProperties, CacheInOrder DEF OrderIsUse
      <3>2. PICK i \in 1..Len(entries) : gone = entries[i]
        BY <3>1 DEF Range
      <3>3. PICK j \in 1..n : kept = entries'[j]
        BY <3>1 DEF Range
      <3> DEFINE at == (Len(entries) - n) + j
      <3>4. kept = entries[at] /\ at \in 1..Len(entries) /\ at > Len(entries) - n
        BY <2>3, <2>4, <3>3
      <3>5. i <= Len(entries) - n
        <4> SUFFICES ASSUME i > Len(entries) - n PROVE FALSE
          BY <2>3
        <4> DEFINE h == i - (Len(entries) - n)
        <4>1. h \in 1..n /\ (Len(entries) - n) + h = i
          BY <2>3
        <4>2. entries'[h] = entries[i]
          BY <2>4, <4>1
        <4>3. entries[i] \in Range(entries')
          BY <3>1, <4>1, <4>2 DEF Range
        <4> QED BY <2>8, <3>2, <4>3
      <3>6. i < at
        BY <2>3, <3>4, <3>5
      <3> HIDE DEF at
      <3> QED BY <3>1, <3>2, <3>4, <3>6
    <2> QED BY <2>6, <2>7, <2>8
  <1> QED BY <1>1, CacheInvariant, PTL DEF CacheSpec, PressureIsMet
=============================================================================
