------------------------ MODULE RefTransactionLocks -------------------------
(***************************************************************************)
(* Type correctness of RefTransaction, and which locks a transaction holds *)
(* while it runs.                                                          *)
(***************************************************************************)
EXTENDS RefTransactionSteps

Late == {"delete_ref", "drop_lock", "finish"}

LEMMA EditNames ==
  ASSUME Types, NEW t \in Tx PROVE \A j \in 1..Len(edits(t)) : edits(t)[j].name \in Name
<1>1. edits(t) \in Seq(WellFormed)
    BY Zenon DEF Types, TxState, edits
<1>2. \A j \in 1..Len(edits(t)) : edits(t)[j] \in WellFormed
    BY <1>1
<1> QED
    BY Zenon, <1>2 DEF WellFormed, Edit

\* The edits carry over, but for the expectations.
Carries(t) ==
  /\ tx'[t].packed_refs = tx[t].packed_refs
  /\ Len(edits(t)') = Len(edits(t))
  /\ \A j \in 1..Len(edits(t)) :
       /\ edits(t)'[j].name = edits(t)[j].name /\ edits(t)'[j].change = edits(t)[j].change
       /\ edits(t)'[j].log = edits(t)[j].log /\ edits(t)'[j].new = edits(t)[j].new

LEMMA EffectCarries ==
  ASSUME Types, Cursors, NEW t \in Tx, Effect(t), ~Begins(t), ~Splits(t), ~Ends(t)
  PROVE  Carries(t)
<1>1. CASE tx'[t].edits = tx[t].edits /\ tx'[t].packed_refs = tx[t].packed_refs
    BY ZenonT(60), <1>1 DEF Carries, edits
<1>2. CASE Accepts(t)
    <2>1. tx[t].at \in 1..Len(edits(t))
        BY Zenon, <1>2 DEF Accepts, Cursors, Cursor, OnAnEdit
    <2> QED
        BY SMTT(60), <1>2, <2>1, AppliedTypes DEF Accepts, Carries, edits
<1> QED
    BY Zenon, <1>1, <1>2 DEF Effect, Goes, Moved, TakesPacked, ReadsPacked, Reads, Takes, Logs, Writes, Unlogs,
       WritesPacked, UnlocksPacked, Deletes, Drops

LEMMA SameKinds ==
  ASSUME Types, NEW t \in Tx, Carries(t)
  PROVE  /\ ForPackedRefs(t)' = ForPackedRefs(t) /\ PackedUpdates(t)' = PackedUpdates(t)
         /\ Updates(t)' = Updates(t) /\ Deletions(t)' = Deletions(t)
         /\ take_lock_and_delete(t)' = take_lock_and_delete(t)
<1>1. ForPackedRefs(t)' = ForPackedRefs(t)
    BY Zenon DEF Carries, ForPackedRefs
<1>2. PackedUpdates(t)' = PackedUpdates(t)
    <2>1. ForPackedRefs(t) \subseteq 1..Len(edits(t))
        BY Zenon DEF ForPackedRefs
    <2> QED
        BY Zenon, <1>1, <2>1 DEF Carries, PackedUpdates, WithUpdates
<1>3. Updates(t)' = Updates(t) /\ Deletions(t)' = Deletions(t)
    BY Zenon DEF Carries, Updates, Deletions
<1>4. take_lock_and_delete(t)' = take_lock_and_delete(t)
    BY Zenon DEF Carries, take_lock_and_delete, delete_loose_refs, direct_to_packed_refs
<1> QED
    BY Zenon, <1>1, <1>2, <1>3, <1>4

LEMMA PassPlaces ==
  ASSUME NEW t \in Tx, NEW i, NEW pc, NEW k,
         ToFirst(t, i, pc, k) \/ ToSecond(t, i, pc, k) \/ ToThird(t, i, pc, k)
  PROVE  /\ pc \in {"reflog", "delete_reflog", "packed_commit"} \union Late
         /\ pc = "packed_commit" => tx[t].packed_tx
         /\ ToThird(t, i, pc, k) => pc \in Late
BY Zenon DEF ToFirst, ToSecond, ToThird, Late

LEMMA SplitKinds ==
  ASSUME NEW es \in Seq(WellFormed), NEW i \in 1..Len(es), NEW referent \in Name
  PROVE  LET s == Split(es, i, referent)
         IN  /\ Len(s) = Len(es) + 1
             /\ \A j \in 1..Len(es) :
                  s[j].name = es[j].name /\ s[j].change = es[j].change /\ s[j].new = es[j].new
             /\ \A j \in 1..Len(es) :
                  /\ s[j].log = IF j = i THEN "Only" ELSE es[j].log
                  /\ s[j].parent_index = es[j].parent_index
                  /\ s[j].leaf_referent_previous_oid = es[j].leaf_referent_previous_oid
             /\ s[Len(es) + 1].change = es[i].change /\ s[Len(es) + 1].new = es[i].new
             /\ s[Len(es) + 1].log = es[i].log /\ s[Len(es) + 1].parent_index = i
             /\ s[Len(es) + 1].leaf_referent_previous_oid = es[i].leaf_referent_previous_oid
<1> DEFINE parent == [es[i] EXCEPT !.deref = FALSE, !.log = "Only",
                        !.expected = IF es[i].change = "Update"
                                       THEN Expect("Any", None) ELSE es[i].expected]
           child  == [es[i] EXCEPT !.name = referent, !.parent_index = i]
<1>1. es[i] \in WellFormed /\ Len(es) \in Nat
    OBVIOUS
<1>2. /\ parent.name = es[i].name /\ parent.change = es[i].change /\ parent.new = es[i].new
      /\ parent.log = "Only" /\ parent.parent_index = es[i].parent_index
      /\ parent.leaf_referent_previous_oid = es[i].leaf_referent_previous_oid
    BY Zenon, <1>1 DEF WellFormed, Edit
<1>3. /\ child.change = es[i].change /\ child.new = es[i].new /\ child.log = es[i].log /\ child.parent_index = i
      /\ child.leaf_referent_previous_oid = es[i].leaf_referent_previous_oid
    BY Zenon, <1>1 DEF WellFormed, Edit
<1>4. parent \in WellFormed /\ child \in WellFormed
    <2>1. Expect("Any", None) \in PreviousValue
        BY Zenon DEF Expect, PreviousValue
    <2>2. parent \in WellFormed
        BY Zenon, <1>1, <2>1 DEF WellFormed, Edit
    <2>3. i \in Nat
        BY <1>1
    <2>4. child \in WellFormed
        BY Zenon, <1>1, <2>3 DEF WellFormed, Edit
    <2> QED
        BY Zenon, <2>2, <2>4
<1>5. Split(es, i, referent) = Append([es EXCEPT ![i] = parent], child)
    BY Zenon DEF Split
<1> HIDE DEF parent, child
<1>6. [es EXCEPT ![i] = parent] \in Seq(WellFormed) /\ Len([es EXCEPT ![i] = parent]) = Len(es)
    BY <1>4
<1>7. /\ Len(Append([es EXCEPT ![i] = parent], child)) = Len(es) + 1
      /\ Append([es EXCEPT ![i] = parent], child)[Len(es) + 1] = child
      /\ \A j \in 1..Len(es) :
           Append([es EXCEPT ![i] = parent], child)[j] = IF j = i THEN parent ELSE es[j]
    BY <1>1, <1>4, <1>6
<1> QED
    BY <1>2, <1>3, <1>5, <1>7

\* Splitting adds an edit of the same kind for another name, and all others stay.
SplitsEdits(t) ==
  /\ tx'[t].packed_refs = tx[t].packed_refs
  /\ Len(edits(t)') >= Len(edits(t))
  /\ \A j \in 1..Len(edits(t)) :
       edits(t)'[j].name = edits(t)[j].name /\ edits(t)'[j].change = edits(t)[j].change
  /\ \A j \in 1..Len(edits(t)') :
       \E k \in 1..Len(edits(t)) : edits(t)'[j].change = edits(t)[k].change

LEMMA SplitEdits ==
  ASSUME Types, Cursors, NEW t \in Tx, Splits(t) PROVE SplitsEdits(t)
<1> DEFINE i == tx[t].at
<1>1. edits(t) \in Seq(WellFormed) /\ i \in 1..Len(edits(t)) /\ Len(edits(t)) \in Nat
    BY DEF Splits, Types, TxState, edits
<1>2. CASE edits(t)' = edits(t)
    BY SMTT(60), <1>1, <1>2 DEF SplitsEdits, Splits
<1>3. CASE edits(t)' = [edits(t) EXCEPT ![i] = [edits(t)[i] EXCEPT !.deref = FALSE]]
    <2> DEFINE e == [edits(t)[i] EXCEPT !.deref = FALSE]
    <2>1. edits(t)[i] \in WellFormed
        BY <1>1
    <2>2. e.name = edits(t)[i].name /\ e.change = edits(t)[i].change
        BY Zenon, <2>1 DEF WellFormed, Edit
    <2> HIDE DEF e
    <2>3. Len(edits(t)') = Len(edits(t)) /\ \A j \in 1..Len(edits(t)) : edits(t)'[j] = IF j = i THEN e ELSE edits(t)[j]
        BY SMTT(60), <1>1, <1>3 DEF e
    <2> QED
        BY SMTT(60), <1>1, <2>2, <2>3 DEF SplitsEdits, Splits
<1>4. CASE loose[name(t)] \in Name /\ edits(t)' = Split(edits(t), i, loose[name(t)])
    <2>1. /\ Len(edits(t)') = Len(edits(t)) + 1
          /\ \A j \in 1..Len(edits(t)) :
               edits(t)'[j].name = edits(t)[j].name /\ edits(t)'[j].change = edits(t)[j].change
          /\ edits(t)'[Len(edits(t)) + 1].change = edits(t)[i].change
        BY SMTT(60), <1>1, <1>4, SplitKinds
    <2>2. \A j \in 1..Len(edits(t)') : j \in 1..Len(edits(t)) \/ j = Len(edits(t)) + 1
        BY <1>1, <2>1
    <2> QED
        BY SMTT(60), <1>1, <2>1, <2>2 DEF SplitsEdits, Splits
<1> QED
    BY Zenon, <1>2, <1>3, <1>4 DEF Splits, edits

----------------------------------------------------------------------------
(* Types *)

LEMMA LogEntries ==
  ASSUME Types, Cursors, NEW t \in Tx, Logs(t)
  PROVE  log_update(edit(t)) \in Seq(LogEntry) /\ edit(t) \in WellFormed /\ name(t) \in Name /\ edit(t).change = "Update"
<1>1. /\ tx[t].pc = "reflog" /\ edit(t) \in WellFormed /\ name(t) \in Name /\ edit(t).change = "Update"
    BY Zenon, NameOfEdit DEF Logs, OnAnEdit, Cursors, Cursor, Updates, edit
<1>2. edit(t).new \in Target /\ edit(t).expected \in PreviousValue
      /\ edit(t).leaf_referent_previous_oid \in Oid \union {None}
    BY Zenon, <1>1 DEF WellFormed, Edit
<1>3. ASSUME NEW old \in Oid \union {None}, NEW new \in Oid
      PROVE  <<[old |-> old, new |-> new]>> \in Seq(LogEntry)
    BY SMTT(20) DEF LogEntry
<1>4. log_update(edit(t)) \in Seq(LogEntry)
    <2> DEFINE e == edit(t)
               previous == IF e.expected.is = "MustExistAndMatch" /\ IsObject(e.expected.value)
                             THEN e.expected.value ELSE e.leaf_referent_previous_oid
    <2>1. previous \in Oid \union {None}
        BY Zenon, <1>2 DEF IsObject
    <2>2. ~IsSymbolic(e.new) => e.new \in Oid
        BY Zenon, <1>2 DEF IsSymbolic, Target
    <2>3. IsObject(e.expected.value) => e.expected.value \in Oid
        BY Zenon DEF IsObject
    <2> HIDE DEF previous
    <2>4. ~IsSymbolic(e.new) => <<[old |-> previous, new |-> e.new]>> \in Seq(LogEntry)
        BY ZenonT(60), <1>3, <2>1, <2>2
    <2>5. IsObject(e.expected.value) => <<[old |-> None, new |-> e.expected.value]>> \in Seq(LogEntry)
        BY Zenon, <1>3, <2>3
    <2>6. <<>> \in Seq(LogEntry)
        OBVIOUS
    <2> QED
        BY Zenon, <2>4, <2>5, <2>6 DEF log_update, previous
<1> QED
    BY Zenon, <1>1, <1>4

LEMMA LogTypes ==
  ASSUME Types, Cursors, NEW t \in Tx, Logs(t)
  PROVE  reflog' \in [Name -> Seq(LogEntry) \union {None}]
<1>1. name(t) \in Name /\ log_update(edit(t)) \in Seq(LogEntry)
    BY Zenon, LogEntries
<1>2. ASSUME NEW entries \in Seq(LogEntry)
      PROVE  reflog_create_or_append(name(t), entries) \in [Name -> Seq(LogEntry) \union {None}]
    <2>1. reflog[name(t)] # None => reflog[name(t)] \in Seq(LogEntry)
        BY Zenon, <1>1 DEF Types
    <2>2. (IF reflog[name(t)] = None THEN <<>> ELSE reflog[name(t)]) \o entries \in Seq(LogEntry)
        BY <2>1
    <2> QED
        BY Zenon, <1>1, <2>2 DEF reflog_create_or_append, Types
<1> QED
    BY Zenon, <1>1, <1>2 DEF Logs

LEMMA MergedTypes == ASSUME Types, NEW t \in Tx PROVE MergedPackedRefs(t) \in PackedFile
<1>1. edits(t) \in Seq(WellFormed) /\ tx[t].buffer \in PackedFile \union {None}
    BY Zenon DEF Types, TxState, edits
<1>2. ASSUME NEW i \in packed_edits(t) PROVE edits(t)[i].new \in Oid \union {None}
    <2>1. i \in 1..Len(edits(t)) /\ edits(t)[i] \in WellFormed
        BY <1>1 DEF packed_edits, edits_for_packed_transaction, PackedUpdates, ForPackedRefs
    <2>2. edits(t)[i].change = "Delete" \/ IsObject(edits(t)[i].new)
        BY Zenon DEF packed_edits, edits_for_packed_transaction, PackedUpdates
    <2> QED
        BY ZenonT(60), <2>1, <2>2 DEF WellFormed, Edit, IsObject
<1>3. ASSUME NEW n \in Name
      PROVE  LET mine == {i \in packed_edits(t) : edits(t)[i].name = n}
             IN  (IF mine # {} THEN edits(t)[CHOOSE i \in mine : TRUE].new
                  ELSE IF tx[t].buffer = None THEN None
                  ELSE tx[t].buffer[n]) \in Oid \union {None}
    <2> DEFINE mine == {i \in packed_edits(t) : edits(t)[i].name = n}
    <2>1. mine # {} => (CHOOSE i \in mine : TRUE) \in packed_edits(t)
        BY Zenon
    <2>2. tx[t].buffer # None => tx[t].buffer[n] \in Oid \union {None}
        BY Zenon, <1>1 DEF PackedFile
    <2> HIDE DEF mine
    <2>3. mine # {} => edits(t)[CHOOSE i \in mine : TRUE].new \in Oid \union {None}
        BY Zenon, <1>2, <2>1
    <2> QED
        BY Zenon, <2>2, <2>3 DEF mine
<1> QED
    BY Zenon, <1>3 DEF MergedPackedRefs, PackedFile

\* Where a step of the transaction leaves its loops
LEMMA CursorStep == ASSUME Types, Cursors, NEW t \in Tx, Others(t), Effect(t) PROVE Cursor(t)'
<1>1. edits(t) \in Seq(WellFormed) /\ edits(t)' \in Seq(WellFormed) /\ Cursor(t)
    BY Zenon DEF Types, Others, TxState, edits, Cursors
<1>2. CASE Begins(t)
    <2>1. edits(t)' # <<>>
        BY Zenon, <1>2, RequestTypes DEF Begins, edits
    <2> QED
        BY Zenon, <1>2, <2>1 DEF Begins, Cursor, Early, OnAnEdit
<1>3. CASE Splits(t)
    <2>1. Len(edits(t)') >= Len(edits(t)) /\ edits(t) # <<>>
        BY Zenon, <1>1, <1>3, SplitEdits DEF SplitsEdits, Splits, Cursor
    <2>2. edits(t)' # <<>>
        BY <1>1, <2>1
    <2> QED
        BY Zenon, <1>3, <2>2 DEF Splits, Cursor, Early, OnAnEdit
<1>4. CASE Ends(t)
    BY Zenon, <1>1, <1>4 DEF Ends, Ended, Cursor, Early, OnAnEdit, edits
<1>5. CASE Carries(t) /\ ~Begins(t) /\ ~Splits(t) /\ ~Ends(t)
    <2>1. tx[t].pc # "idle"
        BY Zenon, <1>5 DEF Effect, Goes, TakesPacked, ReadsPacked, Reads, Takes, Accepts, Logs, Writes, Unlogs,
           WritesPacked, UnlocksPacked, Deletes, Drops
    <2>2. /\ Len(edits(t)') = Len(edits(t)) /\ edits(t) # <<>> /\ Updates(t)' = Updates(t)
          /\ Deletions(t)' = Deletions(t) /\ take_lock_and_delete(t)' = take_lock_and_delete(t)
        BY Zenon, <1>1, <1>5, <2>1, SameKinds DEF Carries, Cursor
    <2>3. edits(t)' # <<>> /\ Len(edits(t)) \in Nat /\ 1 \in 1..Len(edits(t))
        BY <1>1, <2>2
    <2>4. ASSUME NEW pc, NEW k, NEW i, Moved(t, pc, k),
                 ToFirst(t, i, pc, k) \/ ToSecond(t, i, pc, k) \/ ToThird(t, i, pc, k)
          PROVE  Cursor(t)'
        <3>1. /\ pc = "reflog" => k \in Updates(t)
              /\ pc = "delete_reflog" => k \in Deletions(t)
              /\ pc = "delete_ref" => k \in take_lock_and_delete(t)
              /\ pc \in {"reflog", "delete_reflog", "packed_commit", "delete_ref", "finish"}
            BY Zenon, <2>4 DEF ToFirst, ToSecond, ToThird, FirstFrom
        <3>2. Updates(t) \subseteq 1..Len(edits(t)) /\ Deletions(t) \subseteq 1..Len(edits(t))
              /\ take_lock_and_delete(t) \subseteq 1..Len(edits(t))
            BY Zenon DEF Updates, Deletions, take_lock_and_delete
        <3> QED
            BY ZenonT(60), <2>2, <2>3, <2>4, <3>1, <3>2 DEF Moved, Cursor, Early, OnAnEdit
    <2>5. CASE \E pc, i : Goes(t, pc, i)
        <3>1. PICK pc, i : Goes(t, pc, i)
            BY Zenon, <2>5
        <3>2. CASE tx[t].pc = "prepared"
            BY ZenonT(60), <2>4, <3>1, <3>2 DEF Goes
        <3> QED
            BY ZenonT(60), <1>1, <2>2, <2>3, <3>1, <3>2 DEF Goes, Moved, Cursor, Early, OnAnEdit
    <2>6. CASE TakesPacked(t) \/ ReadsPacked(t) \/ Reads(t) \/ Takes(t)
        BY ZenonT(60), <1>1, <2>2, <2>3, <2>6 DEF TakesPacked, ReadsPacked, Reads, Takes, Moved, Cursor,
           Early, OnAnEdit
    <2>7. CASE Accepts(t)
        BY SMTT(60), <1>1, <2>2, <2>3, <2>7 DEF Accepts, Cursor, Early, OnAnEdit
    <2>8. CASE Moved(t, "commit_ref", tx[t].at) /\ tx[t].pc = "reflog"
        BY ZenonT(60), <1>1, <2>2, <2>3, <2>8 DEF Moved, Cursor, Early, OnAnEdit
    <2>9. CASE Deletes(t)
        BY ZenonT(60), <1>1, <2>2, <2>3, <2>9 DEF Deletes, Moved, Cursor, Early, OnAnEdit
    <2>10. CASE Moved(t, "packed_unlock", tx[t].at)
        BY Zenon, <2>3, <2>10 DEF Moved, Cursor, Early, OnAnEdit
    <2> QED
        BY ZenonT(60), <1>5, <2>4, <2>5, <2>6, <2>7, <2>8, <2>9, <2>10
        DEF Effect, Logs, Writes, Unlogs, WritesPacked, UnlocksPacked, Drops
<1> QED
    BY Zenon, <1>2, <1>3, <1>4, <1>5, EffectCarries

LEMMA StoreTypes ==
  ASSUME Types, Cursors, NEW t \in Tx, Effect(t)
  PROVE  /\ loose' \in [Name -> Target \union {None}] /\ packed' \in PackedFile \union {None}
         /\ reflog' \in [Name -> Seq(LogEntry) \union {None}]
<1>1. CASE UNCHANGED Store
    BY Zenon, <1>1 DEF Store, Types
<1>2. CASE Logs(t)
    BY Zenon, <1>2, LogTypes DEF Logs, Types
<1>3. CASE Writes(t)
    <2>1. name(t) \in Name /\ edit(t).new \in Target \union {None}
        BY Zenon, <1>3, NameOfEdit DEF Writes, OnAnEdit, WellFormed, Edit
    <2> QED
        BY Zenon, <1>3, <2>1 DEF Writes, Types
<1>4. CASE Unlogs(t) \/ Deletes(t)
    <2>1. name(t) \in Name
        BY Zenon, <1>4, NameOfEdit DEF Unlogs, Deletes, OnAnEdit
    <2> QED
        BY Zenon, <1>4, <2>1 DEF Unlogs, Deletes, Types
<1>5. CASE WritesPacked(t)
    BY Zenon, <1>5, MergedTypes DEF WritesPacked, Types
<1> QED
    BY ZenonT(60), <1>1, <1>2, <1>3, <1>4, <1>5 DEF Effect, Begins, Splits, Ends, Goes, TakesPacked,
       ReadsPacked, Reads, Takes, Accepts, UnlocksPacked, Drops

\* Locks change hands only between nobody and the transaction that takes the step.
OwnLocks(t) ==
  /\ locks' \in [Name -> Tx \union {NoTx}]
  /\ packed_lock' \in {packed_lock, NoTx, t}
  /\ \A n \in Name : locks'[n] \in {locks[n], NoTx, t}

LEMMA LockStep ==
  ASSUME Types, Cursors, NEW t \in Tx, Effect(t)
  PROVE  OwnLocks(t)
<1>1. CASE SameLocks
    BY Zenon, <1>1 DEF SameLocks, OwnLocks, Types
<1>2. CASE DropLocks(t)
    BY Zenon, <1>2 DEF DropLocks, OwnLocks, Types
<1>3. CASE locks' = locks /\ packed_lock' \in {NoTx, t}
    BY Zenon, <1>3 DEF OwnLocks, Types
<1>4. CASE packed_lock' = packed_lock /\ (Takes(t) \/ Accepts(t) \/ Writes(t) \/ Drops(t))
    <2>1. name(t) \in Name
        BY ZenonT(60), <1>4, NameOfEdit DEF Takes, Accepts, Writes, Drops, OnAnEdit
    <2>2. PICK o \in {locks[name(t)], NoTx, t} : locks' = [locks EXCEPT ![name(t)] = o]
        <3>1. locks = [locks EXCEPT ![name(t)] = locks[name(t)]]
            BY Zenon, <2>1 DEF Types
        <3> QED
            BY Zenon, <1>4, <3>1 DEF Takes, Accepts, Writes, Drops
    <2> QED
        BY ZenonT(60), <1>4, <2>1, <2>2 DEF OwnLocks, Types
<1> QED
    BY ZenonT(60), <1>1, <1>2, <1>3, <1>4 DEF Effect, Begins, Splits, Ends, Goes, TakesPacked, ReadsPacked,
       Reads, Takes, Accepts, Logs, Writes, Unlogs, WritesPacked, UnlocksPacked, Deletes, Drops, SameLocks

LEMMA TypeEffect ==
  ASSUME Types, Cursors, NEW t \in Tx, Others(t), Effect(t), given' = given
  PROVE  Types' /\ Cursors'
<1>1. Types'
    BY Zenon, StoreTypes, LockStep DEF Types, Others, OwnLocks
<1>2. ASSUME NEW u \in Tx, u # t PROVE Cursor(u)'
    BY ZenonT(120), <1>2 DEF Others, Cursors, Cursor, edits, Updates, Deletions, take_lock_and_delete,
       delete_loose_refs, direct_to_packed_refs
<1> QED
    BY Zenon, <1>1, <1>2, CursorStep DEF Cursors

LEMMA TypeStep == ASSUME Types, Cursors, [Next]_vars PROVE Types' /\ Cursors'
<1>1. CASE UNCHANGED <<loose, packed, reflog, locks, packed_lock, tx, given>>
    BY Zenon, <1>1 DEF Types, Cursors, Cursor, edits, Updates, Deletions, take_lock_and_delete,
       delete_loose_refs, direct_to_packed_refs
<1>2. ASSUME NEW t \in Tx, start(t) \/ Step(t) \/ io_error(t) \/ kill(t) PROVE Types' /\ Cursors'
    BY Zenon, <1>2, StepEffect, TypeEffect
<1>3. ASSUME NEW r \in Reader, try_find(r) \/ find_inner(r) PROVE Types' /\ Cursors'
    BY Zenon, <1>1, <1>3 DEF try_find, find_inner, Store
<1> QED
    BY Zenon, <1>1, <1>2, <1>3 DEF Next, vars

LEMMA TypeInit == Init => Types /\ Cursors
<1> SUFFICES ASSUME Init PROVE Types /\ Cursors
    BY Zenon
<1>1. tx \in [Tx -> TxState] /\ Cursors
    <2>1. \A t \in Tx : tx[t].pc = "idle" /\ edits(t) = <<>>
        BY Zenon DEF Init, Idle, edits
    <2>2. tx \in [Tx -> TxState]
        BY Zenon, IdleTypes DEF Init
    <2> QED
        BY Zenon, <2>1, <2>2 DEF Cursors, Cursor, OnAnEdit, Early
<1>2. <<>> \in Seq(LogEntry)
    OBVIOUS
<1> QED
    BY Zenon, <1>1, <1>2, RefTransactionAssumption DEF Init, Types, RefTransactionAssumption

(***************************************************************************)
(* TypeOK holds in every state: whatever fails, is killed or interleaves,  *)
(* the loops of prepare and commit never leave the list of edits.          *)
(***************************************************************************)
THEOREM TypeCorrect == Spec => []TypeOK
<1>1. Types /\ Cursors => TypeOK
    <2> SUFFICES ASSUME Types, Cursors PROVE TypeOK
        BY Zenon
    <2>1. ASSUME NEW n \in Name, reflog[n] # None, NEW i \in 1..Len(reflog[n])
          PROVE  reflog[n][i] \in LogEntry
        <3>1. reflog[n] \in Seq(LogEntry)
            BY Zenon, <2>1 DEF Types
        <3>2. reflog[n][i] \in LogEntry
            BY <2>1, <3>1
        <3> QED
            BY Zenon, <3>2 DEF LogEntry
    <2>2. ASSUME NEW t \in Tx
          PROVE  /\ tx[t].pc \in PC /\ tx[t].packed_refs \in PackedRefs
                 /\ \A i \in 1..Len(edits(t)) : edits(t)[i] \in Edit
                 /\ tx[t].packed_tx \in BOOLEAN
                 /\ tx[t].buffer \in PackedFile \union {None}
                 /\ tx[t].existing \in Target \union {None}
        <3>1. tx[t] \in TxState
            BY Zenon DEF Types
        <3>2. edits(t) \in Seq(WellFormed)
            BY Zenon, <3>1 DEF TxState, edits
        <3>3. \A i \in 1..Len(edits(t)) : edits(t)[i] \in Edit
            BY <3>2 DEF WellFormed
        <3> QED
            BY Zenon, <3>1, <3>3 DEF TxState
    <2>3. ASSUME NEW t \in Tx, tx[t].pc \in OnAnEdit PROVE tx[t].at \in 1..Len(edits(t))
        BY Zenon, <2>3 DEF Cursors, Cursor
    <2> QED
        BY Zenon, <2>1, <2>2, <2>3 DEF TypeOK, Types, OnAnEdit
<1> QED
    BY <1>1, TypeInit, TypeStep, PTL DEF Spec

----------------------------------------------------------------------------
(* Names and places *)

\* Names are never forgotten.
LEMMA NamesGrow ==
  ASSUME Types, Cursors, NEW t \in Tx, Others(t), Effect(t), NEW u \in Tx, NEW change
  PROVE  Names(u, change) \subseteq Names(u, change)'
<1>1. CASE u # t
    BY Zenon, <1>1 DEF Others, Names, edits
<1>2. CASE u = t /\ Begins(t)
    BY SMTT(60), <1>2 DEF Begins, Cursors, Cursor, Names
<1>3. CASE u = t /\ Splits(t)
    BY SMTT(60), <1>3, SplitEdits DEF SplitsEdits, Names
<1>4. CASE u = t /\ Ends(t)
    BY Zenon, <1>4 DEF Ends, Names, edits
<1>5. CASE u = t /\ Carries(t)
    BY SMTT(60), <1>5 DEF Carries, Names
<1> QED
    BY Zenon, <1>1, <1>2, <1>3, <1>4, <1>5, EffectCarries

\* The value of the reference was compared, and the reference is not written yet.
Seen(t, i) ==
  \/ tx[t].pc \in {"read", "lock", "apply", "obtain_lock"} /\ i < tx[t].at
  \/ tx[t].pc = "prepared"
  \/ tx[t].pc \in {"reflog", "commit_ref"} /\ i >= tx[t].at

----------------------------------------------------------------------------
(* The locks of references *)

\* prepare and commit are done with an edit in so far as its lock should be there.
Passed(t, i) ==
  \/ tx[t].pc \in {"read", "lock", "apply", "obtain_lock"} /\ i < tx[t].at
  \/ tx[t].pc = "apply" /\ i = tx[t].at
  \/ tx[t].pc \in {"prepared", "reflog", "commit_ref", "delete_reflog"}
  \/ tx[t].pc = "delete_ref" /\ i >= tx[t].at
  \/ tx[t].pc = "drop_lock" /\ i > tx[t].at

\* Without the lock of packed-refs, a transaction holds the lock of the reference that it
\* compares, and those of the references it deletes up to their deletion.
Held(t) ==
  /\ tx[t].pc \notin {"idle", "pre_process"} \union Ended => OneNameHasOneEdit(edits(t))
  /\ tx[t].pc \in {"packed_commit", "packed_unlock"} => tx[t].packed_tx
  /\ ~tx[t].packed_tx =>
       /\ tx[t].pc = "apply" => locks[name(t)] = t
       /\ \A i \in 1..Len(edits(t)) :
            edits(t)[i].change = "Delete" /\ Passed(t, i) => locks[edits(t)[i].name] = t

AllHeld == \A t \in Tx : Held(t)

\* What others hold, they keep.
Kept(t) == \A u \in Tx \ {t}, n \in Name : locks[n] = u => locks'[n] = u

LEMMA HeldFrame ==
  ASSUME Types, Cursors, AllHeld, NEW t \in Tx, Others(t), Kept(t), Held(t)'
  PROVE  AllHeld'
<1> SUFFICES ASSUME NEW u \in Tx, u # t PROVE Held(u)'
    BY Zenon DEF AllHeld
<1>1. tx'[u] = tx[u] /\ Held(u)
    BY Zenon DEF Others, AllHeld
<1>2. edits(u)' = edits(u) /\ name(u)' = name(u)
    BY Zenon, <1>1 DEF edits, edit, name
<1>3. \A i \in 1..Len(edits(u)) : Passed(u, i)' <=> Passed(u, i)
    BY Zenon, <1>1 DEF Passed
<1>4. \A i \in 1..Len(edits(u)) : edits(u)[i].name \in Name
    <2>1. edits(u) \in Seq(WellFormed)
        BY Zenon DEF Types, TxState, edits
    <2>2. \A i \in 1..Len(edits(u)) : edits(u)[i] \in WellFormed
        BY <2>1
    <2> QED
        BY Zenon, <2>2 DEF WellFormed, Edit
<1>5. tx[u].pc = "apply" => name(u) \in Name
    BY Zenon, NameOfEdit DEF OnAnEdit
<1> QED
    BY SMTT(60), <1>1, <1>2, <1>3, <1>4, <1>5 DEF Held, Kept

LEMMA KeptStep == ASSUME Types, Cursors, AllHeld, NEW t \in Tx, Effect(t) PROVE Kept(t)
<1>1. CASE locks' = locks
    BY Zenon, <1>1 DEF Kept
<1>2. CASE DropLocks(t)
    BY Zenon, <1>2, RefTransactionAssumption DEF DropLocks, Kept, Types, RefTransactionAssumption
<1>3. CASE Takes(t) \/ Accepts(t) \/ Writes(t) \/ Drops(t)
    <2>1. name(t) \in Name
        BY Zenon, <1>3, NameOfEdit DEF Takes, Accepts, Writes, Drops, OnAnEdit
    <2>2. tx[t].pc = "apply" /\ ~tx[t].packed_tx => locks[name(t)] = t
        BY Zenon DEF AllHeld, Held
    <2>3. \/ locks' = locks
          \/ locks[name(t)] \in {NoTx, t} /\ \E o : locks' = [locks EXCEPT ![name(t)] = o]
          \/ Drops(t)
        BY Zenon, <1>3, <2>2 DEF Takes, Accepts, Writes
    <2> QED
        BY ZenonT(60), <2>1, <2>3, RefTransactionAssumption DEF Drops, Kept, Types, RefTransactionAssumption
<1> QED
    BY ZenonT(60), <1>1, <1>2, <1>3 DEF Effect, Begins, Splits, Ends, Goes, TakesPacked, ReadsPacked, Reads,
       Logs, Unlogs, WritesPacked, UnlocksPacked, Deletes, SameLocks

\* The edits stay; what is still to be deleted keeps its lock.
LEMMA HeldCarries ==
  ASSUME Types, Cursors, NEW t \in Tx, Held(t), Carries(t), tx[t].pc \notin {"idle", "pre_process"} \union Ended,
         tx'[t].pc \in {"packed_commit", "packed_unlock"} => tx'[t].packed_tx,
         ~tx'[t].packed_tx =>
           /\ tx'[t].pc = "apply" => locks'[name(t)'] = t
           /\ \A j \in 1..Len(edits(t)) :
                edits(t)[j].change = "Delete" /\ Passed(t, j)' => locks'[edits(t)[j].name] = t
  PROVE  Held(t)'
<1>1. OneNameHasOneEdit(edits(t)')
    BY SMTT(60) DEF Held, Carries, OneNameHasOneEdit
<1> QED
    BY Zenon, <1>1 DEF Held, Carries

LEMMA HeldPrepare ==
  ASSUME Types, Cursors, AllHeld, NEW t \in Tx, Others(t),
         \/ \E pc, i : Goes(t, pc, i)
         \/ TakesPacked(t) \/ ReadsPacked(t) \/ Reads(t) \/ Takes(t)
  PROVE  Held(t)'
<1>1. Held(t) /\ Cursor(t)
    BY Zenon DEF AllHeld, Cursors
<1>2. Carries(t)
    BY Zenon DEF Carries, Goes, TakesPacked, ReadsPacked, Reads, Takes, Moved, edits
<1>3. CASE \E pc, i : Goes(t, pc, i)
    <2>1. PICK pc, i : Goes(t, pc, i)
        BY Zenon, <1>3
    <2>2. CASE tx[t].pc = "pre_process"
        BY Zenon, <2>1, <2>2 DEF Goes, Moved, Held, Passed, edits
    <2>3. CASE tx[t].pc = "prepared"
        <3>1. /\ pc \in {"reflog", "delete_reflog", "packed_commit"} \union Late
              /\ pc = "packed_commit" => tx[t].packed_tx
            BY Zenon, <2>1, <2>3, PassPlaces DEF Goes
        <3>2. \A j \in 1..Len(edits(t)) : Passed(t, j)
            BY Zenon, <2>3 DEF Passed
        <3>3. tx'[t].pc = pc /\ tx'[t].packed_tx = tx[t].packed_tx /\ locks' = locks
            BY Zenon, <2>1 DEF Goes, Moved, SameLocks
        <3> QED
            BY ZenonT(60), <1>1, <1>2, <2>3, <3>1, <3>2, <3>3, HeldCarries DEF Held, Late, Ended
    <2>4. CASE tx[t].pc \in {"is_file", "lock_is_file", "packed_choice", "lock", "obtain_lock"}
        <3>1. tx'[t].pc \in Early \union {"read", "spins"} /\ (tx'[t].pc = "read" => tx'[t].at = 1)
            BY Zenon, <2>1, <2>4 DEF Goes, Moved, Early
        <3>2. \A j \in 1..Len(edits(t)) : ~Passed(t, j)'
            BY <3>1 DEF Passed, Early
        <3> QED
            BY Zenon, <1>1, <1>2, <2>4, <3>1, <3>2, HeldCarries DEF Early, Ended
    <2>5. CASE tx[t].pc = "apply"
        <3>1. tx'[t].packed_tx /\ tx'[t].pc = "obtain_lock"
            BY Zenon, <2>1, <2>5 DEF Goes, Moved
        <3> QED
            BY Zenon, <1>1, <1>2, <2>5, <3>1, HeldCarries DEF Ended
    <2> QED
        BY ZenonT(60), <2>1, <2>2, <2>3, <2>4, <2>5 DEF Goes
<1>4. CASE TakesPacked(t) \/ ReadsPacked(t)
    <2>1. tx'[t].pc \in {"packed_read", "read", "packed_lock_late"} /\ tx'[t].at = 1 /\ tx[t].pc \in Early
        BY Zenon, <1>4 DEF TakesPacked, ReadsPacked, Early
    <2>2. \A j \in 1..Len(edits(t)) : ~Passed(t, j)'
        BY <2>1 DEF Passed
    <2> QED
        BY Zenon, <1>1, <1>2, <2>1, <2>2, HeldCarries DEF Early, Ended
<1>5. CASE Reads(t)
    <2>1. ~tx'[t].packed_tx => tx'[t].pc = "lock" /\ \A j \in 1..Len(edits(t)) : Passed(t, j)' => Passed(t, j)
        BY Zenon, <1>5 DEF Reads, Passed
    <2> QED
        BY Zenon, <1>1, <1>2, <1>5, <2>1, HeldCarries DEF Reads, Held, SameLocks, Ended
<1>6. CASE Takes(t)
    <2>1. name(t) \in Name /\ tx[t].at \in 1..Len(edits(t)) /\ name(t)' = name(t)
        BY Zenon, <1>6, NameOfEdit DEF Takes, Moved, OnAnEdit, name, edit, edits
    <2>2. \A m \in Name : locks[m] = t \/ m = name(t) => locks'[m] = t
        BY Zenon, <1>6, <2>1 DEF Takes, Types
    <2>3. \A j \in 1..Len(edits(t)) : Passed(t, j)' => Passed(t, j) \/ j = tx[t].at
        BY Zenon, <1>6 DEF Takes, Moved, Passed
    <2>4. ~tx[t].packed_tx => \A j \in 1..Len(edits(t)) :
            edits(t)[j].change = "Delete" /\ Passed(t, j)' => locks'[edits(t)[j].name] = t
        BY Zenon, <1>1, <2>2, <2>3, EditNames DEF Held, name, edit
    <2> QED
        BY ZenonT(60), <1>1, <1>2, <1>6, <2>1, <2>2, <2>4, HeldCarries DEF Takes, Moved, Ended
<1> QED
    BY Zenon, <1>3, <1>4, <1>5, <1>6

LEMMA HeldAccepts == ASSUME Types, Cursors, AllHeld, NEW t \in Tx, Others(t), Accepts(t) PROVE Held(t)'
<1>1. Held(t) /\ tx[t].pc \in {"apply", "obtain_lock"}
    BY Zenon DEF AllHeld, Accepts
<1>2. Carries(t)
    BY Zenon, EffectCarries DEF Effect, Accepts, Begins, Splits, Ends, Ended
<1>3. name(t) \in Name /\ tx[t].at \in 1..Len(edits(t)) /\ OneNameHasOneEdit(edits(t))
    BY ZenonT(60), <1>1, NameOfEdit DEF OnAnEdit, Held, Ended
<1>4. \A j \in 1..Len(edits(t)) : Passed(t, j)' => (Passed(t, j) \/ j = tx[t].at)
    BY <1>1, <1>3 DEF Accepts, Passed
<1>5. ASSUME ~tx[t].packed_tx, NEW j \in 1..Len(edits(t)), edits(t)[j].change = "Delete",
             Passed(t, j) \/ j = tx[t].at
      PROVE  locks'[edits(t)[j].name] = t
    <2>1. tx[t].pc = "apply" => locks[edits(t)[j].name] = t
        BY Zenon, <1>1, <1>5 DEF Held, name, edit
    <2>2. tx[t].pc = "obtain_lock" /\ j # tx[t].at => locks[edits(t)[j].name] = t
        BY Zenon, <1>1, <1>5 DEF Held
    <2>3. edits(t)[j].name \in Name /\ (j # tx[t].at => edits(t)[j].name # name(t))
        BY Zenon, <1>3, EditNames DEF OneNameHasOneEdit, name, edit
    <2> QED
        BY Zenon, <1>3, <1>5, <2>1, <2>2, <2>3 DEF Accepts, Types, name, edit
<1> QED
    BY Zenon, <1>1, <1>2, <1>4, <1>5, HeldCarries DEF Accepts, Ended

LEMMA HeldCommit ==
  ASSUME Types, Cursors, AllHeld, NEW t \in Tx, Others(t),
         \/ Logs(t) \/ Writes(t) \/ Unlogs(t) \/ WritesPacked(t) \/ UnlocksPacked(t)
         \/ Deletes(t) \/ Drops(t)
  PROVE  Held(t)'
<1>1. Held(t)
    BY Zenon DEF AllHeld
<1>2. Carries(t)
    BY Zenon DEF Carries, Logs, Writes, Unlogs, WritesPacked, UnlocksPacked, Deletes, Drops, Moved, edits
<1>3. CASE Logs(t) \/ Writes(t) \/ Unlogs(t)
    <2>1. PICK pc, k : /\ Moved(t, pc, k) /\ pc # "apply" /\ pc # "packed_unlock"
                       /\ pc = "packed_commit" => tx[t].packed_tx
        <3>1. PICK pc, k : Moved(t, pc, k) /\ (pc = "commit_ref" \/ \E i : ToFirst(t, i, pc, k) \/ ToSecond(t, i, pc, k))
            BY Zenon, <1>3 DEF Logs, Writes, Unlogs
        <3>2. pc # "apply" /\ pc # "packed_unlock" /\ (pc = "packed_commit" => tx[t].packed_tx)
            BY Zenon, <3>1, PassPlaces DEF Late
        <3> QED
            BY Zenon, <3>1, <3>2
    <2>2. /\ tx[t].pc \in {"reflog", "commit_ref", "delete_reflog"} /\ OneNameHasOneEdit(edits(t))
          /\ \A j \in 1..Len(edits(t)) : Passed(t, j)
        BY Zenon, <1>1, <1>3 DEF Logs, Writes, Unlogs, Held, Passed, Ended
    <2>3. ASSUME ~tx[t].packed_tx, NEW j \in 1..Len(edits(t)), edits(t)[j].change = "Delete"
          PROVE  locks'[edits(t)[j].name] = t
        <3>1. locks[edits(t)[j].name] = t /\ edits(t)[j].name \in Name
            BY ZenonT(60), <1>1, <2>2, <2>3, EditNames DEF Held
        <3>2. CASE locks' = locks
            BY Zenon, <3>1, <3>2
        <3>3. CASE Writes(t)
            <4>1. tx[t].at \in 1..Len(edits(t)) /\ edits(t)[tx[t].at].change = "Update" /\ name(t) \in Name
                BY Zenon, <3>3, NameOfEdit DEF Writes, OnAnEdit, Cursors, Cursor, Updates
            <4>2. edits(t)[j].name # name(t)
                BY Zenon, <2>2, <2>3, <4>1 DEF OneNameHasOneEdit, name, edit
            <4> QED
                BY ZenonT(60), <3>1, <3>3, <4>1, <4>2 DEF Writes, Types
        <3> QED
            BY Zenon, <1>3, <3>2, <3>3 DEF Logs, Unlogs, SameLocks
    <2> QED
        BY ZenonT(60), <1>1, <1>2, <2>1, <2>2, <2>3, HeldCarries DEF Moved, Ended
<1>4. CASE WritesPacked(t) \/ UnlocksPacked(t)
    <2>1. tx[t].packed_tx /\ tx'[t].packed_tx = tx[t].packed_tx /\ tx[t].pc \in {"packed_commit", "packed_unlock"}
        BY Zenon, <1>1, <1>4 DEF Held, WritesPacked, UnlocksPacked, Moved
    <2> QED
        BY Zenon, <1>1, <1>2, <2>1, HeldCarries DEF Ended
<1>5. CASE Deletes(t)
    <2>1. \A j \in 1..Len(edits(t)) : Passed(t, j)' => Passed(t, j)
        <3> TAKE j \in 1..Len(edits(t))
        <3>1. j \in Nat /\ tx[t].at \in Nat
            BY DEF Types, TxState, edits
        <3>2. tx[t].pc = "delete_ref" /\ tx'[t].pc = "drop_lock" /\ tx'[t].at = tx[t].at
            BY Zenon, <1>5 DEF Moved, Deletes
        <3> QED
            BY <3>1, <3>2 DEF Passed
    <2> QED
        BY ZenonT(60), <1>1, <1>2, <1>5, <2>1, HeldCarries DEF Deletes, Moved, Held, SameLocks, Ended
<1>6. CASE Drops(t)
    <2>1. name(t) \in Name /\ tx[t].at \in 1..Len(edits(t)) /\ tx[t].at \in Nat /\ tx[t].pc = "drop_lock"
          /\ OneNameHasOneEdit(edits(t))
        BY Zenon, <1>1, <1>6, NameOfEdit DEF Drops, OnAnEdit, Types, TxState, Held, Ended
    <2>2. PICK pc, k : ToThird(t, tx[t].at + 1, pc, k) /\ Moved(t, pc, k)
        BY Zenon, <1>6 DEF Drops
    <2>3. /\ pc \in {"delete_ref", "finish"}
          /\ pc = "delete_ref" => k >= tx[t].at + 1 /\ k \in 1..Len(edits(t))
        BY Zenon, <2>2 DEF ToThird, FirstFrom, take_lock_and_delete
    <2>4. ASSUME ~tx[t].packed_tx, NEW j \in 1..Len(edits(t)), edits(t)[j].change = "Delete", Passed(t, j)'
          PROVE  locks'[edits(t)[j].name] = t
        <3>1. j > tx[t].at /\ j # tx[t].at
            <4>1. tx'[t].pc = pc /\ tx'[t].at = k /\ j \in Nat
                BY <2>2 DEF Moved, Types, TxState, edits
            <4>2. pc = "delete_ref" /\ j >= k
                BY Zenon, <2>3, <2>4, <4>1 DEF Passed
            <4> QED
                BY SMTT(60), <2>1, <2>3, <4>1, <4>2
        <3>2. Passed(t, j)
            BY Zenon, <2>1, <3>1 DEF Passed
        <3>3. edits(t)[j].name # name(t) /\ edits(t)[j].name \in Name
            BY Zenon, <2>1, <3>1, EditNames DEF OneNameHasOneEdit, name, edit
        <3> QED
            BY ZenonT(60), <1>1, <1>6, <2>1, <2>4, <3>2, <3>3 DEF Held, Drops, Types
    <2> QED
        BY ZenonT(60), <1>1, <1>2, <2>1, <2>2, <2>3, <2>4, HeldCarries DEF Moved, Ended
<1> QED
    BY Zenon, <1>3, <1>4, <1>5, <1>6

LEMMA HeldEffect == ASSUME Types, Cursors, AllHeld, NEW t \in Tx, Others(t), Effect(t) PROVE AllHeld'
<1>1. CASE Begins(t) \/ Splits(t) \/ Ends(t)
    <2>1. Held(t)'
        BY ZenonT(60), <1>1 DEF Begins, Splits, Ends, Ended, Held, Passed
    <2> QED
        BY Zenon, <2>1, KeptStep, HeldFrame
<1>2. CASE ~Begins(t) /\ ~Splits(t) /\ ~Ends(t)
    <2>1. Held(t)'
        BY Zenon, <1>2, HeldPrepare, HeldAccepts, HeldCommit DEF Effect
    <2> QED
        BY Zenon, <2>1, KeptStep, HeldFrame
<1> QED
    BY Zenon, <1>1, <1>2

----------------------------------------------------------------------------
(* Without packed-refs *)

OnPackedRefs == {"packed_choice", "packed_lock", "packed_read", "packed_read_first",
                 "packed_lock_late", "obtain_lock", "packed_commit", "packed_unlock"}

PlainTx(t) ==
  tx[t].packed_refs = "DeletionsOnly" /\ ~tx[t].packed_tx /\ tx[t].pc \notin OnPackedRefs

\* Nobody ever locks or creates packed-refs, and every update takes the lock of its reference.
Plain == packed = None /\ packed_lock = NoTx /\ \A t \in Tx : PlainTx(t)

LEMMA PlainEffect ==
  ASSUME Types, Cursors, PackedRefsUnused, Plain, NEW t \in Tx, Others(t), Effect(t) PROVE Plain'
<1>1. PlainTx(t) /\ packed = None /\ packed_lock = NoTx
    BY Zenon DEF Plain
<1>2. ASSUME packed' = packed, packed_lock' = packed_lock, PlainTx(t)' PROVE Plain'
    BY Zenon, <1>1, <1>2 DEF Plain, PlainTx, Others
<1>3. CASE Begins(t)
    <2>1. tx'[t].packed_refs = "DeletionsOnly"
        BY Zenon, <1>3 DEF Begins, PackedRefsUnused, Requests
    <2> QED
        BY Zenon, <1>1, <1>2, <1>3, <2>1 DEF Begins, PlainTx, OnPackedRefs, Store, SameLocks
<1>4. CASE Splits(t) \/ Reads(t)
    BY Zenon, <1>1, <1>2, <1>4 DEF Splits, Reads, PlainTx, OnPackedRefs, Store, SameLocks
<1>5. CASE Ends(t)
    <2>1. PlainTx(t)'
        BY Zenon, <1>5 DEF Ends, Ended, PlainTx, OnPackedRefs
    <2>2. packed_lock' = packed_lock /\ packed' = packed
        BY Zenon, <1>1, <1>5 DEF Ends, DropLocks, SameLocks, Store
    <2> QED
        BY Zenon, <1>2, <2>1, <2>2
<1>6. CASE \E pc, i : Goes(t, pc, i)
    <2>1. PICK pc, i : Goes(t, pc, i)
        BY Zenon, <1>6
    <2>2. pc \notin OnPackedRefs
        <3>1. CASE tx[t].pc = "prepared"
            BY ZenonT(60), <1>1, <2>1, <3>1, PassPlaces DEF Goes, PlainTx, OnPackedRefs, Late
        <3> QED
            BY Zenon, <1>1, <2>1, <3>1 DEF Goes, PlainTx, OnPackedRefs, WithUpdates
    <2> QED
        BY Zenon, <1>1, <1>2, <2>1, <2>2 DEF Goes, Moved, PlainTx, Store, SameLocks
<1>7. CASE Takes(t) \/ Accepts(t) \/ Deletes(t)
    BY ZenonT(60), <1>1, <1>2, <1>7 DEF Takes, Accepts, Deletes, Moved, PlainTx, OnPackedRefs, Store, SameLocks
<1>8. CASE Logs(t) \/ Writes(t) \/ Unlogs(t) \/ Drops(t)
    <2>1. PICK pc, k : /\ Moved(t, pc, k)
                       /\ \/ pc = "commit_ref"
                          \/ \E i : ToFirst(t, i, pc, k) \/ ToSecond(t, i, pc, k) \/ ToThird(t, i, pc, k)
        BY Zenon, <1>8 DEF Logs, Writes, Unlogs, Drops
    <2>2. pc \notin OnPackedRefs
        BY ZenonT(60), <1>1, <2>1, PassPlaces DEF PlainTx, OnPackedRefs, Late
    <2>3. packed' = packed /\ packed_lock' = packed_lock
        BY Zenon, <1>8 DEF Logs, Writes, Unlogs, Drops, Store, SameLocks
    <2> QED
        BY ZenonT(60), <1>1, <1>2, <2>1, <2>2, <2>3 DEF Moved, PlainTx
<1>9. ~TakesPacked(t) /\ ~ReadsPacked(t) /\ ~WritesPacked(t) /\ ~UnlocksPacked(t)
    BY Zenon, <1>1 DEF PlainTx, OnPackedRefs, TakesPacked, ReadsPacked, WritesPacked, UnlocksPacked
<1> QED
    BY ZenonT(60), <1>3, <1>4, <1>5, <1>6, <1>7, <1>8, <1>9 DEF Effect

LocksInv == Types /\ Cursors /\ AllHeld /\ (PackedRefsUnused => Plain)

LEMMA LocksEffect ==
  ASSUME LocksInv, NEW t \in Tx, Others(t), Effect(t), given' = given
  PROVE  LocksInv'
<1>1. PackedRefsUnused' <=> PackedRefsUnused
    BY Zenon DEF PackedRefsUnused, Requests
<1> QED
    BY ZenonT(60), <1>1, TypeEffect, HeldEffect, PlainEffect DEF LocksInv

LEMMA LocksSame ==
  ASSUME LocksInv, UNCHANGED <<loose, packed, reflog, locks, packed_lock, tx, given>>
  PROVE  LocksInv'
<1>1. Types' /\ Cursors'
    BY Zenon DEF LocksInv, Types, Cursors, Cursor, edits, Updates, Deletions, take_lock_and_delete,
       delete_loose_refs, direct_to_packed_refs
<1>2. AllHeld'
    BY ZenonT(60) DEF LocksInv, AllHeld, Held, Passed, name, edit, edits
<1>3. (PackedRefsUnused => Plain)'
    BY Zenon DEF LocksInv, PackedRefsUnused, Requests, Plain, PlainTx
<1> QED
    BY ZenonT(60), <1>1, <1>2, <1>3 DEF LocksInv

LEMMA LocksStep == LocksInv /\ [Next]_vars => LocksInv'
<1> SUFFICES ASSUME LocksInv, [Next]_vars PROVE LocksInv'
    BY Zenon
<1>1. ASSUME NEW t \in Tx, start(t) \/ Step(t) \/ io_error(t) \/ kill(t) PROVE LocksInv'
    <2>1. Others(t) /\ UNCHANGED <<lookup, given>> /\ Effect(t)
        BY Zenon, <1>1, StepEffect DEF LocksInv
    <2> QED
        BY Zenon, <2>1, LocksEffect
<1>2. ASSUME NEW r \in Reader, try_find(r) \/ find_inner(r) PROVE LocksInv'
    BY Zenon, <1>2, LocksSame DEF try_find, find_inner, Store
<1>3. CASE UNCHANGED vars
    BY Zenon, <1>3, LocksSame DEF vars
<1> QED
    BY Zenon, <1>1, <1>2, <1>3 DEF Next

LEMMA LocksInit == Init => LocksInv
<1> SUFFICES ASSUME Init PROVE LocksInv
    BY Zenon
<1>1. \A t \in Tx : tx[t] = Idle
    BY Zenon DEF Init
<1>2. Idle.pc = "idle" /\ Idle.packed_refs = "DeletionsOnly" /\ Idle.packed_tx = FALSE
    BY Zenon DEF Idle
<1>3. AllHeld
    BY Zenon, <1>1, <1>2 DEF AllHeld, Held, Passed
<1>4. PackedRefsUnused => Plain
    BY ZenonT(60), <1>1, <1>2 DEF Init, PackedRefsUnused, Plain, PlainTx, OnPackedRefs
<1> QED
    BY ZenonT(60), <1>3, <1>4, TypeInit DEF LocksInv

(***************************************************************************)
(* Whoever writes a reference file holds its lock, and only they.          *)
(***************************************************************************)
LEMMA WritersHoldTheLock ==
  ASSUME LocksInv, Plain, NEW t \in Tx, Others(t), Effect(t), NEW n \in Name, loose'[n] # loose[n]
  PROVE  locks[n] = t /\ tx'[t] # tx[t]
<1> USE DEF LocksInv
<1>1. CASE Writes(t)
    <2>1. name(t) \in Name /\ tx[t].pc = "commit_ref"
        BY Zenon, <1>1, NameOfEdit DEF Writes, OnAnEdit
    <2>2. PICK pc, k : ToFirst(t, tx[t].at + 1, pc, k) /\ Moved(t, pc, k)
        BY Zenon, <1>1 DEF Writes
    <2>3. tx'[t].pc # "commit_ref"
        BY Zenon, <2>2, PassPlaces DEF Moved, Late
    <2> QED
        BY ZenonT(60), <1>1, <2>1, <2>3 DEF Writes, Types
<1>2. CASE Deletes(t)
    <2>1. /\ name(t) \in Name /\ tx[t].at \in 1..Len(edits(t)) /\ tx[t].at \in take_lock_and_delete(t)
          /\ tx[t].pc = "delete_ref" /\ tx'[t].pc = "drop_lock" /\ tx[t].at \in Nat
        BY ZenonT(60), <1>2, NameOfEdit DEF Deletes, Moved, OnAnEdit, Cursors, Cursor, Types, TxState
    <2>2. edits(t)[tx[t].at].change = "Delete" /\ ~tx[t].packed_tx
        BY ZenonT(60), <2>1 DEF take_lock_and_delete, delete_loose_refs, direct_to_packed_refs, Plain, PlainTx
    <2>3. Passed(t, tx[t].at)
        BY SMTT(60), <2>1 DEF Passed
    <2>4. locks[name(t)] = t
        BY ZenonT(60), <2>1, <2>2, <2>3 DEF AllHeld, Held, name, edit
    <2>5. n = name(t)
        BY Zenon, <1>2, <2>1 DEF Deletes, Types
    <2> QED
        BY ZenonT(60), <2>1, <2>4, <2>5
<1> QED
    BY ZenonT(60), <1>1, <1>2 DEF Effect, Begins, Splits, Ends, Goes, TakesPacked, ReadsPacked, Reads,
       Takes, Accepts, Logs, Unlogs, WritesPacked, UnlocksPacked, Drops, Store

(***************************************************************************)
(* PreparedRefsAreFrozen: "transactions are prepared which is when other   *)
(* writers are prevented from changing them".  Every writer of a reference *)
(* file holds that reference's lock, so nobody writes one that is locked   *)
(* by somebody else; this rests on the locks prepare took and commit still *)
(* holds (AllHeld), and on nobody using the lock of packed-refs in their   *)
(* place (Plain).                                                          *)
(***************************************************************************)
THEOREM Frozen == Spec => PreparedRefsAreFrozen
<1> DEFINE A == \A t \in Tx, n \in Name :
                  PackedRefsUnused /\ locks[n] = t /\ ~At(t, "killed") /\ loose'[n] # loose[n]
                    => tx'[t] # tx[t]
<1>1. ASSUME LocksInv, [Next]_vars PROVE A
    <2> SUFFICES ASSUME NEW t \in Tx, NEW n \in Name, PackedRefsUnused, locks[n] = t,
                        loose'[n] # loose[n]
                 PROVE  tx'[t] # tx[t]
        BY Zenon
    <2>1. PICK u \in Tx : start(u) \/ Step(u) \/ io_error(u) \/ kill(u)
        BY Zenon, <1>1 DEF Next, vars, try_find, find_inner, Store
    <2>2. Others(u) /\ Effect(u)
        BY Zenon, <1>1, <2>1, StepEffect DEF LocksInv
    <2>3. locks[n] = u /\ tx'[u] # tx[u]
        BY ZenonT(60), <1>1, <2>2, WritersHoldTheLock DEF LocksInv
    <2> QED
        BY Zenon, <2>3
<1>2. LocksInv /\ [Next]_vars => [A]_vars
    BY Zenon, <1>1
<1> HIDE DEF A
<1>3. Spec => [][A]_vars
    BY <1>2, LocksInit, LocksStep, PTL DEF Spec
<1> QED
    BY Zenon, <1>3 DEF PreparedRefsAreFrozen, A
=============================================================================
