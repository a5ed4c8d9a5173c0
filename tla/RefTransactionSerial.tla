------------------------ MODULE RefTransactionSerial ------------------------
(***************************************************************************)
(* Compare-and-swap across processes with an existing packed-refs file.    *)
(***************************************************************************)
EXTENDS RefTransactionPacked

OnlyUpdates == given.packed # None /\ NobodyPrunes /\ NobodyDeletes

\* The reference is written, and packed-refs is not written yet.
Through(t, i) ==
  \/ tx[t].pc \in {"reflog", "commit_ref"} /\ i < tx[t].at
  \/ tx[t].pc \in {"delete_reflog", "packed_commit"}

\* packed-refs is locked for as long as its references are dealt with.
Locked(t) ==
  /\ tx[t].pc # "lock_is_file"
  /\ tx[t].pc \in WithLock /\ ForPackedRefs(t) # {} => tx[t].packed_tx

\* Files and copies of packed-refs have the old value of references without a file.
Old(file, n) == loose[n] = None => file[n] = given.packed[n]

Copy(t) == Taken(t) => tx[t].buffer # None /\ \A n \in Packable : Old(tx[t].buffer, n)

\* What is compared is the value of the reference.
Compared(t) ==
  /\ tx[t].pc \in {"lock", "apply", "obtain_lock"} /\ tx[t].at \in ForPackedRefs(t)
       => tx[t].existing = Value(name(t))
  /\ tx[t].pc = "obtain_lock" => MayUpdate(edit(t).expected, tx[t].existing, edit(t).new)

Expected(t) ==
  \A i \in ForPackedRefs(t) :
    Seen(t, i) /\ edits(t)[i].expected.is = "MustExistAndMatch"
      => edits(t)[i].expected.value = Value(edits(t)[i].name)

\* Updates that are written to packed-refs, too, change nothing there or have a file.
Known(t, i) == edits(t)[i].new = given.packed[edits(t)[i].name] \/ loose[edits(t)[i].name] # None

Current(t) ==
  \A i \in PackedUpdates(t) :
    /\ Seen(t, i) => locks[edits(t)[i].name] = t \/ Known(t, i)
    /\ Through(t, i) => Known(t, i)

Serial == OnlyUpdates =>
  /\ packed # None /\ \A n \in Packable : Old(packed, n)
  /\ \A t \in Tx : Locked(t) /\ Copy(t) /\ Compared(t) /\ Expected(t) /\ Current(t)

SerialInv == PackedInv /\ Serial

----------------------------------------------------------------------------

LEMMA JustUpdates ==
  ASSUME SerialInv, OnlyUpdates, NEW t \in Tx
  PROVE  /\ ~direct_to_packed_refs(t) /\ take_lock_and_delete(t) = {} /\ Deletions(t) = {}
         /\ Updates(t) = 1..Len(edits(t)) /\ \A n \in Name : n \notin Names(t, "Delete")
<1>1. ~delete_loose_refs(t) /\ \A i \in 1..Len(edits(t)) : edits(t)[i].change = "Update"
    BY Zenon DEF SerialInv, PackedInv, Asked, OnlyUpdates
<1> QED
    BY Zenon, <1>1 DEF delete_loose_refs, take_lock_and_delete, Deletions, Updates, Names

LEMMA NextUpdate ==
  ASSUME SerialInv, OnlyUpdates, NEW t \in Tx, NEW i, NEW pc, NEW k, ToFirst(t, i, pc, k)
  PROVE  \/ pc = "reflog" /\ FirstFrom(Updates(t), i, k)
         \/ pc \in {"packed_commit", "finish"} /\ \A j \in Updates(t) : j < i
<1>1. take_lock_and_delete(t) = {} /\ Deletions(t) = {}
    BY ZenonT(60), JustUpdates
<1> QED
    BY Zenon, <1>1 DEF ToFirst, ToSecond, ToThird, FirstFrom

\* Files stay, and what is merged into packed-refs is known.
LEMMA SerialFiles ==
  ASSUME SerialInv, OnlyUpdates, NEW t \in Tx, Others(t), Effect(t), given' = given
  PROVE  /\ \A n \in Name : loose[n] # None => loose'[n] # None
         /\ packed' # None /\ \A n \in Packable : Old(packed, n)'
<1>1. /\ Types /\ Cursors /\ Guarded /\ Asked /\ Own(t) /\ NobodyPrunes /\ NobodyDeletes
      /\ packed # None /\ (\A n \in Packable : Old(packed, n)) /\ Copy(t) /\ Current(t)
    BY Zenon DEF SerialInv, PackedInv, LocksInv, Guarded, Serial, OnlyUpdates
<1>2. \A n \in Name : loose[n] # None => loose'[n] # None
    BY Zenon, <1>1, JustUpdates, LooseKept
<1>3. \A n \in Packable : n \in Name
    BY Zenon, RefTransactionAssumption DEF RefTransactionAssumption
<1>4. CASE packed' = packed
    BY Zenon, <1>1, <1>2, <1>3, <1>4 DEF Old
<1>5. CASE WritesPacked(t)
    <2>1. tx[t].pc = "packed_commit" /\ tx[t].packed_tx
        BY Zenon, <1>1, <1>5 DEF WritesPacked, Own
    <2>2. packed' \in {packed, MergedPackedRefs(t)}
        <3>1. tx'[t].pc # "packed_unlock"
            BY Zenon, <1>1, <1>5, PackedGrows
        <3> QED
            BY Zenon, <1>5, <3>1 DEF WritesPacked, Moved
    <2>3. ASSUME NEW n \in Packable, loose[n] = None PROVE MergedPackedRefs(t)[n] = given.packed[n]
        <3> DEFINE mine == {i \in packed_edits(t) : edits(t)[i].name = n}
        <3>1. MergedPackedRefs(t)[n] =
                IF mine # {} THEN edits(t)[CHOOSE i \in mine : TRUE].new
                ELSE IF tx[t].buffer = None THEN None ELSE tx[t].buffer[n]
            BY Zenon, <1>3 DEF MergedPackedRefs
        <3>2. tx[t].buffer # None /\ tx[t].buffer[n] = given.packed[n]
            BY Zenon, <1>1, <2>1, <2>3 DEF Copy, Taken, Old
        <3>3. ASSUME NEW i \in mine PROVE edits(t)[i].new = given.packed[n]
            <4>1. i \in PackedUpdates(t)
                BY Zenon, JustUpdates DEF packed_edits, edits_for_packed_transaction, ForPackedRefs, Deletions
            <4>2. Known(t, i)
                BY Zenon, <1>1, <2>1, <4>1 DEF Current, Through
            <4> QED
                BY Zenon, <2>3, <4>2 DEF Known
        <3>4. mine # {} => (CHOOSE i \in mine : TRUE) \in mine
            BY Zenon
        <3> HIDE DEF mine
        <3> QED
            BY Zenon, <3>1, <3>2, <3>3, <3>4
    <2>4. MergedPackedRefs(t) # None
        BY Zenon, <1>1, MergedTypes, RefTransactionAssumption DEF RefTransactionAssumption
    <2> QED
        BY ZenonT(60), <1>1, <1>2, <1>3, <2>2, <2>3, <2>4 DEF Old
<1> QED
    BY ZenonT(60), <1>1, <1>2, <1>4, <1>5, PackedLockStep DEF Effect, Begins, Splits, Ends, Goes,
       TakesPacked, ReadsPacked, Reads, Takes, Accepts, Logs, Writes, Unlogs, UnlocksPacked, Deletes, Drops,
       Store

LEMMA LockedStep ==
  ASSUME SerialInv, OnlyUpdates, NEW t \in Tx, Others(t), Effect(t)
  PROVE  Locked(t)'
<1>1. /\ Types /\ Cursors /\ Guarded /\ Own(t) /\ Own(t)' /\ packed # None /\ Locked(t)
    BY Zenon, OwnStep DEF SerialInv, PackedInv, LocksInv, Guarded, Serial
<1>2. CASE Begins(t) \/ Splits(t) \/ Ends(t)
    BY Zenon, <1>2 DEF Begins, Splits, Ends, Ended, Locked, WithLock
<1>3. CASE Carries(t) /\ ~Begins(t) /\ ~Splits(t) /\ ~Ends(t)
    <2>1. ForPackedRefs(t)' = ForPackedRefs(t)
        BY ZenonT(60), <1>1, <1>3, SameKinds
    <2>2. CASE \E pc, i : Goes(t, pc, i)
        <3>1. PICK pc, i : Goes(t, pc, i)
            BY Zenon, <2>2
        <3>2. CASE tx[t].pc = "prepared"
            BY ZenonT(60), <1>1, <2>1, <3>1, <3>2, PassPlaces DEF Goes, Moved, Locked, WithLock, Late
        <3> QED
            BY ZenonT(60), <1>1, <2>1, <3>1, <3>2 DEF Goes, Moved, Locked, WithLock
    <2>3. CASE TakesPacked(t) \/ ReadsPacked(t)
        BY ZenonT(60), <1>1, <2>1, <2>3 DEF TakesPacked, ReadsPacked, Locked, WithLock
    <2>4. CASE Reads(t) \/ Takes(t) \/ Accepts(t) \/ Deletes(t)
        BY ZenonT(60), <1>1, <2>1, <2>4 DEF Reads, Takes, Accepts, Deletes, Moved, Locked, WithLock
    <2>5. CASE Logs(t) \/ Writes(t) \/ Unlogs(t) \/ WritesPacked(t) \/ UnlocksPacked(t) \/ Drops(t)
        <3>1. tx'[t].packed_tx = tx[t].packed_tx /\ tx'[t].pc # "lock_is_file"
            <4>1. PICK pc, k : /\ Moved(t, pc, k)
                               /\ \/ pc \in {"commit_ref", "packed_unlock"}
                                  \/ \E i : ToFirst(t, i, pc, k) \/ ToSecond(t, i, pc, k) \/ ToThird(t, i, pc, k)
                BY ZenonT(60), <2>5 DEF Logs, Writes, Unlogs, WritesPacked, UnlocksPacked, Drops
            <4> QED
                BY ZenonT(60), <4>1, PassPlaces DEF Moved, Late
        <3>2. CASE tx[t].pc \in WithLock
            BY ZenonT(60), <1>1, <2>1, <3>1, <3>2 DEF Locked
        <3>3. CASE Drops(t)
            <4>1. tx[t].at \in take_lock_and_delete(t)
                BY ZenonT(60), <1>1, <3>3 DEF Drops, Cursors, Cursor
            <4> QED
                BY ZenonT(60), <4>1, JustUpdates
        <3> QED
            BY ZenonT(60), <2>5, <3>2, <3>3 DEF Logs, Writes, Unlogs, WritesPacked, UnlocksPacked, WithLock
    <2> QED
        BY ZenonT(60), <1>3, <2>2, <2>3, <2>4, <2>5 DEF Effect
<1> QED
    BY ZenonT(60), <1>1, <1>2, <1>3, EffectCarries

LEMMA CopyStep ==
  ASSUME SerialInv, OnlyUpdates, NEW t \in Tx, Others(t), Effect(t), given' = given, NEW u \in Tx
  PROVE  Copy(u)'
<1>1. /\ Types /\ Cursors /\ Guarded /\ Own(t) /\ packed # None /\ Copy(u)
      /\ \A n \in Packable : Old(packed, n) /\ (loose[n] # None => loose'[n] # None)
    BY Zenon, SerialFiles, RefTransactionAssumption
    DEF SerialInv, PackedInv, LocksInv, Guarded, Serial, RefTransactionAssumption
<1>2. ASSUME Taken(u)' => Taken(u), tx'[u].buffer = tx[u].buffer PROVE Copy(u)'
    BY ZenonT(60), <1>1, <1>2 DEF Copy, Old
<1>3. CASE u # t
    BY Zenon, <1>2, <1>3 DEF Others, Taken
<1>4. CASE Begins(t) \/ Splits(t) \/ Ends(t)
    <2>1. u = t => ~Taken(u)'
        BY Zenon, <1>1, <1>4 DEF Begins, Splits, Ends, Ended, Own, WithLock, Late, Taken
    <2> QED
        BY Zenon, <1>3, <2>1 DEF Copy
<1>5. CASE u = t /\ ReadsPacked(t)
    BY Zenon, <1>1, <1>5 DEF ReadsPacked, Copy, Old
<1>6. CASE u = t /\ TakesPacked(t)
    <2>1. CASE tx[t].pc = "packed_lock"
        BY ZenonT(60), <1>6, <2>1 DEF TakesPacked, Copy, Taken
    <2> QED
        BY ZenonT(60), <1>2, <1>6, <2>1 DEF TakesPacked, Taken
<1>7. CASE u = t /\ (Reads(t) \/ Takes(t) \/ Accepts(t) \/ Deletes(t))
    BY Zenon, <1>2, <1>7 DEF Reads, Takes, Accepts, Deletes, Moved, Taken
<1>8. CASE u = t /\ \E pc, i : Goes(t, pc, i)
    <2>1. PICK pc, i : Goes(t, pc, i)
        BY Zenon, <1>8
    <2>2. pc # "packed_lock_late"
        BY ZenonT(60), <2>1, PassPlaces DEF Goes, Late
    <2> QED
        BY ZenonT(60), <1>2, <1>8, <2>1, <2>2 DEF Goes, Moved, Taken
<1>9. CASE u = t /\ (Logs(t) \/ Writes(t) \/ Unlogs(t) \/ WritesPacked(t) \/ UnlocksPacked(t) \/ Drops(t))
    <2>1. PICK pc, k : /\ Moved(t, pc, k)
                       /\ \/ pc \in {"commit_ref", "packed_unlock"}
                          \/ \E i : ToFirst(t, i, pc, k) \/ ToSecond(t, i, pc, k) \/ ToThird(t, i, pc, k)
        BY Zenon, <1>9 DEF Logs, Writes, Unlogs, WritesPacked, UnlocksPacked, Drops
    <2>2. pc # "packed_lock_late"
        BY ZenonT(60), <2>1, PassPlaces DEF Late
    <2> QED
        BY ZenonT(60), <1>2, <1>9, <2>1, <2>2 DEF Moved, Taken
<1> QED
    BY ZenonT(60), <1>3, <1>4, <1>5, <1>6, <1>7, <1>8, <1>9 DEF Effect

\* Only the holder of the lock of packed-refs changes values of references it can hold.
LEMMA ValueFrozen ==
  ASSUME SerialInv, OnlyUpdates, NEW t \in Tx, Others(t), Effect(t), NEW n \in Packable,
         loose'[n] # loose[n] \/ packed' # packed
  PROVE  packed_lock = t /\ (tx[t].pc = "packed_commit" \/ (tx[t].pc = "commit_ref" /\ name(t) = n))
<1>1. /\ Types /\ Cursors /\ Guarded /\ Own(t) /\ Holds(t) /\ Locked(t)
    BY Zenon DEF SerialInv, PackedInv, LocksInv, Guarded, Serial
<1>2. CASE packed' # packed
    BY ZenonT(60), <1>1, <1>2, PackedLockStep
<1>3. CASE Writes(t) /\ loose'[n] # loose[n]
    <2>1. name(t) = n /\ edit(t).log # "Only" /\ tx[t].pc = "commit_ref" /\ tx[t].at \in 1..Len(edits(t))
        <3>1. tx[t].pc = "commit_ref" /\ tx[t].at \in 1..Len(edits(t))
            BY ZenonT(60), <1>1, <1>3 DEF Writes, Cursors, Cursor, OnAnEdit
        <3>2. n \in Name /\ loose = [m \in Name |-> loose[m]]
            BY ZenonT(60), <1>1, RefTransactionAssumption DEF Types, RefTransactionAssumption
        <3> QED
            BY ZenonT(60), <1>3, <3>1, <3>2 DEF Writes
    <2>2. edits(t)[tx[t].at] \in WellFormed
        BY <1>1, <2>1 DEF Types, TxState, edits
    <2>3. tx[t].at \in ForPackedRefs(t)
        BY ZenonT(60), <2>1, <2>2 DEF ForPackedRefs, edit, name, WellFormed, Edit,
           possibly_adjust_name_for_prefixes
    <2> QED
        BY ZenonT(60), <1>1, <2>1, <2>3 DEF Locked, Holds, WithLock
<1>4. CASE Deletes(t)
    BY ZenonT(60), <1>1, <1>4, JustUpdates DEF Deletes, Cursors, Cursor
<1> QED
    BY ZenonT(60), <1>2, <1>3, <1>4 DEF Effect, Begins, Splits, Ends, Goes, TakesPacked, ReadsPacked, Reads,
       Takes, Accepts, Logs, Unlogs, WritesPacked, UnlocksPacked, Drops, Store

\* What does not take the step has references of its own for as long as it holds the lock.
LEMMA OthersValues ==
  ASSUME SerialInv, OnlyUpdates, NEW t \in Tx, Others(t), Effect(t), NEW u \in Tx, u # t,
         tx[u].pc \in WithLock, NEW i \in ForPackedRefs(u)
  PROVE  LET n == edits(u)[i].name IN loose'[n] = loose[n] /\ packed' = packed
<1>1. packed_lock = u
    BY Zenon DEF SerialInv, Serial, PackedInv, Guarded, Holds, Locked
<1>2. edits(u)[i].name \in Packable
    BY Zenon DEF ForPackedRefs, possibly_adjust_name_for_prefixes
<1> QED
    BY ZenonT(60), <1>1, <1>2, ValueFrozen

LEMMA ComparedStep ==
  ASSUME SerialInv, OnlyUpdates, NEW t \in Tx, Others(t), Effect(t)
  PROVE  Compared(t)'
<1>1. /\ Types /\ Cursors /\ Compared(t) /\ Locked(t) /\ Copy(t) /\ packed # None
      /\ \A n \in Packable : Old(packed, n)
    BY Zenon DEF SerialInv, PackedInv, LocksInv, Serial
<1>2. CASE Reads(t)
    <2>1. /\ tx'[t].pc \in {"apply", "lock"} /\ ForPackedRefs(t)' = ForPackedRefs(t) /\ tx'[t].at = tx[t].at
          /\ name(t)' = name(t) /\ loose' = loose /\ packed' = packed
        BY Zenon, <1>2 DEF Reads, Store, ForPackedRefs, edits, edit, name
    <2>2. ASSUME tx[t].at \in ForPackedRefs(t) PROVE tx'[t].existing = Value(name(t))
        <3>1. name(t) \in Packable
            BY ZenonT(60), <2>2 DEF ForPackedRefs, name, edit, possibly_adjust_name_for_prefixes
        <3>2. tx[t].packed_tx
            BY ZenonT(60), <1>1, <1>2, <2>2 DEF Reads, Locked, WithLock
        <3>3. tx[t].buffer # None /\ Old(tx[t].buffer, name(t)) /\ Old(packed, name(t))
            BY ZenonT(60), <1>1, <3>1, <3>2 DEF Copy, Taken
        <3> QED
            BY ZenonT(60), <1>1, <1>2, <3>2, <3>3 DEF Reads, Value, Overlay, Old
    <2> QED
        BY ZenonT(60), <2>1, <2>2 DEF Compared, Value
<1>3. CASE Takes(t)
    <2>1. /\ tx[t].pc = "lock" /\ tx'[t].pc = "apply" /\ tx'[t].at = tx[t].at /\ tx'[t].edits = tx[t].edits
          /\ tx'[t].existing = tx[t].existing /\ loose' = loose /\ packed' = packed
        BY Zenon, <1>3 DEF Takes, Moved, Store
    <2>2. name(t)' = name(t) /\ ForPackedRefs(t)' = ForPackedRefs(t)
        BY Zenon, <2>1 DEF edit, edits, name, ForPackedRefs
    <2> QED
        BY ZenonT(60), <1>1, <2>1, <2>2 DEF Compared, Value
<1>4. CASE \E pc, i : Goes(t, pc, i) /\ pc = "obtain_lock"
    <2>1. /\ tx[t].pc = "apply" /\ tx'[t].pc = "obtain_lock" /\ tx'[t].at = tx[t].at /\ tx'[t].edits = tx[t].edits
          /\ tx'[t].existing = tx[t].existing /\ loose' = loose /\ packed' = packed
          /\ MayUpdate(edit(t).expected, tx[t].existing, edit(t).new)
        BY ZenonT(60), <1>4, PassPlaces DEF Goes, Moved, Store, Late
    <2>2. edit(t)' = edit(t) /\ name(t)' = name(t) /\ ForPackedRefs(t)' = ForPackedRefs(t)
        BY Zenon, <2>1 DEF edit, edits, name, ForPackedRefs
    <2> QED
        BY ZenonT(60), <1>1, <2>1, <2>2 DEF Compared, Value
<1>5. CASE tx'[t].pc \notin {"lock", "apply", "obtain_lock"}
    BY ZenonT(60), <1>5 DEF Compared
<1>6. ASSUME ~Reads(t), ~Takes(t), ~(\E pc, i : Goes(t, pc, i) /\ pc = "obtain_lock")
      PROVE  tx'[t].pc \notin {"lock", "apply", "obtain_lock"}
    <2>1. CASE \E pc, i : Goes(t, pc, i)
        <3>1. PICK pc, i : Goes(t, pc, i)
            BY Zenon, <2>1
        <3>2. pc # "obtain_lock" /\ (tx[t].pc = "prepared" => pc \notin {"lock", "apply"})
            BY ZenonT(60), <1>6, <3>1, PassPlaces DEF Goes, Late
        <3> QED
            BY ZenonT(60), <3>1, <3>2 DEF Goes, Moved
    <2>2. CASE Logs(t) \/ Writes(t) \/ Unlogs(t) \/ WritesPacked(t) \/ UnlocksPacked(t) \/ Drops(t)
        <3>1. PICK pc, k : /\ Moved(t, pc, k)
                           /\ \/ pc \in {"commit_ref", "packed_unlock"}
                              \/ \E i : ToFirst(t, i, pc, k) \/ ToSecond(t, i, pc, k) \/ ToThird(t, i, pc, k)
            BY Zenon, <2>2 DEF Logs, Writes, Unlogs, WritesPacked, UnlocksPacked, Drops
        <3> QED
            BY ZenonT(60), <3>1, PassPlaces DEF Moved, Late
    <2>3. CASE Begins(t) \/ Splits(t) \/ Ends(t) \/ TakesPacked(t) \/ ReadsPacked(t)
        BY Zenon, <2>3 DEF Begins, Splits, Ends, Ended, TakesPacked, ReadsPacked
    <2>4. CASE Accepts(t) \/ Deletes(t)
        BY Zenon, <2>4 DEF Accepts, Deletes, Moved
    <2> QED
        BY ZenonT(60), <1>6, <2>1, <2>2, <2>3, <2>4 DEF Effect
<1> QED
    BY ZenonT(60), <1>2, <1>3, <1>4, <1>5, <1>6

\* References that were compared before stay as they are until they are written.
LEMMA SeenStep ==
  ASSUME SerialInv, OnlyUpdates, NEW t \in Tx, Others(t), Effect(t), Carries(t), ~Begins(t), ~Splits(t), ~Ends(t),
         NEW i \in ForPackedRefs(t), Seen(t, i)', NEW n, n = edits(t)[i].name
  PROVE  \/ Accepts(t) /\ i = tx[t].at
         \/ /\ Seen(t, i) /\ edits(t)'[i].expected = edits(t)[i].expected
            /\ loose'[n] = loose[n] /\ packed' = packed
            /\ locks[n] = t => locks'[n] = t
<1>1. /\ Types /\ Cursors /\ Held(t) /\ i \in 1..Len(edits(t)) /\ n \in Packable /\ n \in Name
    BY Zenon, RefTransactionAssumption DEF SerialInv, PackedInv, LocksInv, AllHeld, ForPackedRefs,
       possibly_adjust_name_for_prefixes, RefTransactionAssumption
<1>2. ASSUME tx[t].pc \in OnAnEdit, tx[t].at # i PROVE name(t) # n
    <2>1. tx[t].at \in 1..Len(edits(t)) /\ tx[t].pc \notin {"idle", "pre_process"} \union Ended
        BY ZenonT(60), <1>1, <1>2 DEF Cursors, Cursor, OnAnEdit, Ended
    <2>2. OneNameHasOneEdit(edits(t))
        BY ZenonT(60), <1>1, <2>1 DEF Held
    <2> QED
        BY ZenonT(60), <1>1, <1>2, <2>1, <2>2 DEF OneNameHasOneEdit, name, edit
<1>3. CASE \E pc, k : Goes(t, pc, k)
    <2>1. PICK pc, k : Goes(t, pc, k)
        BY Zenon, <1>3
    <2>2. tx[t].pc = "prepared" => pc \in {"reflog", "packed_commit", "finish"}
        BY ZenonT(60), <2>1, NextUpdate DEF Goes
    <2>3. loose' = loose /\ packed' = packed /\ locks' = locks /\ edits(t)' = edits(t)
        BY ZenonT(60), <2>1 DEF Goes, Moved, Store, SameLocks, edits
    <2>4. Seen(t, i)
        BY SMTT(60), <1>1, <2>1, <2>2 DEF Goes, Moved, Seen
    <2> QED
        BY ZenonT(60), <2>3, <2>4
<1>4. CASE TakesPacked(t) \/ ReadsPacked(t)
    BY SMTT(60), <1>1, <1>4 DEF TakesPacked, ReadsPacked, Seen
<1>5. CASE Reads(t)
    BY ZenonT(60), <1>5 DEF Reads, Seen, Store, SameLocks, edits
<1>6. CASE Takes(t)
    <2>1. Seen(t, i) /\ tx[t].at # i /\ edits(t)' = edits(t)
        BY SMTT(60), <1>1, <1>6 DEF Takes, Moved, Seen, edits
    <2> QED
        BY ZenonT(60), <1>1, <1>2, <1>6, <2>1 DEF Takes, Store, OnAnEdit, Types
<1>7. CASE Accepts(t) /\ i # tx[t].at
    <2>1. tx[t].at \in 1..Len(edits(t)) /\ tx[t].pc \in OnAnEdit /\ tx[t].pc \in {"apply", "obtain_lock"}
        BY ZenonT(60), <1>1, <1>7 DEF Accepts, Cursors, Cursor, OnAnEdit
    <2>2. i < tx[t].at
        BY SMTT(60), <1>1, <1>7, <2>1 DEF Accepts, Seen
    <2>3. edits(t)'[i].expected = edits(t)[i].expected
        <3>1. Applied(t)[i].expected = edits(t)[i].expected
            BY ZenonT(60), <1>1, <1>7, <2>1, AppliedTypes
        <3> QED
            BY ZenonT(60), <1>7, <3>1 DEF Accepts, edits
    <2>4. locks'[n] = locks[n]
        BY ZenonT(60), <1>1, <1>2, <1>7, <2>1 DEF Accepts, Types
    <2> QED
        BY ZenonT(60), <1>7, <2>1, <2>2, <2>3, <2>4 DEF Accepts, Store, Seen
<1>8. CASE Logs(t)
    <2>1. Moved(t, "commit_ref", tx[t].at)
        BY ZenonT(60), <1>8, JustUpdates DEF Logs, delete_loose_refs
    <2> QED
        BY ZenonT(60), <1>8, <2>1 DEF Logs, Moved, Seen, SameLocks, edits
<1>9. CASE Writes(t)
    <2>1. PICK pc, k : ToFirst(t, tx[t].at + 1, pc, k) /\ Moved(t, pc, k)
        BY Zenon, <1>9 DEF Writes
    <2>2. tx[t].at \in 1..Len(edits(t)) /\ tx[t].pc \in OnAnEdit /\ tx[t].pc = "commit_ref"
        BY Zenon, <1>1, <1>9 DEF Writes, Cursors, Cursor, OnAnEdit
    <2>3. pc = "reflog" /\ FirstFrom(Updates(t), tx[t].at + 1, k)
        BY ZenonT(60), <2>1, NextUpdate DEF Moved, Seen
    <2>4. i > tx[t].at
        BY SMTT(60), <1>1, <2>1, <2>2, <2>3 DEF Moved, Seen, FirstFrom, Updates
    <2>5. name(t) # n
        BY SMTT(60), <1>2, <2>2, <2>4
    <2>6. loose'[n] = loose[n] /\ locks'[n] = locks[n] /\ packed' = packed
        BY ZenonT(60), <1>1, <1>9, <2>5 DEF Writes, Types
    <2> QED
        <3>1. i >= tx[t].at
            BY SMTT(60), <1>1, <2>2, <2>4
        <3>2. Seen(t, i)
            BY Zenon, <2>2, <3>1 DEF Seen
        <3> QED
            BY ZenonT(60), <2>1, <2>6, <3>2 DEF Moved, edits
<1>10. CASE Unlogs(t)
    <2>1. PICK pc, k : ToSecond(t, tx[t].at + 1, pc, k) /\ Moved(t, pc, k)
        BY Zenon, <1>10 DEF Unlogs
    <2>2. pc \in {"packed_commit", "finish"}
        BY ZenonT(60), <2>1, JustUpdates DEF ToSecond, ToThird, FirstFrom
    <2> QED
        BY ZenonT(60), <2>1, <2>2 DEF Moved, Seen
<1>11. CASE WritesPacked(t) \/ UnlocksPacked(t) \/ Drops(t) \/ Deletes(t)
    <2>1. PICK pc, k : Moved(t, pc, k) /\ (pc \in {"drop_lock", "packed_unlock"} \/ \E j : ToThird(t, j, pc, k))
        BY Zenon, <1>11 DEF WritesPacked, UnlocksPacked, Drops, Deletes
    <2>2. pc \in {"packed_unlock"} \union Late
        BY ZenonT(60), <2>1, PassPlaces DEF Late
    <2>3. tx'[t].pc \in {"packed_unlock", "delete_ref", "drop_lock", "finish"}
        BY ZenonT(60), <2>1, <2>2 DEF Moved, Late
    <2> QED
        BY Zenon, <2>3 DEF Seen
<1> QED
    BY ZenonT(60), <1>3, <1>4, <1>5, <1>6, <1>7, <1>8, <1>9, <1>10, <1>11 DEF Effect

LEMMA ThroughStep ==
  ASSUME SerialInv, OnlyUpdates, NEW t \in Tx, Effect(t), Carries(t), ~Begins(t), ~Splits(t), ~Ends(t),
         NEW i \in 1..Len(edits(t)), Through(t, i)'
  PROVE  Through(t, i) \/ (Writes(t) /\ i = tx[t].at)
<1>1. Cursors /\ Updates(t) = 1..Len(edits(t)) /\ take_lock_and_delete(t) = {}
    BY ZenonT(60), JustUpdates DEF SerialInv, PackedInv, LocksInv
<1>2. CASE \E pc, k : Goes(t, pc, k)
    <2>1. PICK pc, k : Goes(t, pc, k)
        BY Zenon, <1>2
    <2>2. tx[t].pc = "prepared" /\ ToFirst(t, 1, pc, k) /\ Moved(t, pc, k)
        BY Zenon, <2>1 DEF Goes, Moved, Through
    <2>3. \/ pc = "reflog" /\ FirstFrom(Updates(t), 1, k)
          \/ pc \in {"packed_commit", "finish"} /\ \A j \in Updates(t) : j < 1
        BY ZenonT(60), <2>2, NextUpdate
    <2>4. pc = "reflog" => k <= i
        BY <1>1, <2>3 DEF FirstFrom
    <2>5. pc # "packed_commit"
        BY <1>1, <2>3
    <2>6. k \in Nat \/ pc # "reflog"
        BY <1>1, <2>3 DEF FirstFrom
    <2> QED
        BY SMTT(60), <1>1, <2>2, <2>3, <2>4, <2>5, <2>6 DEF Moved, Through
<1>3. CASE Logs(t)
    <2>1. Moved(t, "commit_ref", tx[t].at)
        BY ZenonT(60), <1>3, JustUpdates DEF Logs, delete_loose_refs
    <2> QED
        BY Zenon, <1>3, <2>1 DEF Logs, Moved, Through
<1>4. CASE Writes(t)
    <2>1. PICK pc, k : ToFirst(t, tx[t].at + 1, pc, k) /\ Moved(t, pc, k)
        BY Zenon, <1>4 DEF Writes
    <2>2. tx[t].at \in 1..Len(edits(t)) /\ tx[t].pc = "commit_ref"
        BY ZenonT(60), <1>1, <1>4 DEF Writes, Cursors, Cursor, OnAnEdit
    <2>3. i <= tx[t].at
        BY SMTT(60), <1>1, <2>1, <2>2, NextUpdate DEF Moved, Through, FirstFrom
    <2> QED
        BY SMTT(60), <1>4, <2>2, <2>3 DEF Through
<1>5. CASE Unlogs(t)
    BY Zenon, <1>5 DEF Unlogs, Through
<1>6. CASE WritesPacked(t)
    BY Zenon, <1>6 DEF WritesPacked, Through
<1>7. CASE UnlocksPacked(t) \/ Drops(t) \/ Deletes(t)
    <2>1. PICK pc, k : Moved(t, pc, k) /\ (pc = "drop_lock" \/ \E j : ToThird(t, j, pc, k))
        BY Zenon, <1>7 DEF UnlocksPacked, Drops, Deletes
    <2>2. pc \in Late
        BY Zenon, <2>1, PassPlaces DEF Late
    <2> QED
        BY Zenon, <2>1, <2>2 DEF Moved, Through, Late
<1>8. CASE TakesPacked(t) \/ ReadsPacked(t) \/ Reads(t) \/ Takes(t)
    BY Zenon, <1>8 DEF TakesPacked, ReadsPacked, Reads, Takes, Moved, Through
<1>9. CASE Accepts(t)
    BY Zenon, <1>9 DEF Accepts, Through
<1> QED
    BY ZenonT(60), <1>2, <1>3, <1>4, <1>5, <1>6, <1>7, <1>8, <1>9 DEF Effect

\* An edit is accepted: it expects the value that was compared.
LEMMA AcceptedValue ==
  ASSUME SerialInv, OnlyUpdates, NEW t \in Tx, Accepts(t), tx[t].at \in ForPackedRefs(t),
         edits(t)'[tx[t].at].expected.is = "MustExistAndMatch"
  PROVE  edits(t)'[tx[t].at].expected.value = Value(name(t))
<1>1. /\ Types /\ Compared(t) /\ tx[t].pc \in {"apply", "obtain_lock"} /\ tx[t].at \in 1..Len(edits(t))
      /\ edit(t).change = "Update"
    BY Zenon, JustUpdates DEF SerialInv, PackedInv, LocksInv, Serial, Accepts, ForPackedRefs, Updates, edit
<1>2. tx[t].existing = Value(name(t))
    BY Zenon, <1>1 DEF Compared
<1>3. MayUpdate(edit(t).expected, tx[t].existing, edit(t).new)
    BY Zenon, <1>1 DEF Accepts, Compared
<1>4. edits(t)'[tx[t].at].expected =
        IF tx[t].existing # None THEN Expect("MustExistAndMatch", tx[t].existing) ELSE edit(t).expected
    BY ZenonT(60), <1>1, AppliedTypes DEF Accepts, edits, edit
<1>5. CASE tx[t].existing # None
    BY SMTT(60), <1>2, <1>4, <1>5 DEF Expect
<1>6. CASE tx[t].existing = None
    BY Zenon, <1>2, <1>3, <1>4, <1>6 DEF MayUpdate, MayDelete
<1> QED
    BY Zenon, <1>5, <1>6

LEMMA ExpectedStep ==
  ASSUME SerialInv, OnlyUpdates, NEW t \in Tx, Others(t), Effect(t)
  PROVE  Expected(t)'
<1>1. Types /\ Cursors /\ Guarded /\ Own(t) /\ Expected(t)
    BY Zenon DEF SerialInv, PackedInv, LocksInv, Guarded, Serial
<1>2. CASE Begins(t) \/ Splits(t) \/ Ends(t)
    BY ZenonT(60), <1>2 DEF Begins, Splits, Ends, Ended, Expected, Seen
<1>3. CASE Carries(t) /\ ~Begins(t) /\ ~Splits(t) /\ ~Ends(t)
    <2>1. ForPackedRefs(t)' = ForPackedRefs(t) /\ ForPackedRefs(t) \subseteq 1..Len(edits(t))
        BY ZenonT(60), <1>1, <1>3, SameKinds DEF ForPackedRefs
    <2> SUFFICES ASSUME NEW i \in ForPackedRefs(t), Seen(t, i)', edits(t)'[i].expected.is = "MustExistAndMatch"
                 PROVE  edits(t)'[i].expected.value = Value(edits(t)[i].name)'
        BY Zenon, <1>3, <2>1 DEF Expected, Carries, Value
    <2>2. CASE Accepts(t) /\ i = tx[t].at
        <3>1. loose' = loose /\ packed' = packed
            BY Zenon, <2>2 DEF Accepts, Store
        <3>2. edits(t)'[i].name = name(t)
            BY ZenonT(60), <1>3, <2>1, <2>2 DEF Carries, name, edit
        <3> QED
            BY ZenonT(60), <1>3, <2>1, <2>2, <3>1, <3>2, AcceptedValue DEF Value, Carries
    <2>3. CASE /\ Seen(t, i) /\ edits(t)'[i].expected = edits(t)[i].expected
               /\ loose'[edits(t)[i].name] = loose[edits(t)[i].name] /\ packed' = packed
        <3>1. edits(t)[i].expected.value = Value(edits(t)[i].name) /\ edits(t)'[i].name = edits(t)[i].name
            BY ZenonT(60), <1>1, <1>3, <2>1, <2>3 DEF Expected, Carries
        <3> QED
            BY Zenon, <2>3, <3>1 DEF Value
    <2> QED
        BY SMTT(60), <1>3, <2>2, <2>3, SeenStep
<1> QED
    BY Zenon, <1>1, <1>2, <1>3, EffectCarries

LEMMA CurrentStep ==
  ASSUME SerialInv, OnlyUpdates, NEW t \in Tx, Others(t), Effect(t), given' = given
  PROVE  Current(t)'
<1>1. /\ Types /\ Cursors /\ Guarded /\ Own(t) /\ Current(t) /\ Locked(t) /\ Compared(t) /\ packed # None
      /\ \A n \in Packable : Old(packed, n)
    BY Zenon DEF SerialInv, PackedInv, LocksInv, Guarded, Serial
<1>2. CASE Begins(t) \/ Splits(t) \/ Ends(t)
    BY ZenonT(60), <1>2 DEF Begins, Splits, Ends, Ended, Current, Seen, Through
<1>3. CASE Carries(t) /\ ~Begins(t) /\ ~Splits(t) /\ ~Ends(t)
    <2>1. /\ PackedUpdates(t)' = PackedUpdates(t) /\ PackedUpdates(t) \subseteq ForPackedRefs(t)
          /\ ForPackedRefs(t) \subseteq 1..Len(edits(t))
        BY ZenonT(60), <1>1, <1>3, SameKinds DEF ForPackedRefs, PackedUpdates
    <2> SUFFICES ASSUME NEW i \in PackedUpdates(t)
                 PROVE  /\ Seen(t, i)' => (locks[edits(t)[i].name] = t \/ Known(t, i))'
                        /\ Through(t, i)' => Known(t, i)'
        BY ZenonT(60), <2>1 DEF Current
    <2> DEFINE n == edits(t)[i].name
    <2>2. n \in Packable /\ n \in Name
        BY ZenonT(60), <2>1, RefTransactionAssumption
        DEF ForPackedRefs, possibly_adjust_name_for_prefixes, RefTransactionAssumption
    <2>3. edits(t)'[i].name = n /\ edits(t)'[i].new = edits(t)[i].new
        BY ZenonT(60), <1>3, <2>1 DEF Carries
    <2>4. Known(t, i) => Known(t, i)'
        <3>1. loose[n] # None => loose'[n] # None
            BY ZenonT(60), <2>2, SerialFiles
        <3> QED
            BY ZenonT(60), <2>3, <3>1 DEF Known
    <2>5. ASSUME Seen(t, i)' PROVE locks'[n] = t \/ Known(t, i)'
        <3>1. CASE Seen(t, i) /\ (locks[n] = t => locks'[n] = t)
            BY ZenonT(60), <1>1, <2>4, <3>1 DEF Current
        <3>2. CASE Accepts(t) /\ i = tx[t].at
            <4>1. tx[t].pc \in {"apply", "obtain_lock"} /\ name(t) = n /\ edit(t).change = "Update"
                BY ZenonT(60), <3>2 DEF Accepts, name, edit, PackedUpdates
            <4>2. tx[t].packed_tx /\ tx[t].existing = Value(n)
                BY ZenonT(60), <1>1, <2>1, <3>2, <4>1 DEF Locked, Compared, WithLock
            <4>3. CASE tx[t].pc = "obtain_lock"
                BY ZenonT(60), <1>1, <2>2, <3>2, <4>1, <4>3 DEF Accepts, Types
            <4>4. CASE tx[t].pc = "apply"
                <5>1. ~MustWrite(tx[t].existing, edit(t).new, direct_to_packed_refs(t))
                    BY ZenonT(60), <3>2, <4>1, <4>2, <4>4 DEF Accepts
                <5>2. edits(t)[i].new = Value(n)
                    BY ZenonT(60), <3>2, <4>2, <5>1, JustUpdates DEF MustWrite, edit
                <5>3. Known(t, i)
                    BY ZenonT(60), <1>1, <2>2, <5>2 DEF Known, Value, Overlay, Old
                <5> QED
                    BY ZenonT(60), <2>4, <5>3
            <4> QED
                BY ZenonT(60), <4>1, <4>3, <4>4
        <3> QED
            BY SMTT(60), <1>3, <2>1, <2>5, <3>1, <3>2, SeenStep
    <2>6. ASSUME Through(t, i)' PROVE Known(t, i)'
        <3>1. CASE Through(t, i)
            BY ZenonT(60), <1>1, <2>4, <3>1 DEF Current
        <3>2. CASE Writes(t) /\ i = tx[t].at
            <4>1. Seen(t, i) /\ edit(t).log = "AndReference" /\ name(t) = n /\ edit(t).new # None
                <5>1. i \in 1..Len(edits(t)) /\ edits(t)[i].log = "AndReference" /\ edits(t)[i].change = "Update"
                    BY ZenonT(60), <2>1 DEF ForPackedRefs, PackedUpdates
                <5>2. edits(t)[i] \in WellFormed
                    BY SMTT(60), <1>1, <5>1 DEF Types, TxState, edits
                <5>3. edits(t)[i].new # None
                    BY ZenonT(60), <5>1, <5>2 DEF WellFormed
                <5> QED
                    BY SMTT(60), <3>2, <5>1, <5>3 DEF Writes, Seen, edit, name
            <4>2. CASE locks[n] = t
                <5>1. loose'[n] = edit(t).new
                    BY ZenonT(60), <1>1, <2>2, <3>2, <4>1, <4>2 DEF Writes, Types
                <5> QED
                    BY ZenonT(60), <2>3, <4>1, <5>1 DEF Known
            <4> QED
                BY ZenonT(60), <1>1, <2>4, <4>1, <4>2 DEF Current
        <3> QED
            BY ZenonT(60), <1>3, <2>1, <2>6, <3>1, <3>2, ThroughStep
    <2> QED
        BY ZenonT(60), <2>3, <2>5, <2>6
<1> QED
    BY ZenonT(60), <1>1, <1>2, <1>3, EffectCarries

\* Whoever does not take the step
LEMMA SerialFrame ==
  ASSUME SerialInv, OnlyUpdates, NEW t \in Tx, Others(t), Effect(t), given' = given, NEW u \in Tx, u # t
  PROVE  Locked(u)' /\ Compared(u)' /\ Expected(u)' /\ Current(u)'
<1>1. /\ Types /\ Cursors /\ AllHeld /\ tx'[u] = tx[u]
      /\ Locked(u) /\ Compared(u) /\ Expected(u) /\ Current(u)
    BY Zenon DEF SerialInv, PackedInv, LocksInv, Serial, Others
<1>2. /\ edits(u)' = edits(u) /\ edit(u)' = edit(u) /\ name(u)' = name(u)
      /\ ForPackedRefs(u)' = ForPackedRefs(u) /\ PackedUpdates(u)' = PackedUpdates(u)
    BY Zenon, <1>1 DEF edits, edit, name, PackedUpdates, ForPackedRefs, WithUpdates
<1>3. \A i : (Seen(u, i)' <=> Seen(u, i)) /\ (Through(u, i)' <=> Through(u, i))
    BY Zenon, <1>1 DEF Seen, Through
<1>4. ASSUME NEW i \in ForPackedRefs(u), tx[u].pc \in WithLock
      PROVE  Value(edits(u)[i].name)' = Value(edits(u)[i].name)
    BY ZenonT(60), <1>2, <1>4, OthersValues DEF Value
<1>5. Locked(u)'
    BY SMTT(60), <1>1, <1>2 DEF Locked
<1>6. Compared(u)'
    <2>1. tx[u].pc \in {"lock", "apply", "obtain_lock"} => tx[u].pc \in WithLock
        BY Zenon DEF WithLock
    <2> QED
        BY ZenonT(60), <1>1, <1>2, <1>4, <2>1 DEF Compared, name, edit
<1>7. Expected(u)'
    <2>1. \A i : Seen(u, i) => tx[u].pc \in WithLock
        BY Zenon DEF Seen, WithLock
    <2> QED
        BY ZenonT(60), <1>1, <1>2, <1>3, <1>4, <2>1 DEF Expected
<1>8. Current(u)'
    <2>1. \A i \in PackedUpdates(u) : edits(u)[i].name \in Name
        BY ZenonT(60), <1>1, EditNames DEF PackedUpdates, ForPackedRefs
    <2>2. \A n \in Name : (locks[n] = u => locks'[n] = u) /\ (loose[n] # None => loose'[n] # None)
        BY ZenonT(60), <1>1, KeptStep, SerialFiles DEF Kept
    <2>3. \A i \in PackedUpdates(u) : Known(u, i) => Known(u, i)'
        BY ZenonT(60), <1>2, <2>1, <2>2 DEF Known
    <2> QED
        BY ZenonT(60), <1>1, <1>2, <1>3, <2>1, <2>2, <2>3 DEF Current
<1> QED
    BY ZenonT(60), <1>5, <1>6, <1>7, <1>8

LEMMA SerialInit == Init => SerialInv
<1> SUFFICES ASSUME Init PROVE Serial
    BY Zenon, PackedInit DEF SerialInv
<1>1. packed = given.packed /\ \A t \in Tx : tx[t].pc = "idle" /\ tx[t].packed_tx = FALSE
    <2>1. packed = given.packed /\ \A t \in Tx : tx[t] = Idle
        BY Zenon DEF Init
    <2>2. Idle.pc = "idle" /\ Idle.packed_tx = FALSE
        BY Zenon DEF Idle
    <2> QED
        BY Zenon, <2>1, <2>2
<1>2. \A n \in Packable : Old(packed, n)
    BY Zenon, <1>1 DEF Old
<1>3. \A t \in Tx : Locked(t) /\ Copy(t) /\ Compared(t)
    BY Zenon, <1>1 DEF Locked, Copy, Taken, Compared, WithLock
<1>4. \A t \in Tx : Expected(t) /\ Current(t)
    BY Zenon, <1>1 DEF Expected, Current, Seen, Through
<1> QED
    BY ZenonT(60), <1>1, <1>2, <1>3, <1>4 DEF Serial, OnlyUpdates

LEMMA SerialStep == SerialInv /\ [Next]_vars => SerialInv'
<1> SUFFICES ASSUME SerialInv, [Next]_vars, OnlyUpdates' PROVE Serial'
    BY Zenon, PackedInvStep DEF SerialInv, Serial
<1>1. ASSUME NEW t \in Tx, start(t) \/ Step(t) \/ io_error(t) \/ kill(t) PROVE Serial'
    <2>1. Others(t) /\ UNCHANGED <<lookup, given>> /\ Effect(t)
        BY Zenon, <1>1, StepEffect DEF SerialInv, PackedInv, LocksInv
    <2>2. OnlyUpdates
        BY Zenon, <2>1 DEF OnlyUpdates, NobodyPrunes, NobodyDeletes, Requests
    <2>3. \A u \in Tx : Locked(u)' /\ Copy(u)' /\ Compared(u)' /\ Expected(u)' /\ Current(u)'
        BY ZenonT(60), <2>1, <2>2, LockedStep, CopyStep, ComparedStep, ExpectedStep, CurrentStep, SerialFrame
    <2> QED
        BY ZenonT(60), <2>1, <2>2, <2>3, SerialFiles DEF Serial
<1>2. ASSUME UNCHANGED <<loose, packed, reflog, locks, packed_lock, tx, given>> PROVE Serial'
    <2>1. OnlyUpdates
        BY Zenon, <1>2 DEF OnlyUpdates, NobodyPrunes, NobodyDeletes, Requests
    <2>2. packed' # None /\ \A n \in Packable : Old(packed, n)'
        BY Zenon, <1>2, <2>1 DEF SerialInv, Serial, Old
    <2>3. ASSUME NEW t \in Tx PROVE Locked(t)' /\ Copy(t)' /\ Compared(t)' /\ Expected(t)' /\ Current(t)'
        <3>1. Locked(t) /\ Copy(t) /\ Compared(t) /\ Expected(t) /\ Current(t)
            BY Zenon, <2>1 DEF SerialInv, Serial
        <3> USE DEF edits, edit, name, ForPackedRefs, PackedUpdates, WithUpdates
        <3>2. Locked(t)' /\ Copy(t)'
            BY Zenon, <1>2, <3>1 DEF Locked, Copy, Taken, Old
        <3>3. Compared(t)'
            BY Zenon, <1>2, <3>1 DEF Compared, Value
        <3>4. Expected(t)'
            BY Zenon, <1>2, <3>1 DEF Expected, Seen, Value
        <3>5. Current(t)'
            BY Zenon, <1>2, <3>1 DEF Current, Seen, Through, Known
        <3> QED
            BY ZenonT(60), <3>2, <3>3, <3>4, <3>5
    <2> QED
        BY Zenon, <2>2, <2>3 DEF Serial
<1>3. ASSUME NEW r \in Reader, try_find(r) \/ find_inner(r) PROVE Serial'
    BY Zenon, <1>2, <1>3 DEF try_find, find_inner, Store
<1>4. CASE UNCHANGED vars
    BY Zenon, <1>2, <1>4 DEF vars
<1> QED
    BY ZenonT(60), <1>1, <1>3, <1>4 DEF Next

(***************************************************************************)
(* PackedRefsSerialise: with a packed-refs file, an update that names the  *)
(* value it expects to replace replaces that very value, whoever else      *)
(* updates the reference: the lock of packed-refs is held from before the  *)
(* comparison until all values are written.                                *)
(***************************************************************************)
THEOREM Serialise == Spec => []PackedRefsSerialise
<1>1. SerialInv => PackedRefsSerialise
    <2> SUFFICES ASSUME SerialInv, OnlyUpdates, NEW t \in Tx, At(t, "commit_ref"),
                        name(t) \in Packable, edit(t).log = "AndReference",
                        edit(t).expected.is = "MustExistAndMatch"
                 PROVE  Value(name(t)) = edit(t).expected.value
        BY Zenon DEF PackedRefsSerialise, OnlyUpdates, SeesExpected, possibly_adjust_name_for_prefixes
    <2>1. Types /\ Cursors /\ Expected(t)
        BY Zenon DEF SerialInv, PackedInv, LocksInv, Serial
    <2>2. tx[t].pc = "commit_ref" /\ tx[t].at \in 1..Len(edits(t))
        BY ZenonT(60), <2>1 DEF At, Cursors, Cursor, OnAnEdit
    <2>3. tx[t].at \in ForPackedRefs(t) /\ Seen(t, tx[t].at)
        BY SMTT(60), <2>2 DEF ForPackedRefs, Seen, edit, name, possibly_adjust_name_for_prefixes
    <2> QED
        BY Zenon, <2>1, <2>3 DEF Expected, edit, name
<1> QED
    BY <1>1, SerialInit, SerialStep, PTL DEF Spec
=============================================================================
