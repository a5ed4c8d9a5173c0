------------------------ MODULE RefTransactionPacked ------------------------
(***************************************************************************)
(* packed-refs: who holds its lock, whose copy of it is current, and what  *)
(* follows for the references in it.                                       *)
(***************************************************************************)
EXTENDS RefTransactionLocks

WithLock == {"read", "lock", "apply", "obtain_lock", "prepared", "reflog", "commit_ref",
             "delete_reflog", "packed_commit", "packed_unlock"}

\* What a transaction knows by itself of its dealings with packed-refs.
Own(t) ==
  /\ tx[t].pc = "idle" => edits(t) = <<>>
  /\ tx[t].packed_tx => tx[t].pc \in WithLock \union Late \union {"spins"}
  /\ tx[t].pc \in {"packed_commit", "packed_unlock"} => tx[t].packed_tx
  /\ tx[t].pc \in {"lock_is_file", "packed_read_first", "packed_lock_late"} => PackedUpdates(t) = {}
  /\ tx[t].pc \in WithLock \union Late /\ PackedUpdates(t) # {} => tx[t].packed_tx

\* The lock of packed-refs is held from before the first comparison until it is written.
Holds(t) ==
  tx[t].pc = "packed_read" \/ (tx[t].packed_tx /\ tx[t].pc \in WithLock) => packed_lock = t

\* Those who have updates for it read it under its lock.
Fresh(t) ==
  tx[t].pc \in WithLock \ {"packed_unlock"} /\ tx[t].packed_tx /\ PackedUpdates(t) # {}
    => tx[t].buffer = packed

Guarded == \A t \in Tx : Own(t) /\ Holds(t) /\ Fresh(t)

LEMMA OwnStep ==
  ASSUME Types, Cursors, Guarded, NEW t \in Tx, Effect(t)
  PROVE  Own(t)'
<1>1. Own(t)
    BY Zenon DEF Guarded
<1>2. CASE Begins(t)
    BY Zenon, <1>1, <1>2 DEF Begins, Own, WithLock, Late
<1>3. CASE Splits(t)
    BY Zenon, <1>1, <1>3 DEF Splits, Own, WithLock, Late
<1>4. CASE Ends(t)
    BY Zenon, <1>4 DEF Ends, Ended, Own, WithLock, Late
<1>5. CASE Carries(t) /\ ~Begins(t) /\ ~Splits(t) /\ ~Ends(t)
    <2>1. PackedUpdates(t)' = PackedUpdates(t) /\ (ForPackedRefs(t) = {} => PackedUpdates(t) = {})
        BY Zenon, <1>5, SameKinds DEF PackedUpdates
    <2>2. CASE \E pc, i : Goes(t, pc, i)
        <3>1. PICK pc, i : Goes(t, pc, i)
            BY Zenon, <2>2
        <3>2. ~WithUpdates(t) => PackedUpdates(t) = {}
            BY Zenon DEF PackedUpdates
        <3>3. CASE tx[t].pc = "prepared"
            BY ZenonT(60), <1>1, <2>1, <3>1, <3>3, PassPlaces DEF Goes, Moved, Own, WithLock, Late
        <3> QED
            BY ZenonT(60), <1>1, <2>1, <3>1, <3>2, <3>3 DEF Goes, Moved, Own, WithLock, Late
    <2>3. CASE TakesPacked(t) \/ ReadsPacked(t)
        BY Zenon, <1>1, <2>1, <2>3 DEF TakesPacked, ReadsPacked, Own, WithLock, Late
    <2>4. CASE Reads(t) \/ Takes(t) \/ Accepts(t) \/ Deletes(t)
        BY Zenon, <1>1, <2>1, <2>4 DEF Reads, Takes, Accepts, Deletes, Moved, Own, WithLock, Late
    <2>5. CASE Logs(t) \/ Writes(t) \/ Unlogs(t) \/ WritesPacked(t) \/ UnlocksPacked(t) \/ Drops(t)
        <3>1. PICK pc, i : /\ Moved(t, pc, i)
                           /\ pc \in {"reflog", "commit_ref", "delete_reflog", "packed_commit", "packed_unlock"} \union Late
                           /\ pc \in {"packed_commit", "packed_unlock"} => tx[t].packed_tx
                           /\ tx[t].pc \in Late => pc \in Late
            BY ZenonT(60), <1>1, <2>5, PassPlaces DEF Logs, Writes, Unlogs, WritesPacked, UnlocksPacked,
               Drops, Own, Late
        <3>2. tx[t].pc \in WithLock \union Late
            BY Zenon, <2>5 DEF Logs, Writes, Unlogs, WritesPacked, UnlocksPacked, Drops, WithLock, Late
        <3> QED
            BY ZenonT(60), <1>1, <2>1, <3>1, <3>2 DEF Moved, Own, WithLock, Late
    <2> QED
        BY ZenonT(60), <1>5, <2>2, <2>3, <2>4, <2>5 DEF Effect
<1> QED
    BY ZenonT(60), <1>2, <1>3, <1>4, <1>5, EffectCarries

\* Only the holder of its lock writes packed-refs, and nobody else loses the lock.
LEMMA PackedLockStep ==
  ASSUME Types, Cursors, Guarded, NEW t \in Tx, Effect(t)
  PROVE  /\ \A u \in Tx \ {t} : packed_lock = u => packed_lock' = u
         /\ packed' # packed => tx[t].pc = "packed_commit" /\ packed_lock = t
<1>1. Own(t) /\ Holds(t)
    BY Zenon DEF Guarded
<1>2. CASE WritesPacked(t) \/ UnlocksPacked(t)
    <2>1. packed_lock = t /\ packed' # packed => tx[t].pc = "packed_commit"
        BY ZenonT(60), <1>1, <1>2 DEF WritesPacked, UnlocksPacked, Own, Holds, WithLock, Store
    <2> QED
        BY Zenon, <2>1, <1>1, <1>2 DEF WritesPacked, UnlocksPacked, Own, Holds, WithLock
<1>3. CASE Ends(t)
    BY ZenonT(60), <1>3 DEF Ends, DropLocks, SameLocks, Store
<1>4. CASE TakesPacked(t)
    BY ZenonT(60), <1>4, RefTransactionAssumption DEF TakesPacked, Store, RefTransactionAssumption
<1> QED
    BY Zenon, <1>2, <1>3, <1>4 DEF Effect, Begins, Splits, Goes, ReadsPacked, Reads, Takes, Accepts, Logs,
       Writes, Unlogs, Deletes, Drops, SameLocks, Store

LEMMA HoldsStep ==
  ASSUME Types, Cursors, Guarded, NEW t \in Tx, Effect(t)
  PROVE  Holds(t)' /\ Fresh(t)'
<1>1. Own(t) /\ Holds(t) /\ Fresh(t) /\ Own(t)'
    BY Zenon, OwnStep DEF Guarded
<1>2. CASE Begins(t) \/ Splits(t) \/ Ends(t)
    BY Zenon, <1>1, <1>2 DEF Begins, Splits, Ends, Ended, Holds, Fresh, Own, WithLock, Late
<1>3. CASE Carries(t) /\ ~Begins(t) /\ ~Splits(t) /\ ~Ends(t)
    <2>1. PackedUpdates(t)' = PackedUpdates(t)
        BY Zenon, <1>3, SameKinds
    <2>2. CASE \E pc, i : Goes(t, pc, i)
        <3>1. PICK pc, i : Goes(t, pc, i)
            BY Zenon, <2>2
        <3>2. CASE tx[t].pc = "prepared"
            BY ZenonT(60), <1>1, <2>1, <3>1, <3>2, PassPlaces DEF Goes, Moved, SameLocks, Store, Holds,
               Fresh, WithLock, Late
        <3> QED
            BY ZenonT(60), <1>1, <2>1, <3>1, <3>2 DEF Goes, Moved, SameLocks, Store, Holds, Fresh, Own,
               WithLock, Late
    <2>3. CASE TakesPacked(t) \/ ReadsPacked(t)
        BY Zenon, <1>1, <2>1, <2>3 DEF TakesPacked, ReadsPacked, SameLocks, Store, Holds, Fresh, Own,
           WithLock, Late
    <2>4. CASE Reads(t) \/ Takes(t) \/ Accepts(t) \/ Deletes(t)
        BY ZenonT(60), <1>1, <2>1, <2>4 DEF Reads, Takes, Accepts, Deletes, Moved, SameLocks, Store, Holds,
           Fresh, Own, WithLock, Late
    <2>5. CASE Logs(t) \/ Writes(t) \/ Unlogs(t)
        <3>1. PICK pc, i : /\ Moved(t, pc, i) /\ pc # "packed_read"
                           /\ packed' = packed /\ packed_lock' = packed_lock
            BY Zenon, <2>5, PassPlaces DEF Logs, Writes, Unlogs, SameLocks, Late
        <3>2. tx[t].pc \in WithLock \ {"packed_unlock"}
            BY Zenon, <2>5 DEF Logs, Writes, Unlogs, WithLock
        <3> QED
            BY ZenonT(60), <1>1, <2>1, <3>1, <3>2 DEF Moved, Holds, Fresh
    <2>6. CASE WritesPacked(t) \/ UnlocksPacked(t) \/ Drops(t)
        <3>1. \/ tx'[t].pc \in Late
              \/ /\ tx[t].pc = "packed_commit" /\ tx'[t].pc = "packed_unlock"
                 /\ tx'[t].packed_tx = tx[t].packed_tx /\ packed_lock' = packed_lock
            BY ZenonT(60), <2>6, PassPlaces DEF WritesPacked, UnlocksPacked, Drops, Moved
        <3> QED
            BY Zenon, <1>1, <3>1 DEF Holds, Fresh, WithLock, Late
    <2> QED
        BY ZenonT(60), <1>3, <2>2, <2>3, <2>4, <2>5, <2>6 DEF Effect
<1> QED
    BY Zenon, <1>2, <1>3, EffectCarries

\* Whoever does not take the step
LEMMA GuardedFrame ==
  ASSUME Types, Cursors, Guarded, NEW t \in Tx, Others(t), Effect(t), NEW u \in Tx, u # t
  PROVE  Own(u)' /\ Holds(u)' /\ Fresh(u)'
<1>1. tx'[u] = tx[u] /\ Own(u) /\ Holds(u) /\ Fresh(u)
    BY Zenon DEF Others, Guarded
<1>2. edits(u)' = edits(u) /\ PackedUpdates(u)' = PackedUpdates(u)
    BY Zenon, <1>1 DEF edits, PackedUpdates, ForPackedRefs, WithUpdates
<1>3. packed_lock = u => packed_lock' = u /\ packed' = packed
    BY Zenon, PackedLockStep
<1>4. Own(u)'
    BY Zenon, <1>1, <1>2 DEF Own
<1> QED
    BY Zenon, <1>1, <1>2, <1>3, <1>4 DEF Holds, Fresh

LEMMA GuardedStep ==
  ASSUME Types, Cursors, Guarded, NEW t \in Tx, Others(t), Effect(t)
  PROVE  Guarded'
BY Zenon, OwnStep, HoldsStep, GuardedFrame DEF Guarded

----------------------------------------------------------------------------
(* What was asked of the transactions *)

Asked ==
  /\ NobodyPrunes => \A t \in Tx : ~delete_loose_refs(t)
  /\ NobodyDeletes => \A t \in Tx : \A i \in 1..Len(edits(t)) : edits(t)[i].change = "Update"

LEMMA AskedStep ==
  ASSUME Types, Cursors, Asked, NEW t \in Tx, Others(t), Effect(t), given' = given
  PROVE  Asked'
<1>1. ASSUME NEW u \in Tx, u # t
      PROVE  delete_loose_refs(u)' = delete_loose_refs(u) /\ edits(u)' = edits(u)
    BY Zenon, <1>1 DEF Others, delete_loose_refs, direct_to_packed_refs, edits
<1>2. (NobodyPrunes' <=> NobodyPrunes) /\ (NobodyDeletes' <=> NobodyDeletes)
    BY Zenon DEF NobodyPrunes, NobodyDeletes, Requests
<1>3. NobodyPrunes => ~delete_loose_refs(t)'
    <2>1. CASE Begins(t)
        BY Zenon, <2>1 DEF Begins, delete_loose_refs, direct_to_packed_refs, NobodyPrunes, Requests
    <2>2. CASE Splits(t) \/ Ends(t) \/ Carries(t)
        BY Zenon, <2>2 DEF Asked, Splits, Ends, Carries, delete_loose_refs, direct_to_packed_refs
    <2> QED
        BY ZenonT(60), <2>1, <2>2, EffectCarries
<1>4. NobodyDeletes => \A i \in 1..Len(edits(t)') : edits(t)'[i].change = "Update"
    <2> SUFFICES ASSUME NobodyDeletes PROVE \A i \in 1..Len(edits(t)') : edits(t)'[i].change = "Update"
        BY Zenon
    <2>1. CASE Begins(t)
        BY <2>1 DEF Begins, NobodyDeletes, Requests, edits
    <2>2. CASE Splits(t)
        BY ZenonT(60), <2>2, SplitEdits DEF SplitsEdits, Asked
    <2>3. CASE Ends(t) \/ Carries(t)
        BY Zenon, <2>3 DEF Ends, Carries, Asked, edits
    <2> QED
        BY ZenonT(60), <2>1, <2>2, <2>3, EffectCarries
<1> QED
    BY <1>1, <1>2, <1>3, <1>4 DEF Asked

----------------------------------------------------------------------------
(* References that nobody deletes *)

Taken(t) == tx[t].packed_tx \/ tx[t].pc = "packed_lock_late"

\* The files and all copies of packed-refs that will be used keep what they had.
Keeps(n) ==
  /\ given.loose[n] # None => loose[n] # None
  /\ Has(given.packed, n) => Has(packed, n) /\ \A t \in Tx : Taken(t) => Has(tx[t].buffer, n)

NothingLost == NobodyPrunes => \A n \in Name : NeverDeleted(n) => Keeps(n)

LEMMA MergedEntry ==
  ASSUME Types, NEW t \in Tx, NEW n \in Name, n \notin Names(t, "Delete")
  PROVE  /\ (\E i \in packed_edits(t) : edits(t)[i].name = n) => MergedPackedRefs(t)[n] # None
         /\ Has(tx[t].buffer, n) => MergedPackedRefs(t)[n] # None
<1> DEFINE mine == {i \in packed_edits(t) : edits(t)[i].name = n}
<1>1. MergedPackedRefs(t)[n] =
        IF mine # {} THEN edits(t)[CHOOSE i \in mine : TRUE].new
        ELSE IF tx[t].buffer = None THEN None ELSE tx[t].buffer[n]
    BY Zenon DEF MergedPackedRefs
<1>2. ASSUME NEW i \in mine PROVE edits(t)[i].new # None
    <2>1. i \in 1..Len(edits(t)) /\ edits(t)[i].name = n
        BY Zenon DEF packed_edits, edits_for_packed_transaction, PackedUpdates, ForPackedRefs
    <2>2. edits(t)[i].change # "Delete"
        BY Zenon, <2>1 DEF Names
    <2>3. edits(t)[i].new \in Oid
        BY Zenon, <2>2 DEF packed_edits, edits_for_packed_transaction, PackedUpdates, IsObject
    <2> QED
        BY Zenon, <2>3, RefTransactionAssumption DEF RefTransactionAssumption, Target
<1>3. mine # {} => (CHOOSE i \in mine : TRUE) \in mine
    BY Zenon
<1>4. (\E i \in packed_edits(t) : edits(t)[i].name = n) => mine # {}
    BY Zenon
<1> HIDE DEF mine
<1> QED
    BY ZenonT(60), <1>1, <1>2, <1>3, <1>4 DEF Has

LEMMA LooseKept ==
  ASSUME Types, Cursors, Asked, NobodyPrunes, NEW t \in Tx, Effect(t), NEW n \in Name, n \notin Names(t, "Delete"),
         loose[n] # None
  PROVE  loose'[n] # None
<1>1. CASE Writes(t)
    <2>1. name(t) \in Name /\ edit(t) \in WellFormed /\ edit(t).change = "Update"
        BY Zenon, <1>1, NameOfEdit DEF Writes, OnAnEdit, Cursors, Cursor, Updates, edit
    <2>2. edit(t).new # None
        BY Zenon, <2>1 DEF WellFormed
    <2> QED
        BY Zenon, <1>1, <2>1, <2>2 DEF Writes, Types
<1>2. CASE Deletes(t)
    <2>1. name(t) \in Name /\ tx[t].at \in take_lock_and_delete(t)
        BY Zenon, <1>2, NameOfEdit DEF Deletes, OnAnEdit, Cursors, Cursor
    <2>2. name(t) \in Names(t, "Delete")
        BY Zenon, <2>1 DEF take_lock_and_delete, Asked, Names, name, edit
    <2> QED
        BY Zenon, <1>2, <2>1, <2>2 DEF Deletes, Types
<1> QED
    BY ZenonT(60), <1>1, <1>2 DEF Effect, Begins, Splits, Ends, Goes, TakesPacked, ReadsPacked, Reads,
       Takes, Accepts, Logs, Unlogs, WritesPacked, UnlocksPacked, Drops, Store

LEMMA PackedKept ==
  ASSUME Types, Cursors, Guarded, NEW t \in Tx, Effect(t), NEW n \in Name, n \notin Names(t, "Delete"),
         Has(packed, n), Taken(t) => Has(tx[t].buffer, n)
  PROVE  Has(packed', n) /\ (Taken(t)' => Has(tx'[t].buffer, n))
<1>1. Own(t)
    BY Zenon DEF Guarded
<1>2. CASE WritesPacked(t)
    <2>1. Has(tx[t].buffer, n)
        BY Zenon, <1>1, <1>2 DEF WritesPacked, Own, Taken
    <2>2. MergedPackedRefs(t) # None /\ MergedPackedRefs(t)[n] # None
        BY ZenonT(60), <2>1, MergedEntry, MergedTypes, RefTransactionAssumption DEF RefTransactionAssumption
    <2>3. packed' \in {packed, MergedPackedRefs(t)} /\ tx'[t].buffer = tx[t].buffer
        BY Zenon, <1>2, <2>2 DEF WritesPacked, Moved, IsEmpty
    <2> QED
        BY Zenon, <2>1, <2>2, <2>3 DEF Has
<1>3. CASE Begins(t) \/ Splits(t) \/ Ends(t)
    BY Zenon, <1>1, <1>3 DEF Begins, Splits, Ends, Ended, Store, Own, Taken, WithLock, Late
<1>4. CASE TakesPacked(t) \/ ReadsPacked(t)
    BY Zenon, <1>4 DEF TakesPacked, ReadsPacked, Store, Taken
<1>5. CASE \E pc, i : Goes(t, pc, i)
    <2>1. PICK pc, i : Goes(t, pc, i)
        BY Zenon, <1>5
    <2>2. pc # "packed_lock_late"
        BY Zenon, <2>1, PassPlaces DEF Goes, Late
    <2> QED
        BY Zenon, <2>1, <2>2 DEF Goes, Moved, Store, Taken
<1>6. CASE Reads(t) \/ Takes(t) \/ Accepts(t) \/ Deletes(t)
    BY Zenon, <1>6 DEF Reads, Takes, Accepts, Deletes, Moved, Store, Taken
<1>7. CASE Logs(t) \/ Writes(t) \/ Unlogs(t) \/ UnlocksPacked(t) \/ Drops(t)
    <2>1. PICK pc, i : Moved(t, pc, i) /\ pc # "packed_lock_late"
        BY SMTT(60), <1>7, PassPlaces DEF Logs, Writes, Unlogs, UnlocksPacked, Drops, Late
    <2> QED
        BY ZenonT(60), <1>7, <2>1 DEF Logs, Writes, Unlogs, UnlocksPacked, Drops, Moved, Store, Taken
<1> QED
    BY ZenonT(60), <1>2, <1>3, <1>4, <1>5, <1>6, <1>7 DEF Effect

LEMMA NothingLostStep ==
  ASSUME Types, Cursors, Guarded, Asked, NothingLost, NEW t \in Tx, Others(t), Effect(t), given' = given
  PROVE  NothingLost'
<1> SUFFICES ASSUME NobodyPrunes', NEW n \in Name, NeverDeleted(n)' PROVE Keeps(n)'
    BY Zenon DEF NothingLost
<1>1. NobodyPrunes /\ NeverDeleted(n)
    BY Zenon, NamesGrow DEF NobodyPrunes, Requests, NeverDeleted
<1>2. Keeps(n) /\ n \notin Names(t, "Delete")
    BY Zenon, <1>1 DEF NothingLost, NeverDeleted
<1>3. given.loose[n] # None => loose'[n] # None
    BY Zenon, <1>1, <1>2, LooseKept DEF Keeps
<1>4. ASSUME Has(given.packed, n) PROVE Has(packed', n) /\ \A u \in Tx : Taken(u)' => Has(tx'[u].buffer, n)
    <2>1. Has(packed', n) /\ (Taken(t)' => Has(tx'[t].buffer, n))
        BY Zenon, <1>2, <1>4, PackedKept DEF Keeps
    <2>2. ASSUME NEW u \in Tx, u # t, Taken(u)' PROVE Has(tx'[u].buffer, n)
        BY Zenon, <1>2, <1>4, <2>2 DEF Others, Taken, Keeps
    <2> QED
        BY Zenon, <2>1, <2>2
<1> QED
    BY Zenon, <1>3, <1>4 DEF Keeps, Has

----------------------------------------------------------------------------
(* References that are moved into packed-refs while nobody deletes any *)

\* packed-refs is written before the loose files go.
InPacked(t) ==
  /\ tx[t].pc # "packed_unlock"
  /\ tx[t].pc \in {"delete_ref", "drop_lock"} =>
       \A i \in take_lock_and_delete(t) : edits(t)[i].name \in Packable => Has(packed, edits(t)[i].name)

Moves == NobodyDeletes =>
  /\ \A t \in Tx : InPacked(t)
  /\ \A n \in Packable : Overlay(given.loose[n], given.packed, n) # None => Value(n) # None

LEMMA PackedGrows ==
  ASSUME Types, Cursors, Guarded, Asked, NobodyDeletes, NEW t \in Tx, Effect(t)
  PROVE  /\ \A n \in Name : Has(packed, n) => Has(packed', n)
         /\ WritesPacked(t) => /\ tx'[t].pc # "packed_unlock"
                               /\ \A i \in PackedUpdates(t) : Has(packed', edits(t)[i].name)
<1>1. Own(t) /\ Fresh(t) /\ \A n \in Name : n \notin Names(t, "Delete")
    BY Zenon DEF Guarded, Asked, Names
<1>2. CASE WritesPacked(t)
    <2>1. packed_edits(t) = PackedUpdates(t)
        BY Zenon DEF packed_edits, edits_for_packed_transaction, PackedUpdates, ForPackedRefs, Asked
    <2>2. packed_edits(t) # {} => tx[t].buffer = packed
        BY Zenon, <1>1, <1>2, <2>1 DEF Own, Fresh, WritesPacked, WithLock
    <2>3. MergedPackedRefs(t) # None
        BY Zenon, MergedTypes, RefTransactionAssumption DEF RefTransactionAssumption
    <2>4. ASSUME NEW i \in packed_edits(t) PROVE Has(MergedPackedRefs(t), edits(t)[i].name)
        <3>1. edits(t)[i].name \in Name
            BY Zenon, EditNames DEF packed_edits, edits_for_packed_transaction, PackedUpdates, ForPackedRefs
        <3> QED
            BY Zenon, <1>1, <2>3, <3>1, MergedEntry DEF Has
    <2>5. packed_edits(t) # {} => ~IsEmpty(MergedPackedRefs(t))
        <3>1. ASSUME NEW i \in packed_edits(t) PROVE edits(t)[i].name \in Name
            BY Zenon, EditNames DEF packed_edits, edits_for_packed_transaction, PackedUpdates, ForPackedRefs
        <3> QED
            BY ZenonT(60), <2>4, <3>1 DEF IsEmpty, Has
    <2>6. /\ tx'[t].pc # "packed_unlock"
          /\ \/ packed_edits(t) = {} /\ packed' = packed
             \/ packed_edits(t) # {} /\ packed' = MergedPackedRefs(t)
        BY Zenon, <1>2, <2>5, PassPlaces DEF WritesPacked, Moved, Late
    <2>7. ASSUME packed_edits(t) # {}, NEW n \in Name, Has(packed, n) PROVE Has(MergedPackedRefs(t), n)
        BY ZenonT(60), <1>1, <2>2, <2>3, <2>7, MergedEntry DEF Has
    <2> QED
        BY Zenon, <2>1, <2>4, <2>6, <2>7
<1>3. CASE packed' = packed /\ ~WritesPacked(t)
    BY Zenon, <1>3
<1> QED
    BY ZenonT(60), <1>2, <1>3, PackedLockStep DEF Effect, Begins, Splits, Ends, Goes, TakesPacked,
       ReadsPacked, Reads, Takes, Accepts, Logs, Writes, Unlogs, UnlocksPacked, Deletes, Drops, Store

LEMMA InPackedStep ==
  ASSUME Types, Cursors, Guarded, Asked, NobodyDeletes, NEW t \in Tx, Effect(t), InPacked(t)
  PROVE  InPacked(t)'
<1>1. Own(t)
    BY Zenon DEF Guarded
<1>2. ASSUME NEW i \in take_lock_and_delete(t), edits(t)[i].name \in Packable PROVE i \in PackedUpdates(t)
    BY Zenon, <1>2 DEF take_lock_and_delete, delete_loose_refs, direct_to_packed_refs, PackedUpdates,
       ForPackedRefs, WithUpdates, possibly_adjust_name_for_prefixes, Asked
<1>3. CASE Begins(t) \/ Splits(t) \/ Ends(t)
    BY Zenon, <1>3 DEF Begins, Splits, Ends, Ended, InPacked
<1>4. CASE Carries(t) /\ ~Begins(t) /\ ~Splits(t) /\ ~Ends(t)
    <2>1. /\ take_lock_and_delete(t)' = take_lock_and_delete(t)
          /\ \A i \in take_lock_and_delete(t) : edits(t)'[i].name = edits(t)[i].name
          /\ \A i \in take_lock_and_delete(t) : edits(t)[i].name \in Name
        BY ZenonT(60), <1>4, SameKinds, EditNames DEF Carries, take_lock_and_delete
    <2>2. CASE TakesPacked(t) \/ ReadsPacked(t) \/ Reads(t) \/ Takes(t) \/ Accepts(t)
        BY Zenon, <2>2 DEF TakesPacked, ReadsPacked, Reads, Takes, Accepts, Moved, InPacked
    <2>3. CASE Deletes(t) \/ Drops(t)
        <3>1. tx'[t].pc \in Late /\ packed' = packed /\ tx[t].pc \in {"delete_ref", "drop_lock"}
            BY ZenonT(60), <2>3, PassPlaces DEF Deletes, Drops, Moved, Late, Store
        <3> QED
            BY Zenon, <2>1, <3>1 DEF InPacked, Late
    <2>4. CASE WritesPacked(t)
        BY ZenonT(60), <1>2, <2>1, <2>4, PackedGrows DEF InPacked
    <2>5. ASSUME NEW pc, NEW i, NEW k, ToFirst(t, k, pc, i) \/ ToSecond(t, k, pc, i), Moved(t, pc, i),
                 tx[t].pc \in WithLock
          PROVE  InPacked(t)'
        <3>1. pc \in Late => ~tx[t].packed_tx
            BY Zenon, <2>5 DEF ToFirst, ToSecond, Late
        <3>2. pc # "packed_unlock"
            BY ZenonT(60), <2>5, PassPlaces DEF Late
        <3>3. pc \in Late => \A j \in take_lock_and_delete(t) : edits(t)[j].name \notin Packable
            BY ZenonT(60), <1>1, <1>2, <2>5, <3>1 DEF Own
        <3> QED
            BY ZenonT(60), <2>1, <2>5, <3>2, <3>3 DEF InPacked, Moved, Late
    <2>6. CASE Logs(t) \/ Writes(t) \/ Unlogs(t)
        <3>1. CASE Moved(t, "commit_ref", tx[t].at)
            BY Zenon, <3>1 DEF Moved, InPacked
        <3> QED
            BY ZenonT(60), <2>5, <2>6, <3>1 DEF Logs, Writes, Unlogs, WithLock
    <2>7. CASE \E pc, i : Goes(t, pc, i)
        <3>1. PICK pc, i : Goes(t, pc, i)
            BY Zenon, <2>7
        <3>2. CASE tx[t].pc = "prepared"
            BY ZenonT(60), <2>5, <3>1, <3>2 DEF Goes, WithLock
        <3> QED
            BY ZenonT(60), <3>1, <3>2 DEF Goes, Moved, InPacked
    <2> QED
        BY ZenonT(60), <1>4, <2>2, <2>3, <2>4, <2>6, <2>7 DEF Effect, UnlocksPacked, InPacked
<1> QED
    BY Zenon, <1>3, <1>4, EffectCarries

LEMMA ValueKept ==
  ASSUME Types, Cursors, Guarded, Asked, NobodyDeletes, NEW t \in Tx, Effect(t), InPacked(t),
         NEW n \in Packable, Value(n) # None
  PROVE  Value(n)' # None
<1>1. n \in Name /\ (loose[n] # None \/ Has(packed, n))
    BY Zenon, RefTransactionAssumption DEF RefTransactionAssumption, Value, Overlay, Has
<1>2. Has(packed, n) => Has(packed', n)
    BY ZenonT(60), <1>1, PackedGrows
<1>3. loose[n] # None => loose'[n] # None \/ Has(packed', n)
    <2>1. CASE Writes(t)
        <3>1. name(t) \in Name /\ edit(t) \in WellFormed /\ edit(t).change = "Update"
            BY ZenonT(60), <2>1, NameOfEdit DEF Writes, OnAnEdit, Cursors, Cursor, Updates, edit
        <3>2. edit(t).new # None
            BY Zenon, <3>1 DEF WellFormed
        <3> QED
            BY ZenonT(60), <1>1, <2>1, <3>1, <3>2 DEF Writes, Types
    <2>2. CASE Deletes(t)
        <3>1. name(t) \in Name /\ tx[t].at \in take_lock_and_delete(t) /\ tx[t].pc = "delete_ref"
            BY Zenon, <2>2, NameOfEdit DEF Deletes, OnAnEdit, Cursors, Cursor
        <3>2. name(t) = n => Has(packed, n)
            BY Zenon, <3>1 DEF InPacked, name, edit
        <3> QED
            BY ZenonT(60), <1>1, <1>2, <2>2, <3>1, <3>2 DEF Deletes, Types
    <2> QED
        BY ZenonT(60), <2>1, <2>2 DEF Effect, Begins, Splits, Ends, Goes, TakesPacked, ReadsPacked, Reads,
           Takes, Accepts, Logs, Unlogs, WritesPacked, UnlocksPacked, Drops, Store
<1> QED
    BY ZenonT(60), <1>1, <1>2, <1>3 DEF Value, Overlay, Has

LEMMA MovesStep ==
  ASSUME Types, Cursors, Guarded, Asked, Moves, NEW t \in Tx, Others(t), Effect(t), given' = given
  PROVE  Moves'
<1>1. NobodyDeletes' <=> NobodyDeletes
    BY Zenon DEF NobodyDeletes, Requests
<1>2. ASSUME NobodyDeletes, NEW u \in Tx PROVE InPacked(u)'
    <2>1. InPacked(u)
        BY Zenon, <1>2 DEF Moves
    <2>2. CASE u = t
        BY ZenonT(60), <1>2, <2>1, <2>2, InPackedStep
    <2>3. CASE u # t
        <3>1. tx'[u] = tx[u]
            BY Zenon, <2>3 DEF Others
        <3>2. edits(u)' = edits(u) /\ take_lock_and_delete(u)' = take_lock_and_delete(u)
            BY Zenon, <3>1 DEF edits, take_lock_and_delete, delete_loose_refs, direct_to_packed_refs
        <3>3. \A i \in take_lock_and_delete(u) : edits(u)[i].name \in Name
            BY Zenon, EditNames DEF take_lock_and_delete
        <3> QED
            BY ZenonT(60), <1>2, <2>1, <3>1, <3>2, <3>3, PackedGrows DEF InPacked
    <2> QED
        BY ZenonT(60), <2>2, <2>3
<1>3. ASSUME NobodyDeletes, NEW n \in Packable, Overlay(given.loose[n], given.packed, n) # None
      PROVE  Value(n)' # None
    BY Zenon, <1>3, ValueKept DEF Moves
<1> QED
    BY ZenonT(60), <1>1, <1>2, <1>3 DEF Moves

----------------------------------------------------------------------------
(* Readers *)

LookupState == [pc: {"idle", "ref_contents", "done"}, name: Name \union {None},
                buffer: PackedFile \union {None}, found: Target \union {None}]

Finds(r) ==
  LET n == lookup[r].name
  IN  /\ lookup[r].pc # "idle" => n \in Name
      /\ NobodyPrunes /\ n \in Name /\ NeverDeleted(n) =>
           /\ lookup[r].pc = "ref_contents" /\ Has(given.packed, n) => Has(lookup[r].buffer, n)
           /\ /\ lookup[r].pc = "done" /\ Overlay(given.loose[n], given.packed, n) # None
              => lookup[r].found # None
      /\ NobodyDeletes /\ n \in Packable =>
           (/\ lookup[r].pc = "done" /\ Overlay(given.loose[n], given.packed, n) # None
            /\ lookup[r].found = None
            => Has(packed, n))

Lookups == lookup \in [Reader -> LookupState] /\ \A r \in Reader : Finds(r)

LEMMA LookupStep ==
  ASSUME Types, NothingLost, Moves, Lookups, NEW r \in Reader, try_find(r) \/ find_inner(r)
  PROVE  Lookups'
<1>1. /\ given' = given /\ tx' = tx /\ packed' = packed
      /\ \A n : NeverDeleted(n)' <=> NeverDeleted(n)
    BY SMTT(60) DEF try_find, find_inner, Store, NeverDeleted, Names, edits
<1>2. (NobodyPrunes' <=> NobodyPrunes) /\ (NobodyDeletes' <=> NobodyDeletes)
    BY Zenon, <1>1 DEF NobodyPrunes, NobodyDeletes, Requests
<1>3. ASSUME NEW s \in LookupState, lookup' = [lookup EXCEPT ![r] = s], Finds(r)'
      PROVE  Lookups'
    <2>1. lookup' \in [Reader -> LookupState] /\ \A q \in Reader \ {r} : lookup'[q] = lookup[q]
        BY Zenon, <1>3 DEF Lookups
    <2>2. ASSUME NEW q \in Reader, q # r PROVE Finds(q)'
        BY ZenonT(60), <1>1, <1>2, <2>1, <2>2 DEF Lookups, Finds
    <2> QED
        BY ZenonT(60), <1>3, <2>1, <2>2 DEF Lookups
<1>4. CASE try_find(r)
    <2>1. PICK n \in given.sought :
            lookup' = [lookup EXCEPT ![r] = [pc |-> "ref_contents", name |-> n,
                                             buffer |-> packed, found |-> None]]
        BY Zenon, <1>4 DEF try_find
    <2> DEFINE s == [pc |-> "ref_contents", name |-> n, buffer |-> packed, found |-> None]
    <2>2. n \in Name
        BY Zenon, RefTransactionAssumption DEF Types, RefTransactionAssumption
    <2>3. s \in LookupState /\ s.pc = "ref_contents" /\ s.name = n /\ s.buffer = packed
        BY Zenon, <2>2 DEF LookupState, Types
    <2>4. lookup' = [lookup EXCEPT ![r] = s]
        BY Zenon, <2>1
    <2> HIDE DEF s
    <2>5. lookup'[r] = s
        BY Zenon, <2>4 DEF Lookups
    <2>6. Finds(r)'
        BY ZenonT(60), <1>1, <1>2, <2>2, <2>3, <2>5 DEF Finds, NothingLost, Keeps
    <2> QED
        BY ZenonT(60), <1>3, <2>3, <2>4, <2>6
<1>5. CASE find_inner(r)
    <2> DEFINE n == lookup[r].name
               v == Overlay(loose[n], lookup[r].buffer, n)
               s == [lookup[r] EXCEPT !.pc = "done", !.buffer = None, !.found = v]
    <2>1. lookup[r] \in LookupState /\ lookup[r].pc = "ref_contents" /\ n \in Name /\ Finds(r)
        BY Zenon, <1>5 DEF find_inner, Lookups, Finds
    <2>2. v \in Target \union {None}
        <3>1. loose[n] \in Target \union {None}
            BY ZenonT(60), <2>1 DEF Types
        <3>2. lookup[r].buffer # None => lookup[r].buffer[n] \in Oid \union {None}
            BY Zenon, <2>1 DEF LookupState, PackedFile
        <3> QED
            BY ZenonT(60), <3>1, <3>2 DEF Overlay, Target
    <2>3. lookup' = [lookup EXCEPT ![r] = s]
        BY ZenonT(60), <1>5 DEF find_inner, Lookups, LookupState
    <2>4. NobodyPrunes /\ NeverDeleted(n) /\ Overlay(given.loose[n], given.packed, n) # None => v # None
        BY Zenon, <2>1 DEF NothingLost, Keeps, Finds, Overlay, Has
    <2>5. /\ NobodyDeletes /\ n \in Packable /\ Overlay(given.loose[n], given.packed, n) # None
          /\ v = None
          => Has(packed, n)
        BY Zenon, <2>1 DEF Moves, Value, Overlay, Has
    <2> HIDE DEF v
    <2>6. s \in LookupState /\ s.pc = "done" /\ s.name = n /\ s.found = v
        BY ZenonT(60), <2>1, <2>2 DEF LookupState
    <2> HIDE DEF s
    <2>7. lookup'[r] = s
        BY Zenon, <2>3 DEF Lookups
    <2>8. Finds(r)'
        BY ZenonT(60), <1>1, <1>2, <2>1, <2>4, <2>6, <2>7, <2>5 DEF Finds
    <2> QED
        BY ZenonT(60), <1>3, <2>3, <2>6, <2>8
<1> QED
    BY ZenonT(60), <1>4, <1>5

----------------------------------------------------------------------------
(* The theorems *)

PackedInv == LocksInv /\ Guarded /\ Asked /\ NothingLost /\ Moves /\ Lookups

LEMMA PackedInit == Init => PackedInv
<1> SUFFICES ASSUME Init PROVE PackedInv
    BY Zenon
<1>1. LocksInv
    BY ZenonT(60), LocksInit
<1>2. /\ given \in Scenario /\ loose = given.loose /\ packed = given.packed
      /\ \A t \in Tx : tx[t] = Idle
      /\ lookup = [r \in Reader |-> [pc |-> "idle", name |-> None, buffer |-> None, found |-> None]]
    BY Zenon DEF Init
<1>3. \A t \in Tx : /\ tx[t].pc = "idle" /\ edits(t) = <<>> /\ tx[t].packed_tx = FALSE
                    /\ tx[t].packed_refs = "DeletionsOnly"
    <2>1. /\ Idle.pc = "idle" /\ Idle.edits = <<>> /\ Idle.packed_tx = FALSE
          /\ Idle.packed_refs = "DeletionsOnly"
        BY Zenon DEF Idle
    <2> QED
        BY ZenonT(60), <1>2, <2>1 DEF edits
<1>4. Guarded
    BY ZenonT(60), <1>3 DEF Guarded, Own, Holds, Fresh, WithLock, Late
<1>5. Asked
    BY <1>3 DEF Asked, delete_loose_refs, direct_to_packed_refs
<1>6. NothingLost
    BY ZenonT(60), <1>2, <1>3 DEF NothingLost, Keeps, Taken
<1>7. Moves
    BY ZenonT(60), <1>2, <1>3 DEF Moves, InPacked, Value
<1>8. Lookups
    <2>1. [pc |-> "idle", name |-> None, buffer |-> None, found |-> None] \in LookupState
        BY Zenon DEF LookupState
    <2>2. lookup \in [Reader -> LookupState] /\ \A r \in Reader : lookup[r].pc = "idle"
        BY ZenonT(60), <1>2, <2>1
    <2> QED
        BY ZenonT(60), <2>2 DEF Lookups, Finds
<1> QED
    BY ZenonT(60), <1>1, <1>4, <1>5, <1>6, <1>7, <1>8 DEF PackedInv

LEMMA PackedInvStep == PackedInv /\ [Next]_vars => PackedInv'
<1> SUFFICES ASSUME PackedInv, [Next]_vars PROVE PackedInv'
    BY Zenon
<1> USE DEF PackedInv, LocksInv
<1>1. LocksInv'
    BY Zenon, LocksStep
<1>2. ASSUME NEW t \in Tx, start(t) \/ Step(t) \/ io_error(t) \/ kill(t) PROVE PackedInv'
    <2>1. Others(t) /\ UNCHANGED <<lookup, given>> /\ Effect(t)
        BY Zenon, <1>2, StepEffect
    <2>2. Guarded' /\ Asked' /\ NothingLost' /\ Moves'
        BY ZenonT(60), <2>1, GuardedStep, AskedStep, NothingLostStep, MovesStep
    <2>3. \A n : NeverDeleted(n)' => NeverDeleted(n)
        BY ZenonT(60), <2>1, NamesGrow DEF NeverDeleted
    <2>4. (NobodyPrunes' <=> NobodyPrunes) /\ (NobodyDeletes' <=> NobodyDeletes)
        BY Zenon, <2>1 DEF NobodyPrunes, NobodyDeletes, Requests
    <2>5. ASSUME NEW r \in Reader PROVE Finds(r)'
        <3>1. Finds(r) /\ lookup'[r] = lookup[r] /\ given' = given
            BY Zenon, <2>1 DEF Lookups
        <3>2. NobodyDeletes => \A n \in Name : Has(packed, n) => Has(packed', n)
            BY Zenon, <2>1, PackedGrows
        <3> QED
            BY ZenonT(60), <2>3, <2>4, <3>1, <3>2, RefTransactionAssumption DEF Finds, RefTransactionAssumption
    <2>6. Lookups'
        BY Zenon, <2>1, <2>5 DEF Lookups
    <2> QED
        BY ZenonT(60), <1>1, <2>2, <2>6
<1>3. ASSUME UNCHANGED <<loose, packed, reflog, locks, packed_lock, tx, given>>
      PROVE  /\ Guarded' /\ Asked' /\ NothingLost' /\ Moves' /\ (lookup' = lookup => Lookups')
    <2>1. Guarded'
        BY ZenonT(60), <1>3 DEF Guarded, Own, Holds, Fresh, edits, PackedUpdates, ForPackedRefs, WithUpdates
    <2>2. NobodyPrunes' = NobodyPrunes /\ NobodyDeletes' = NobodyDeletes /\ \A n : NeverDeleted(n)' = NeverDeleted(n)
        BY ZenonT(60), <1>3 DEF NobodyPrunes, NobodyDeletes, Requests, NeverDeleted, Names, edits
    <2>3. Asked'
        BY ZenonT(60), <1>3, <2>2 DEF Asked, delete_loose_refs, direct_to_packed_refs, edits
    <2>4. NothingLost'
        BY ZenonT(60), <1>3, <2>2 DEF NothingLost, Keeps, Taken
    <2>5. Moves'
        BY ZenonT(60), <1>3, <2>2 DEF Moves, InPacked, Value, edits, take_lock_and_delete,
           delete_loose_refs, direct_to_packed_refs
    <2>6. lookup' = lookup => Lookups'
        BY ZenonT(60), <1>3, <2>2 DEF Lookups, Finds
    <2> QED
        BY ZenonT(60), <2>1, <2>3, <2>4, <2>5, <2>6
<1>4. ASSUME NEW r \in Reader, try_find(r) \/ find_inner(r) PROVE PackedInv'
    <2>1. UNCHANGED <<loose, packed, reflog, locks, packed_lock, tx, given>>
        BY Zenon, <1>4 DEF try_find, find_inner, Store
    <2> QED
        BY ZenonT(60), <1>1, <1>3, <1>4, <2>1, LookupStep
<1>5. CASE UNCHANGED vars
    BY ZenonT(60), <1>1, <1>3, <1>5 DEF vars
<1> QED
    BY ZenonT(60), <1>2, <1>4, <1>5 DEF Next

(***************************************************************************)
(* RefNeverVanishes: a reference that nobody asked to delete can be found  *)
(* at all times, whatever fails, dies or interleaves.  Without pruning the *)
(* loose file stays and every copy of packed-refs that will be written     *)
(* back has the reference (NothingLost); with pruning and no deletions,    *)
(* copies are read under the lock (Guarded) and the loose file goes after  *)
(* packed-refs is written (Moves).                                         *)
(***************************************************************************)
THEOREM NeverVanishes == Spec => []RefNeverVanishes
<1>1. PackedInv => RefNeverVanishes
    <2> SUFFICES ASSUME PackedInv, NEW n \in Name, Overlay(given.loose[n], given.packed, n) # None,
                        NeverDeleted(n), NobodyPrunes \/ (NobodyDeletes /\ n \in Packable)
                 PROVE  Value(n) # None
        BY Zenon DEF RefNeverVanishes, possibly_adjust_name_for_prefixes
    <2>1. CASE NobodyPrunes
        BY Zenon, <2>1 DEF PackedInv, NothingLost, Keeps, Value, Overlay, Has
    <2>2. CASE NobodyDeletes /\ n \in Packable
        BY ZenonT(60), <2>2 DEF PackedInv, Moves
    <2> QED
        BY Zenon, <2>1, <2>2
<1> QED
    BY <1>1, PackedInit, PackedInvStep, PTL DEF Spec

(***************************************************************************)
(* FindsExistingRefs: a lookup reads packed-refs some time before the      *)
(* loose file and still finds every reference that exists and nobody asks  *)
(* to delete, as long as none is moved into packed-refs meanwhile.  When   *)
(* references are moved and it does miss one, the reference is in          *)
(* packed-refs by then (Moves, PackedGrows).                               *)
(***************************************************************************)
THEOREM LookupsFind == Spec => []FindsExistingRefs
<1>1. PackedInv => FindsExistingRefs
    <2> SUFFICES ASSUME PackedInv, NEW r \in Reader, lookup[r].pc = "done",
                        NeverDeleted(lookup[r].name), lookup[r].found = None,
                        Overlay(given.loose[lookup[r].name], given.packed, lookup[r].name) # None
                 PROVE  /\ ~NobodyPrunes
                        /\ NobodyDeletes /\ lookup[r].name \in Packable => Has(packed, lookup[r].name)
        BY Zenon DEF FindsExistingRefs, possibly_adjust_name_for_prefixes
    <2> QED
        BY Zenon DEF PackedInv, Lookups, Finds
<1> QED
    BY <1>1, PackedInit, PackedInvStep, PTL DEF Spec
=============================================================================
