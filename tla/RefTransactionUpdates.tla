----------------------- MODULE RefTransactionUpdates ------------------------
(***************************************************************************)
(* No update that was accepted is passed over when it is committed.        *)
(***************************************************************************)
EXTENDS RefTransactionLogs, RefTransactionPacked

\* An update that was compared has its lock, or nothing to do, or is for packed-refs alone.
Ready(t) ==
  \A i \in 1..Len(edits(t)) :
    Seen(t, i) /\ edits(t)[i].change = "Update" /\ locks[edits(t)[i].name] # t
      => \/ IsCurrent(edits(t)[i])
         \/ direct_to_packed_refs(t) /\ IsObject(edits(t)[i].new)

LEMMA ReadyAccepts ==
  ASSUME LocksInv, NEW t \in Tx, Others(t), Accepts(t), NEW i \in 1..Len(edits(t)), i = tx[t].at,
         edits(t)[i].change = "Update", locks'[edits(t)[i].name] # t
  PROVE  \/ IsCurrent(edits(t)'[i])
         \/ direct_to_packed_refs(t) /\ IsObject(edits(t)[i].new)
<1>1. Types /\ Cursors /\ AllHeld
    BY Zenon DEF LocksInv
<1>2. /\ tx[t].pc \in {"apply", "obtain_lock"} /\ name(t) = edits(t)[i].name /\ edit(t) = edits(t)[i]
      /\ edit(t) \in WellFormed /\ edit(t).change = "Update" /\ name(t) \in Name
    BY ZenonT(60), <1>1, NameOfEdit DEF Accepts, name, edit, OnAnEdit
<1>3. tx[t].pc = "apply" /\ ~MustWrite(tx[t].existing, edit(t).new, direct_to_packed_refs(t))
    <2>1. tx[t].pc = "apply"
        BY ZenonT(60), <1>1, <1>2 DEF Accepts, Types
    <2>2. ~tx[t].packed_tx => locks[name(t)] = t
        BY Zenon, <1>1, <2>1 DEF AllHeld, Held
    <2> QED
        BY ZenonT(60), <1>2, <2>1, <2>2 DEF Accepts
<1>4. edit(t).new \in Oid /\ (tx[t].existing = edit(t).new \/ direct_to_packed_refs(t))
    <2>1. edit(t).new \in Target
        BY Zenon, <1>2 DEF WellFormed, Edit
    <2> QED
        BY ZenonT(60), <1>3, <2>1 DEF MustWrite, IsSymbolic, Target
<1>5. CASE tx[t].existing = edit(t).new
    <2>1. tx[t].existing # None
        BY ZenonT(60), <1>4, <1>5, RefTransactionAssumption DEF Target, RefTransactionAssumption
    <2>2. /\ Applied(t)[i].expected = Expect("MustExistAndMatch", tx[t].existing)
          /\ Applied(t)[i].new = edits(t)[i].new
        BY ZenonT(60), <1>1, <1>2, <2>1, AppliedTypes DEF OnAnEdit
    <2>3. edits(t)'[i] = Applied(t)[i]
        BY Zenon DEF Accepts, edits
    <2> QED
        BY SMTT(60), <1>2, <1>5, <2>2, <2>3 DEF IsCurrent, Expect
<1> QED
    BY Zenon, <1>2, <1>4, <1>5 DEF IsObject

LEMMA ReadyStep ==
  ASSUME LocksInv, NEW t \in Tx, Ready(t), Others(t), Effect(t)
  PROVE  Ready(t)'
<1>1. Types /\ Cursors
    BY Zenon DEF LocksInv
<1>2. CASE Begins(t) \/ Splits(t) \/ Ends(t)
    BY ZenonT(60), <1>2 DEF Begins, Splits, Ends, Ended, Ready, Seen
<1>3. CASE Carries(t) /\ ~Begins(t) /\ ~Splits(t) /\ ~Ends(t)
    <2>1. direct_to_packed_refs(t)' <=> direct_to_packed_refs(t)
        BY Zenon, <1>3 DEF Carries, direct_to_packed_refs
    <2> SUFFICES ASSUME NEW i \in 1..Len(edits(t)), Seen(t, i)', edits(t)[i].change = "Update",
                        locks'[edits(t)[i].name] # t
                 PROVE  \/ IsCurrent(edits(t)'[i])
                        \/ direct_to_packed_refs(t) /\ IsObject(edits(t)[i].new)
        BY ZenonT(60), <1>3, <2>1 DEF Ready, Carries, IsCurrent
    <2>2. edits(t)'[i].new = edits(t)[i].new
        BY Zenon, <1>3 DEF Carries
    <2>3. CASE Seen(t, i) /\ edits(t)'[i].expected = edits(t)[i].expected
                 /\ locks'[edits(t)[i].name] = locks[edits(t)[i].name]
        BY ZenonT(60), <2>2, <2>3 DEF Ready, IsCurrent
    <2>4. CASE Accepts(t) /\ i = tx[t].at
        BY ZenonT(60), <2>4, ReadyAccepts
    <2> QED
        BY ZenonT(60), <1>3, <2>3, <2>4, SeenBefore
<1> QED
    BY ZenonT(60), <1>1, <1>2, <1>3, EffectCarries

LEMMA ReadyFrame ==
  ASSUME LocksInv, NEW t \in Tx, Others(t), Effect(t), NEW u \in Tx, u # t, Ready(u)
  PROVE  Ready(u)'
<1>1. /\ tx'[u] = tx[u] /\ edits(u)' = edits(u) /\ direct_to_packed_refs(u)' = direct_to_packed_refs(u)
      /\ \A i \in 1..Len(edits(u)) : Seen(u, i)' <=> Seen(u, i)
    BY Zenon DEF Others, edits, Seen, direct_to_packed_refs
<1>2. \A i \in 1..Len(edits(u)) : edits(u)[i].name \in Name
    BY Zenon, EditNames DEF LocksInv
<1>3. \A i \in 1..Len(edits(u)) : locks'[edits(u)[i].name] = u <=> locks[edits(u)[i].name] = u
    BY Zenon, <1>2, NotGained
<1> QED
    BY ZenonT(60), <1>1, <1>3 DEF Ready

UpdatesInv == PackedInv /\ \A t \in Tx : Ready(t)

LEMMA UpdatesInit == Init => UpdatesInv
<1> SUFFICES ASSUME Init PROVE UpdatesInv
    BY Zenon
<1>1. \A t \in Tx : tx[t].pc = "idle"
    BY Zenon DEF Init, Idle
<1> QED
    BY ZenonT(60), <1>1, PackedInit DEF UpdatesInv, Ready, Seen

LEMMA UpdatesStep == UpdatesInv /\ [Next]_vars => UpdatesInv'
<1> SUFFICES ASSUME UpdatesInv, [Next]_vars PROVE UpdatesInv'
    BY Zenon
<1>1. PackedInv' /\ PackedInv /\ LocksInv
    BY Zenon, PackedInvStep DEF UpdatesInv, PackedInv
<1>2. ASSUME NEW t \in Tx, start(t) \/ Step(t) \/ io_error(t) \/ kill(t) PROVE \A u \in Tx : Ready(u)'
    <2>1. Others(t) /\ Effect(t)
        BY Zenon, <1>1, <1>2, StepEffect DEF LocksInv
    <2>2. Ready(t)'
        BY ZenonT(60), <1>1, <2>1, ReadyStep DEF UpdatesInv
    <2>3. ASSUME NEW u \in Tx, u # t PROVE Ready(u)'
        BY ZenonT(60), <1>1, <2>1, <2>3, ReadyFrame DEF UpdatesInv
    <2> QED
        BY Zenon, <2>2, <2>3
<1>3. ASSUME UNCHANGED <<locks, tx>> PROVE \A u \in Tx : Ready(u)'
    BY ZenonT(60), <1>3 DEF UpdatesInv, Ready, Seen, edits, direct_to_packed_refs
<1>4. ASSUME NEW r \in Reader, try_find(r) \/ find_inner(r) PROVE UNCHANGED <<locks, tx>>
    BY Zenon, <1>4 DEF try_find, find_inner
<1> QED
    BY ZenonT(60), <1>1, <1>2, <1>3, <1>4 DEF Next, vars, UpdatesInv

(***************************************************************************)
(* NoUpdateIsSkipped: commit passes over an update whose lock is missing   *)
(* and reports success, so prepare must have seen to it that each update   *)
(* has its lock, or has nothing to do, or is made by the packed-refs file, *)
(* whose lock is held then.  Ready says so of the updates that were        *)
(* compared, from their comparison on; Own and Holds say who has the lock  *)
(* of packed-refs.                                                         *)
(***************************************************************************)
THEOREM NothingSkipped == Spec => []NoUpdateIsSkipped
<1>1. UpdatesInv => NoUpdateIsSkipped
    <2> SUFFICES ASSUME UpdatesInv, NEW t \in Tx, tx[t].pc \in {"prepared", "reflog", "commit_ref"},
                        NEW i \in Updates(t), i >= tx[t].at, edits(t)[i].log = "AndReference",
                        locks[edits(t)[i].name] # t
                 PROVE  \/ previous_value(edits(t)[i]) = edits(t)[i].new
                        \/ /\ direct_to_packed_refs(t) /\ IsObject(edits(t)[i].new)
                           /\ packed_lock = t \/ ~possibly_adjust_name_for_prefixes(edits(t)[i].name)
        BY ZenonT(60) DEF NoUpdateIsSkipped
    <2>1. i \in 1..Len(edits(t)) /\ edits(t)[i].change = "Update" /\ Seen(t, i)
        BY Zenon DEF Updates, Seen
    <2>2. \/ IsCurrent(edits(t)[i])
          \/ direct_to_packed_refs(t) /\ IsObject(edits(t)[i].new)
        BY ZenonT(60), <2>1 DEF UpdatesInv, Ready
    <2>3. CASE IsCurrent(edits(t)[i])
        BY Zenon, <2>3 DEF IsCurrent, previous_value
    <2>4. CASE direct_to_packed_refs(t) /\ IsObject(edits(t)[i].new)
        <3>1. CASE possibly_adjust_name_for_prefixes(edits(t)[i].name)
            <4>1. i \in PackedUpdates(t)
                BY ZenonT(60), <2>1, <2>4, <3>1 DEF PackedUpdates, ForPackedRefs, WithUpdates, direct_to_packed_refs
            <4>2. Own(t) /\ Holds(t) /\ tx[t].pc \in WithLock
                BY Zenon DEF UpdatesInv, PackedInv, Guarded, WithLock
            <4> QED
                BY ZenonT(60), <2>4, <4>1, <4>2 DEF Own, Holds
        <3> QED
            BY Zenon, <2>4, <3>1
    <2> QED
        BY Zenon, <2>2, <2>3, <2>4
<1> QED
    BY <1>1, UpdatesInit, UpdatesStep, PTL DEF Spec
=============================================================================
