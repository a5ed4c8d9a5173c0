------------------------- MODULE RefTransactionLogs -------------------------
(***************************************************************************)
(* References and their reflogs: what a transaction compared and locked    *)
(* decides what it logs, and the reflog is written and deleted before the  *)
(* reference.  LogsInv is the invariant, LogsMatch the theorem.            *)
(***************************************************************************)
EXTENDS RefTransactionLocks

\* Only references that were split take over the object id of another one.
Chain(t) ==
  \A i \in 1..Len(edits(t)) :
    /\ edits(t)[i].log = "AndReference" => edits(t)[i].leaf_referent_previous_oid = None
    /\ edits(t)[i].parent_index # 0 =>
         /\ edits(t)[i].parent_index \in 1..Len(edits(t))
         /\ edits(t)[edits(t)[i].parent_index].log = "Only"

\* References that are still to be compared are not locked yet.
Unlocked(t) ==
  /\ tx[t].pc \in {"idle", "pre_process"} \union Early => \A n \in Name : locks[n] # t
  /\ tx[t].pc \in {"read", "lock", "apply", "obtain_lock"} =>
       \A i \in 1..Len(edits(t)) :
         i > tx[t].at \/ (i = tx[t].at /\ (tx[t].pc # "apply" \/ tx[t].packed_tx))
           => locks[edits(t)[i].name] # t
  /\ tx[t].pc = "lock" => ~tx[t].packed_tx
  /\ tx[t].pc = "obtain_lock" =>
       /\ MayUpdate(edit(t).expected, tx[t].existing, edit(t).new)
       /\ MustWrite(tx[t].existing, edit(t).new, direct_to_packed_refs(t))

IsCurrent(e) == e.expected.is = "MustExistAndMatch" /\ e.expected.value = e.new

\* References that were compared and locked are given another object id.
Differs(t) ==
  \A i \in 1..Len(edits(t)) :
    Seen(t, i) /\ edits(t)[i].change = "Update" /\ IsObject(edits(t)[i].new) /\ locks[edits(t)[i].name] = t
      => ~IsCurrent(edits(t)[i])

InLog(n, v) == reflog[n] # None /\ \E k \in 1..Len(reflog[n]) : reflog[n][k].new = v

\* What is about to be written into a reference is in its reflog.
Logged(t) ==
  /\ tx[t].pc = "commit_ref" /\ edit(t).log = "AndReference" /\ IsObject(edit(t).new)
  /\ locks[name(t)] = t /\ name(t) \in AutoLog /\ NeverDeleted(name(t))
  => InLog(name(t), edit(t).new)

\* Without packed-refs, the references that were compared and not locked stay as they are.
Skipped(t) ==
  \A i \in 1..Len(edits(t)) :
    Seen(t, i) /\ edits(t)[i].change = "Update" /\ locks[edits(t)[i].name] # t
      => IsObject(edits(t)[i].new) /\ IsCurrent(edits(t)[i])

\* The reflog of a reference that is about to be deleted is gone.
Unlogged(t, i) ==
  \/ tx[t].pc = "delete_reflog" /\ i < tx[t].at
  \/ tx[t].pc = "delete_ref" /\ i >= tx[t].at
  \/ tx[t].pc = "drop_lock" /\ i > tx[t].at

NoLogs(t) ==
  \A i \in 1..Len(edits(t)) :
    edits(t)[i].change = "Delete" /\ Unlogged(t, i) => reflog[edits(t)[i].name] = None

\* Somebody made the reflog and not the reference.
Creates(t, n) ==
  /\ n \in Names(t, "Update")
  /\ tx[t].pc \in {"failed", "killed"} \/ (tx[t].pc = "commit_ref" /\ name(t) = n /\ locks[n] = t)

SplitAt(t, n) == \E i \in 1..Len(edits(t)) : edits(t)[i].name = n /\ edits(t)[i].log = "Only"

Orphans ==
  \A n \in Name : reflog[n] # None /\ loose[n] = None => \E t \in Tx : Creates(t, n) \/ SplitAt(t, n)

LogsInv ==
  /\ LocksInv /\ LogBeforeRef
  /\ \A t \in Tx : Chain(t) /\ Unlocked(t) /\ Differs(t) /\ Logged(t)
  /\ PackedRefsUnused => Orphans /\ \A t \in Tx : Skipped(t) /\ NoLogs(t)

----------------------------------------------------------------------------
(* Edits *)

LEMMA EffectEdits ==
  ASSUME NEW t \in Tx, Effect(t)
  PROVE  \/ Begins(t) \/ Accepts(t) \/ tx'[t].edits = tx[t].edits
         \/ /\ Splits(t)
            /\ \/ edits(t)' = [edits(t) EXCEPT ![tx[t].at] = [edits(t)[tx[t].at] EXCEPT !.deref = FALSE]]
               \/ /\ loose[name(t)] \in Name
                  /\ edits(t)' = Split(edits(t), tx[t].at, loose[name(t)])
<1>1. CASE Splits(t)
    BY Zenon, <1>1 DEF Splits, edits
<1> QED
    BY Zenon, <1>1 DEF Effect, Ends, Goes, Moved, TakesPacked, ReadsPacked, Reads, Takes, Logs, Writes, Unlogs,
       WritesPacked, UnlocksPacked, Deletes, Drops

LEMMA OnlyAncestors ==
  ASSUME NEW t \in Tx, Chain(t), NEW i \in 1..Len(edits(t)), NEW j \in Ancestors(edits(t), i)
  PROVE  j \in 1..Len(edits(t)) /\ edits(t)[j].log = "Only"
<1> DEFINE es == edits(t)
           S  == {k \in 1..Len(es) : k = i \/ es[k].log = "Only"}
<1>1. j \in 1..Len(es) /\ j # i
    BY Zenon DEF Ancestors
<1>2. S \in SUBSET (1..Len(es)) /\ i \in S
    BY Zenon
<1>3. \A k \in S : es[k].parent_index # 0 => es[k].parent_index \in S
    BY Zenon DEF Chain
<1>4. j \in S
    BY Zenon, <1>2, <1>3 DEF Ancestors
<1> QED
    BY Zenon, <1>1, <1>4

LEMMA ChainStep ==
  ASSUME Types, Cursors, NEW t \in Tx, Chain(t), Others(t), Effect(t)
  PROVE  Chain(t)'
<1> DEFINE es == edits(t)
           i  == tx[t].at
<1>1. es \in Seq(WellFormed) /\ Len(es) \in Nat
    BY DEF Types, TxState, edits
<1>2. CASE edits(t)' = edits(t)
    BY Zenon, <1>2 DEF Chain
<1>3. CASE Begins(t)
    <2>1. PICK r \in given.request[t] : tx'[t].edits = r.edits
        BY Zenon, <1>3 DEF Begins
    <2>2. \A j \in 1..Len(r.edits) : r.edits[j].parent_index = 0 /\ r.edits[j].leaf_referent_previous_oid = None
        BY RefTransactionAssumption DEF Types, RefTransactionAssumption
    <2> QED
        BY Zenon, <2>1, <2>2 DEF Chain, edits
<1>4. CASE Splits(t) /\ edits(t)' = [es EXCEPT ![i] = [es[i] EXCEPT !.deref = FALSE]]
    <2> DEFINE e == [es[i] EXCEPT !.deref = FALSE]
    <2>1. i \in 1..Len(es)
        BY Zenon, <1>4 DEF Splits
    <2>2. es[i] \in WellFormed
        BY <1>1, <2>1
    <2>3. /\ e.log = es[i].log /\ e.parent_index = es[i].parent_index
          /\ e.leaf_referent_previous_oid = es[i].leaf_referent_previous_oid
        BY Zenon, <2>2 DEF WellFormed, Edit
    <2> HIDE DEF e
    <2>4. Len(edits(t)') = Len(es) /\ \A j \in 1..Len(es) : edits(t)'[j] = IF j = i THEN e ELSE es[j]
        BY <1>1, <1>4 DEF e
    <2>5. \A j \in 1..Len(es) :
            /\ edits(t)'[j].log = es[j].log /\ edits(t)'[j].parent_index = es[j].parent_index
            /\ edits(t)'[j].leaf_referent_previous_oid = es[j].leaf_referent_previous_oid
        BY Zenon, <2>3, <2>4
    <2> QED
        BY <2>4, <2>5 DEF Chain
<1>5. CASE Splits(t) /\ loose[name(t)] \in Name /\ edits(t)' = Split(es, i, loose[name(t)])
    <2> DEFINE s == edits(t)'
               m == Len(es) + 1
    <2>1. /\ Len(s) = m /\ i \in 1..Len(es)
          /\ \A j \in 1..Len(es) :
               /\ s[j].log = IF j = i THEN "Only" ELSE es[j].log
               /\ s[j].parent_index = es[j].parent_index
               /\ s[j].leaf_referent_previous_oid = es[j].leaf_referent_previous_oid
          /\ s[m].log = es[i].log /\ s[m].parent_index = i
          /\ s[m].leaf_referent_previous_oid = es[i].leaf_referent_previous_oid
        BY SMTT(60), <1>1, <1>5, SplitKinds DEF Splits
    <2> HIDE DEF s
    <2>2. ASSUME NEW j \in 1..Len(es)
          PROVE  /\ s[j].log = "AndReference" => s[j].leaf_referent_previous_oid = None
                 /\ s[j].parent_index # 0 =>
                      s[j].parent_index \in 1..Len(s) /\ s[s[j].parent_index].log = "Only"
        BY SMTT(60), <1>1, <2>1 DEF Chain
    <2>3. /\ s[m].log = "AndReference" => s[m].leaf_referent_previous_oid = None
          /\ s[m].parent_index \in 1..Len(s) /\ s[s[m].parent_index].log = "Only"
        BY SMTT(60), <1>1, <2>1 DEF Chain
    <2>4. \A j \in 1..Len(s) : j \in 1..Len(es) \/ j = m
        BY <1>1, <2>1
    <2> QED
        BY ZenonT(60), <2>2, <2>3, <2>4 DEF Chain, s
<1>6. CASE Accepts(t)
    <2>1. tx[t].at \in 1..Len(edits(t))
        BY Zenon, <1>6 DEF Accepts, Cursors, Cursor, OnAnEdit
    <2>2. edits(t)' = Applied(t)
        BY Zenon, <1>6 DEF Accepts, edits
    <2>3. Len(edits(t)') = Len(es) /\ \A j \in 1..Len(es) :
            /\ edits(t)'[j].log = es[j].log /\ edits(t)'[j].parent_index = es[j].parent_index
            /\ \/ edits(t)'[j].leaf_referent_previous_oid = es[j].leaf_referent_previous_oid
               \/ es[j].log = "Only"
        BY ZenonT(60), <2>1, <2>2, AppliedTypes, OnlyAncestors
    <2> QED
        BY <2>3 DEF Chain
<1>7. CASE tx'[t].edits = tx[t].edits
    BY Zenon, <1>2, <1>7 DEF edits
<1> QED
    BY ZenonT(60), <1>3, <1>4, <1>5, <1>6, <1>7, EffectEdits

----------------------------------------------------------------------------
(* Locks *)

\* A reference other than the one at hand has another name.
LEMMA OtherName ==
  ASSUME LocksInv, NEW t \in Tx, tx[t].pc \in OnAnEdit, NEW i \in 1..Len(edits(t)), i # tx[t].at
  PROVE  edits(t)[i].name # name(t)
<1>1. tx[t].at \in 1..Len(edits(t)) /\ tx[t].pc \notin {"idle", "pre_process"} \union Ended
    BY Zenon DEF LocksInv, Cursors, Cursor, OnAnEdit, Ended
<1>2. OneNameHasOneEdit(edits(t))
    BY Zenon, <1>1 DEF LocksInv, AllHeld, Held
<1> QED
    BY Zenon, <1>1, <1>2 DEF OneNameHasOneEdit, name, edit

\* What was compared before keeps its lock, or goes on without.
LEMMA SeenBefore ==
  ASSUME LocksInv, NEW t \in Tx, Others(t), Effect(t), Carries(t), ~Begins(t), ~Splits(t), ~Ends(t),
         NEW i \in 1..Len(edits(t)), Seen(t, i)'
  PROVE  \/ Accepts(t) /\ i = tx[t].at
         \/ /\ Seen(t, i) /\ edits(t)'[i].expected = edits(t)[i].expected
            /\ locks'[edits(t)[i].name] = locks[edits(t)[i].name]
<1> DEFINE n == edits(t)[i].name
<1>1. Types /\ Cursors /\ n \in Name /\ Len(edits(t)) \in Nat
    <2>1. Types /\ Cursors /\ edits(t) \in Seq(WellFormed)
        BY Zenon DEF LocksInv, Types, TxState, edits
    <2> QED
        BY <2>1, EditNames
<1>2. tx[t].pc \in OnAnEdit /\ tx[t].at # i => name(t) # n
    BY Zenon, OtherName
<1> HIDE DEF n
<1>3. CASE \E pc, k : Goes(t, pc, k)
    <2>1. PICK pc, k : Goes(t, pc, k)
        BY Zenon, <1>3
    <2>2. tx[t].pc = "prepared" \/ tx'[t].pc \in {"is_file", "packed_choice", "lock_is_file", "read", "packed_lock",
            "packed_read_first", "spins", "obtain_lock"}
        BY Zenon, <2>1 DEF Goes, Moved
    <2>3. locks' = locks /\ edits(t)' = edits(t)
        BY Zenon, <2>1 DEF Goes, Moved, SameLocks, edits
    <2>4. tx[t].pc = "prepared" \/ (tx'[t].pc = "read" /\ tx'[t].at = 1)
            \/ (tx[t].pc = "apply" /\ tx'[t].pc = "obtain_lock" /\ tx'[t].at = tx[t].at)
        BY Zenon, <2>1, <2>2 DEF Goes, Moved, Seen
    <2>5. Seen(t, i)
        BY <1>1, <2>4 DEF Seen
    <2> QED
        BY Zenon, <2>3, <2>5 DEF n
<1>4. CASE TakesPacked(t) \/ ReadsPacked(t)
    BY SMTT(60), <1>1, <1>4 DEF TakesPacked, ReadsPacked, Seen
<1>5. CASE Reads(t)
    BY Zenon, <1>5 DEF Reads, Seen, SameLocks, edits, n
<1>6. CASE Takes(t)
    <2>1. Seen(t, i) /\ tx[t].at # i /\ edits(t)' = edits(t) /\ tx[t].pc \in OnAnEdit
        BY <1>1, <1>6 DEF Takes, Moved, Seen, edits, OnAnEdit
    <2>2. locks'[n] = locks[n]
        BY Zenon, <1>1, <1>2, <1>6, <2>1 DEF Takes, Types
    <2> QED
        BY Zenon, <2>1, <2>2 DEF n
<1>7. CASE Accepts(t) /\ i # tx[t].at
    <2>1. tx[t].at \in 1..Len(edits(t)) /\ tx[t].pc \in OnAnEdit /\ tx[t].pc \in {"apply", "obtain_lock"}
        BY ZenonT(60), <1>1, <1>7 DEF Accepts, Cursors, Cursor, OnAnEdit
    <2>2. i < tx[t].at
        BY SMTT(60), <1>1, <1>7, <2>1 DEF Accepts, Seen
    <2>3. edits(t)'[i].expected = edits(t)[i].expected
        BY SMTT(60), <1>1, <1>7, <2>1, AppliedTypes DEF Accepts, edits
    <2>4. locks'[n] = locks[n]
        BY ZenonT(60), <1>1, <1>2, <1>7, <2>1 DEF Accepts, Types
    <2> QED
        BY Zenon, <2>1, <2>2, <2>3, <2>4 DEF Seen, n
<1>8. CASE Logs(t) /\ Moved(t, "commit_ref", tx[t].at)
    BY Zenon, <1>8 DEF Logs, Moved, Seen, SameLocks, edits, n
<1>9. CASE Logs(t) /\ \E pc, k : ToFirst(t, tx[t].at + 1, pc, k) /\ Moved(t, pc, k)
    <2>1. PICK pc, k : ToFirst(t, tx[t].at + 1, pc, k) /\ Moved(t, pc, k)
        BY Zenon, <1>9
    <2>2. pc = "reflog" /\ k >= tx[t].at + 1 /\ k \in Updates(t) /\ tx[t].at \in 1..Len(edits(t)) /\ tx[t].pc = "reflog"
        BY ZenonT(60), <1>1, <1>9, <2>1 DEF ToFirst, ToSecond, ToThird, FirstFrom, Moved, Seen, Logs,
           Cursors, Cursor, OnAnEdit
    <2>3. i >= tx[t].at
        BY SMTT(60), <1>1, <2>1, <2>2 DEF Moved, Seen, Updates
    <2> QED
        BY Zenon, <1>9, <2>1, <2>2, <2>3 DEF Logs, Moved, Seen, SameLocks, edits, n
<1>10. CASE Writes(t)
    <2>1. PICK pc, k : ToFirst(t, tx[t].at + 1, pc, k) /\ Moved(t, pc, k)
        BY Zenon, <1>10 DEF Writes
    <2>2. tx[t].at \in 1..Len(edits(t)) /\ tx[t].pc \in OnAnEdit /\ tx[t].pc = "commit_ref"
        BY Zenon, <1>1, <1>10 DEF Writes, Cursors, Cursor, OnAnEdit
    <2>3. pc = "reflog" /\ k >= tx[t].at + 1 /\ k \in Updates(t)
        BY Zenon, <2>1 DEF ToFirst, ToSecond, ToThird, FirstFrom, Moved, Seen
    <2>4. i > tx[t].at
        BY SMTT(60), <1>1, <2>1, <2>2, <2>3 DEF Moved, Seen, Updates
    <2>5. locks'[n] = locks[n]
        <3>1. name(t) # n
            BY SMTT(60), <1>1, <1>2, <2>2, <2>4
        <3> QED
            BY Zenon, <1>1, <1>10, <3>1 DEF Writes, Types
    <2> QED
        BY SMTT(60), <1>1, <2>1, <2>2, <2>4, <2>5 DEF Moved, Seen, edits, n
<1>11. CASE Unlogs(t) \/ WritesPacked(t) \/ UnlocksPacked(t) \/ Drops(t) \/ Deletes(t)
    <2>1. PICK pc, k : /\ Moved(t, pc, k)
                       /\ \/ pc \in {"drop_lock", "packed_unlock"}
                          \/ \E j : ToSecond(t, j, pc, k) \/ ToThird(t, j, pc, k)
        BY Zenon, <1>11 DEF Unlogs, WritesPacked, UnlocksPacked, Drops, Deletes
    <2>2. pc \in {"delete_reflog", "packed_commit", "packed_unlock", "delete_ref", "drop_lock", "finish"}
        BY Zenon, <2>1 DEF ToSecond, ToThird
    <2> QED
        BY Zenon, <2>1, <2>2 DEF Moved, Seen
<1> QED
    BY ZenonT(60), <1>3, <1>4, <1>5, <1>6, <1>7, <1>8, <1>9, <1>10, <1>11 DEF Effect, Logs, n

LEMMA UnlockedStep ==
  ASSUME LocksInv, NEW t \in Tx, Unlocked(t), Others(t), Effect(t)
  PROVE  Unlocked(t)'
<1>1. /\ Types /\ Cursors /\ \A i \in 1..Len(edits(t)) : edits(t)[i].name \in Name
      /\ Len(edits(t)) \in Nat
    <2>1. Types /\ Cursors /\ edits(t) \in Seq(WellFormed)
        BY Zenon DEF LocksInv, Types, TxState, edits
    <2> QED
        BY <2>1, EditNames
<1>2. CASE Begins(t) \/ Splits(t)
    BY Zenon, <1>2 DEF Begins, Splits, SameLocks, Unlocked, Early
<1>3. CASE \E pc, i : Goes(t, pc, i) /\ tx[t].pc # "prepared"
    <2>1. PICK pc, i : Goes(t, pc, i) /\ tx[t].pc # "prepared"
        BY Zenon, <1>3
    <2>2. locks' = locks /\ tx'[t].edits = tx[t].edits
        BY Zenon, <2>1 DEF Goes, Moved, SameLocks
    <2>3. CASE tx[t].pc \in {"pre_process"} \union Early
        <3>1. \A n \in Name : locks[n] # t
            BY Zenon, <2>3 DEF Unlocked
        <3>2. tx'[t].pc \in {"is_file", "packed_choice", "lock_is_file", "read", "packed_lock", "packed_read_first"}
            BY Zenon, <2>1, <2>3 DEF Goes, Moved, Early
        <3> QED
            BY Zenon, <1>1, <2>2, <3>1, <3>2 DEF Unlocked, Early, edits
    <2>4. CASE tx'[t].pc = "obtain_lock"
        <3>1. /\ tx[t].pc = "apply" /\ tx'[t].at = tx[t].at /\ tx[t].packed_tx /\ tx'[t].existing = tx[t].existing
              /\ MayUpdate(edit(t).expected, tx[t].existing, edit(t).new)
              /\ MustWrite(tx[t].existing, edit(t).new, direct_to_packed_refs(t))
              /\ tx'[t].packed_refs = tx[t].packed_refs
            BY Zenon, <2>1, <2>4 DEF Goes, Moved
        <3>2. edit(t)' = edit(t) /\ edits(t)' = edits(t) /\ direct_to_packed_refs(t)' = direct_to_packed_refs(t)
            BY Zenon, <2>2, <3>1 DEF edit, edits, direct_to_packed_refs
        <3> QED
            BY Zenon, <2>2, <2>4, <3>1, <3>2 DEF Unlocked, Early
    <2>5. CASE tx'[t].pc = "spins"
        BY Zenon, <2>5 DEF Unlocked, Early
    <2> QED
        BY Zenon, <2>1, <2>3, <2>4, <2>5 DEF Goes, Moved, Early
<1>4. CASE TakesPacked(t) \/ ReadsPacked(t)
    <2>1. /\ locks' = locks /\ tx'[t].edits = tx[t].edits /\ tx[t].pc \in Early
          /\ tx'[t].pc \in Early \union {"read"}
        BY Zenon, <1>4 DEF TakesPacked, ReadsPacked, SameLocks, Early
    <2>2. \A n \in Name : locks[n] # t
        BY Zenon, <2>1 DEF Unlocked
    <2> QED
        BY Zenon, <1>1, <2>1, <2>2 DEF Unlocked, Early, edits
<1>5. CASE Reads(t)
    <2>1. /\ locks' = locks /\ edits(t)' = edits(t) /\ tx[t].pc = "read" /\ tx'[t].at = tx[t].at
          /\ tx'[t].packed_tx = tx[t].packed_tx /\ tx'[t].pc = IF tx[t].packed_tx THEN "apply" ELSE "lock"
        BY Zenon, <1>5 DEF Reads, SameLocks, edits
    <2> QED
        BY Zenon, <2>1 DEF Unlocked, Early
<1>6. CASE Takes(t)
    <2>1. /\ edits(t)' = edits(t) /\ tx[t].pc = "lock" /\ tx'[t].at = tx[t].at /\ tx'[t].pc = "apply"
          /\ tx'[t].packed_tx = tx[t].packed_tx /\ ~tx[t].packed_tx /\ tx[t].pc \in OnAnEdit
        BY Zenon, <1>6 DEF Takes, Moved, edits, Unlocked, OnAnEdit
    <2>2. ASSUME NEW i \in 1..Len(edits(t)), i > tx[t].at PROVE locks'[edits(t)[i].name] # t
        <3>1. locks[edits(t)[i].name] # t
            BY Zenon, <2>1, <2>2 DEF Unlocked
        <3>2. edits(t)[i].name # name(t)
            BY SMTT(60), <1>1, <2>1, <2>2, OtherName DEF Cursors, Cursor
        <3> QED
            BY Zenon, <1>1, <1>6, <3>1, <3>2 DEF Takes, Types
    <2> QED
        BY Zenon, <2>1, <2>2 DEF Unlocked, Early
<1>7. CASE Accepts(t)
    <2>1. /\ Len(edits(t)') = Len(edits(t)) /\ tx[t].pc \in {"apply", "obtain_lock"} /\ tx[t].pc \in OnAnEdit
          /\ tx[t].at \in 1..Len(edits(t)) /\ \A i \in 1..Len(edits(t)) : edits(t)'[i].name = edits(t)[i].name
        <3>1. tx[t].at \in 1..Len(edits(t)) /\ tx[t].pc \in {"apply", "obtain_lock"} /\ tx[t].pc \in OnAnEdit
            BY Zenon, <1>1, <1>7 DEF Accepts, Cursors, Cursor, OnAnEdit
        <3> QED
            BY SMTT(60), <1>1, <1>7, <3>1, AppliedTypes DEF Accepts, edits
    <2>2. ASSUME NEW i \in 1..Len(edits(t)), i > tx[t].at PROVE locks'[edits(t)[i].name] # t
        <3>1. locks[edits(t)[i].name] # t
            BY ZenonT(60), <2>1, <2>2 DEF Unlocked
        <3>2. edits(t)[i].name # name(t)
            BY SMTT(60), <1>1, <2>1, <2>2, OtherName
        <3> QED
            BY ZenonT(60), <1>1, <1>7, <3>1, <3>2 DEF Accepts, Types
    <2>3. tx'[t].pc = "prepared" \/ (tx'[t].pc = "read" /\ tx'[t].at = tx[t].at + 1)
        BY Zenon, <1>7 DEF Accepts
    <2> QED
        BY SMTT(60), <1>1, <2>1, <2>2, <2>3 DEF Unlocked, Early
<1>8. ASSUME \/ Ends(t) \/ (\E pc, i : Goes(t, pc, i) /\ tx[t].pc = "prepared")
             \/ Logs(t) \/ Writes(t) \/ Unlogs(t) \/ WritesPacked(t) \/ UnlocksPacked(t) \/ Drops(t) \/ Deletes(t)
      PROVE  Unlocked(t)'
    <2>1. Ends(t) \/ \E pc, k : /\ Moved(t, pc, k)
                                /\ \/ pc \in {"commit_ref", "packed_unlock", "drop_lock"}
                                   \/ \E i : ToFirst(t, i, pc, k) \/ ToSecond(t, i, pc, k) \/ ToThird(t, i, pc, k)
        BY Zenon, <1>8 DEF Goes, Logs, Writes, Unlogs, WritesPacked, UnlocksPacked, Drops, Deletes
    <2>2. tx'[t].pc \in Ended \union {"reflog", "commit_ref", "delete_reflog", "packed_commit", "packed_unlock"} \union Late
        BY Zenon, <2>1, PassPlaces DEF Ends, Moved, Late
    <2> QED
        BY Zenon, <2>2 DEF Unlocked, Early, Ended, Late
<1> QED
    BY ZenonT(60), <1>2, <1>3, <1>4, <1>5, <1>6, <1>7, <1>8 DEF Effect

LEMMA UnlockedFrame ==
  ASSUME LocksInv, NEW t \in Tx, Others(t), Effect(t), NEW u \in Tx, u # t, Unlocked(u)
  PROVE  Unlocked(u)'
<1>1. Types /\ Cursors /\ tx'[u] = tx[u]
    BY Zenon DEF LocksInv, Others
<1>2. edits(u)' = edits(u) /\ edit(u)' = edit(u) /\ direct_to_packed_refs(u)' = direct_to_packed_refs(u)
    BY Zenon, <1>1 DEF edits, edit, direct_to_packed_refs
<1>3. \A n \in Name : locks[n] # u => locks'[n] # u
    BY Zenon, <1>1, LockStep, RefTransactionAssumption DEF OwnLocks, RefTransactionAssumption
<1> QED
    BY Zenon, <1>1, <1>2, <1>3, EditNames DEF Unlocked

----------------------------------------------------------------------------
(* Comparisons *)

LEMMA DiffersStep ==
  ASSUME LocksInv, NEW t \in Tx, Unlocked(t), Differs(t), Others(t), Effect(t)
  PROVE  Differs(t)'
<1>1. /\ Types /\ Cursors /\ \A i \in 1..Len(edits(t)) : edits(t)[i].name \in Name
    BY Zenon, EditNames DEF LocksInv
<1>2. CASE Begins(t) \/ Splits(t) \/ Ends(t)
    BY Zenon, <1>2 DEF Begins, Splits, Ends, Ended, Differs, Seen
<1>3. CASE Carries(t) /\ ~Begins(t) /\ ~Splits(t) /\ ~Ends(t)
    <2> SUFFICES ASSUME NEW i \in 1..Len(edits(t)), Seen(t, i)', edits(t)[i].change = "Update",
                        IsObject(edits(t)[i].new), locks'[edits(t)[i].name] = t, IsCurrent(edits(t)'[i])
                 PROVE  FALSE
        BY Zenon, <1>3 DEF Differs, Carries, IsCurrent
    <2>1. edits(t)'[i].new = edits(t)[i].new
        BY Zenon, <1>3 DEF Carries
    <2>2. CASE Seen(t, i) /\ edits(t)'[i].expected = edits(t)[i].expected
                 /\ locks'[edits(t)[i].name] = locks[edits(t)[i].name]
        BY Zenon, <2>1, <2>2 DEF Differs, IsCurrent
    <2>3. CASE Accepts(t) /\ i = tx[t].at
        <3>1. /\ tx[t].pc \in {"apply", "obtain_lock"} /\ name(t) = edits(t)[i].name /\ edit(t) = edits(t)[i]
              /\ edit(t) \in WellFormed /\ edit(t).change = "Update" /\ name(t) \in Name
            BY Zenon, <1>1, <2>3, NameOfEdit DEF Accepts, name, edit, OnAnEdit
        <3>2. edits(t)'[i].expected = IF tx[t].existing # None THEN Expect("MustExistAndMatch", tx[t].existing)
                                       ELSE edit(t).expected
            <4>1. Applied(t)[i].expected = IF tx[t].existing # None THEN Expect("MustExistAndMatch", tx[t].existing)
                                             ELSE edit(t).expected
                BY Zenon, <1>1, <2>3, <3>1, AppliedTypes
            <4> QED
                BY Zenon, <2>3, <4>1 DEF Accepts, edits
        <3>3. MustWrite(tx[t].existing, edit(t).new, direct_to_packed_refs(t))
            <4>1. CASE tx[t].pc = "obtain_lock"
                BY Zenon, <4>1 DEF Unlocked
            <4>2. CASE tx[t].pc = "apply" /\ tx[t].packed_tx
                <5>1. locks[name(t)] # t
                    BY Zenon, <2>3, <3>1, <4>2 DEF Unlocked
                <5> QED
                    BY ZenonT(60), <2>3, <3>1, <4>2, <5>1 DEF Accepts
            <4>3. CASE tx[t].pc = "apply" /\ ~tx[t].packed_tx
                <5>1. locks' # [locks EXCEPT ![name(t)] = NoTx]
                    BY ZenonT(60), <1>1, <3>1, RefTransactionAssumption DEF Types, RefTransactionAssumption
                <5> QED
                    BY ZenonT(60), <2>3, <3>1, <4>3, <5>1 DEF Accepts
            <4> QED
                BY Zenon, <3>1, <4>1, <4>2, <4>3
        <3>4. tx[t].existing # edit(t).new
            BY Zenon, <3>1, <3>3, RefTransactionAssumption DEF MustWrite, IsSymbolic, IsObject,
               RefTransactionAssumption
        <3>5. MayUpdate(edit(t).expected, tx[t].existing, edit(t).new)
            BY Zenon, <2>3, <3>1 DEF Accepts, Unlocked
        <3>6. CASE tx[t].existing # None
            BY SMTT(60), <2>1, <3>1, <3>2, <3>4, <3>6 DEF IsCurrent, Expect
        <3>7. CASE tx[t].existing = None
            BY ZenonT(60), <2>1, <3>1, <3>2, <3>4, <3>5, <3>7 DEF IsCurrent, MayUpdate, MayDelete
        <3> QED
            BY Zenon, <3>6, <3>7
    <2> QED
        BY Zenon, <1>3, <2>2, <2>3, SeenBefore
<1> QED
    BY Zenon, <1>1, <1>2, <1>3, EffectCarries

\* Another transaction does not gain locks.
LEMMA NotGained ==
  ASSUME LocksInv, NEW t \in Tx, Effect(t), NEW u \in Tx, u # t, NEW n \in Name
  PROVE  locks'[n] = u <=> locks[n] = u
<1>1. OwnLocks(t) /\ Kept(t)
    BY Zenon, LockStep, KeptStep DEF LocksInv
<1> QED
    BY <1>1, RefTransactionAssumption DEF OwnLocks, Kept, RefTransactionAssumption

LEMMA DiffersFrame ==
  ASSUME LocksInv, NEW t \in Tx, Others(t), Effect(t), NEW u \in Tx, u # t, Differs(u)
  PROVE  Differs(u)'
<1>1. tx'[u] = tx[u] /\ edits(u)' = edits(u) /\ \A i \in 1..Len(edits(u)) : Seen(u, i)' <=> Seen(u, i)
    BY Zenon DEF Others, edits, Seen
<1>2. \A i \in 1..Len(edits(u)) : edits(u)[i].name \in Name
    BY Zenon, EditNames DEF LocksInv
<1> QED
    <2>1. \A i \in 1..Len(edits(u)) : locks'[edits(u)[i].name] = u <=> locks[edits(u)[i].name] = u
        BY Zenon, <1>2, NotGained
    <2> QED
        BY Zenon, <1>1, <2>1 DEF Differs

----------------------------------------------------------------------------
(* Reflogs *)

\* Reflogs change when they are appended to and when they are deleted.
LEMMA LogChanges ==
  ASSUME NEW t \in Tx, Effect(t), ~Logs(t), ~Unlogs(t)
  PROVE  reflog' = reflog
BY Zenon DEF Effect, Begins, Splits, Ends, Goes, TakesPacked, ReadsPacked, Reads, Takes, Accepts, Writes,
   WritesPacked, UnlocksPacked, Deletes, Drops, Store

LEMMA Appended ==
  ASSUME NEW S, NEW s \in Seq(S), NEW v
  PROVE  /\ Len(s \o <<v>>) = Len(s) + 1 /\ (s \o <<v>>)[Len(s) + 1] = v
         /\ \A k \in 1..Len(s) : (s \o <<v>>)[k] = s[k]
BY SMTT(20)

\* Appending an entry keeps the others.
LEMMA LogGrows ==
  ASSUME Types, Cursors, NEW t \in Tx, Logs(t), NEW n, n = name(t)
  PROVE  /\ n \in Name
         /\ \A m \in Name : m # n => reflog'[m] = reflog[m]
         /\ log_update(edit(t)) = <<>> => reflog' = reflog
         /\ \A v : InLog(n, v) => InLog(n, v)'
         /\ \A d, v : log_update(edit(t)) = <<d>> /\ d.new = v /\ n \in AutoLog => InLog(n, v)'
<1> DEFINE entries == log_update(edit(t))
           s == IF reflog[n] = None THEN <<>> ELSE reflog[n]
<1>1. n \in Name /\ entries \in Seq(LogEntry)
    BY Zenon, LogEntries
<1>2. s \in Seq(LogEntry) /\ DOMAIN reflog = Name
    BY <1>1 DEF Types
<1>3. \/ reflog' = reflog /\ (entries = <<>> \/ (reflog[n] = None /\ n \notin AutoLog))
      \/ reflog' = [reflog EXCEPT ![n] = s \o entries] /\ entries # <<>>
    BY Zenon DEF Logs, reflog_create_or_append
<1>4. entries = <<>> \/ \E d : entries = <<d>>
    BY Zenon DEF log_update
<1> HIDE DEF entries, s
<1>5. CASE reflog' = reflog /\ (entries = <<>> \/ (reflog[n] = None /\ n \notin AutoLog))
    <2>1. \A d : InLog(n, d) => InLog(n, d)'
        BY Zenon, <1>5 DEF InLog
    <2>2. \A d : n \in AutoLog => entries # <<d>>
        BY <1>5
    <2> QED
        BY ZenonT(60), <1>1, <1>5, <2>1, <2>2 DEF entries
<1>6. ASSUME NEW d, entries = <<d>>, reflog' = [reflog EXCEPT ![n] = s \o entries]
      PROVE  /\ \A v : InLog(n, v) => InLog(n, v)'
             /\ InLog(n, d.new)'
    <2>1. reflog'[n] = s \o <<d>> /\ s \o <<d>> \in Seq(LogEntry)
        BY <1>1, <1>2, <1>6
    <2>2. /\ Len(reflog'[n]) = Len(s) + 1 /\ reflog'[n][Len(s) + 1] = d
          /\ \A k \in 1..Len(s) : reflog'[n][k] = s[k]
        BY <1>2, <2>1, Appended
    <2>3. reflog'[n] # None
        BY Zenon, <2>1, RefTransactionAssumption DEF RefTransactionAssumption
    <2>4. Len(s) \in Nat
        BY <1>2
    <2>5. ASSUME NEW v, InLog(n, v) PROVE InLog(n, v)'
        <3>1. s = reflog[n]
            BY Zenon, <2>5 DEF InLog, s
        <3> QED
            BY <2>2, <2>3, <2>4, <2>5, <3>1 DEF InLog
    <2>6. InLog(n, d.new)'
        <3>1. Len(s) + 1 \in 1..Len(reflog'[n])
            BY <2>2, <2>4
        <3> QED
            BY Zenon, <2>2, <2>3, <3>1 DEF InLog
    <2> QED
        BY Zenon, <2>5, <2>6
<1>7. CASE reflog' = [reflog EXCEPT ![n] = s \o entries] /\ entries # <<>>
    <2>1. PICK d : entries = <<d>>
        BY Zenon, <1>4, <1>7
    <2>2. \A c : entries = <<c>> => c = d
        BY Zenon, <2>1
    <2>3. (\A v : InLog(n, v) => InLog(n, v)') /\ InLog(n, d.new)'
        BY Zenon, <1>6, <1>7, <2>1
    <2> QED
        BY ZenonT(60), <1>1, <1>2, <1>7, <2>1, <2>2, <2>3 DEF entries
<1> QED
    BY Zenon, <1>3, <1>5, <1>7

\* Nothing is dropped from the reflog of a reference that nobody deletes.
LEMMA LogKept ==
  ASSUME LocksInv, NEW t \in Tx, Effect(t), NEW n \in Name, NeverDeleted(n), NEW v, InLog(n, v)
  PROVE  InLog(n, v)'
<1>1. CASE Logs(t)
    BY ZenonT(60), <1>1, LogGrows DEF LocksInv, InLog
<1>2. CASE Unlogs(t)
    <2>1. tx[t].pc = "delete_reflog" /\ name(t) \in Name /\ tx[t].at \in Deletions(t)
        BY Zenon, <1>2, NameOfEdit DEF Unlogs, OnAnEdit, LocksInv, Cursors, Cursor
    <2>2. name(t) \in Names(t, "Delete")
        BY Zenon, <2>1 DEF Deletions, Names, name, edit
    <2>3. n # name(t)
        BY Zenon, <2>2 DEF NeverDeleted
    <2> QED
        BY Zenon, <1>2, <2>1, <2>3 DEF Unlogs, InLog, LocksInv, Types
<1> QED
    BY Zenon, <1>1, <1>2, LogChanges DEF InLog

LEMMA NeverDeletedBefore ==
  ASSUME LocksInv, NEW t \in Tx, Others(t), Effect(t), NEW n, NeverDeleted(n)'
  PROVE  NeverDeleted(n)
BY Zenon, NamesGrow DEF NeverDeleted, LocksInv

\* commit_ref is reached from the reflog of the same edit.
LEMMA ToCommitRef ==
  ASSUME NEW t \in Tx, Effect(t), tx'[t].pc = "commit_ref"
  PROVE  Logs(t) /\ Moved(t, "commit_ref", tx[t].at)
<1>1. CASE Logs(t) /\ Moved(t, "commit_ref", tx[t].at)
    BY Zenon, <1>1
<1>2. CASE Begins(t) \/ Splits(t) \/ Ends(t) \/ TakesPacked(t) \/ ReadsPacked(t) \/ Reads(t) \/ Takes(t)
             \/ Accepts(t) \/ Deletes(t)
    BY Zenon, <1>2 DEF Begins, Splits, Ends, Ended, TakesPacked, ReadsPacked, Reads, Takes, Accepts,
       Deletes, Moved
<1>3. CASE \E pc, i : Goes(t, pc, i) /\ tx[t].pc # "prepared"
    BY ZenonT(60), <1>3 DEF Goes, Moved
<1>4. ASSUME \/ \E pc, i : Goes(t, pc, i) /\ tx[t].pc = "prepared"
             \/ Logs(t) /\ ~Moved(t, "commit_ref", tx[t].at)
             \/ Writes(t) \/ Unlogs(t) \/ WritesPacked(t) \/ UnlocksPacked(t) \/ Drops(t)
      PROVE  FALSE
    <2>1. \E pc, k : /\ Moved(t, pc, k)
                     /\ \/ pc = "packed_unlock"
                        \/ \E i : ToFirst(t, i, pc, k) \/ ToSecond(t, i, pc, k) \/ ToThird(t, i, pc, k)
        BY ZenonT(60), <1>4 DEF Goes, Logs, Writes, Unlogs, WritesPacked, UnlocksPacked, Drops
    <2> QED
        BY SMTT(60), <2>1, PassPlaces DEF Moved, Late
<1> QED
    BY Zenon, <1>1, <1>2, <1>3, <1>4 DEF Effect

LEMMA LoggedStep ==
  ASSUME LocksInv, NEW t \in Tx, Chain(t), Differs(t), Others(t), Effect(t)
  PROVE  Logged(t)'
<1> SUFFICES ASSUME tx'[t].pc = "commit_ref", edit(t)'.log = "AndReference", IsObject(edit(t)'.new),
                    locks'[name(t)'] = t, name(t)' \in AutoLog
             PROVE  InLog(name(t), edit(t).new)'
    BY Zenon DEF Logged, IsObject
<1> DEFINE n == name(t)
           v == edit(t).new
<1>1. Logs(t) /\ Moved(t, "commit_ref", tx[t].at) /\ Types /\ Cursors
    BY ZenonT(60), ToCommitRef DEF LocksInv
<1>2. /\ name(t)' = name(t) /\ edit(t)' = edit(t) /\ locks' = locks
      /\ tx[t].pc = "reflog" /\ tx[t].at \in 1..Len(edits(t)) /\ edit(t) = edits(t)[tx[t].at] /\ tx[t].at \in Nat
    BY ZenonT(60), <1>1, NameOfEdit DEF Logs, Moved, SameLocks, name, edit, edits, OnAnEdit, Types, TxState
<1>3. edit(t) \in WellFormed /\ edit(t).change = "Update"
    BY ZenonT(60), <1>1, LogEntries
<1>4. ~IsCurrent(edit(t)) /\ edit(t).leaf_referent_previous_oid = None
    <2>1. Seen(t, tx[t].at)
        BY SMTT(60), <1>2 DEF Seen
    <2> QED
        <3>1. edit(t).leaf_referent_previous_oid = None
            BY <1>2 DEF Chain
        <3>2. ~IsCurrent(edit(t))
            BY ZenonT(60), <1>2, <1>3, <2>1 DEF Differs, name
        <3> QED
            BY ZenonT(60), <3>1, <3>2
<1>5. ~IsSymbolic(edit(t).new) /\ edit(t).new # None
    BY ZenonT(60), <1>2, RefTransactionAssumption DEF IsSymbolic, IsObject, Target, RefTransactionAssumption
<1>6. \E d : log_update(edit(t)) = <<d>> /\ d.new = edit(t).new
    BY SMTT(60), <1>4, <1>5 DEF log_update, IsCurrent
<1>7. ASSUME NEW m, m = name(t), NEW w, w = edit(t).new PROVE InLog(m, w)'
    BY ZenonT(60), <1>1, <1>2, <1>6, <1>7, LogGrows
<1> QED
    BY SMTT(60), <1>2, <1>7 DEF InLog

LEMMA LoggedFrame ==
  ASSUME LocksInv, NEW t \in Tx, Others(t), Effect(t), NEW u \in Tx, u # t, Logged(u)
  PROVE  Logged(u)'
<1> SUFFICES ASSUME Logged(u)!1' PROVE InLog(name(u), edit(u).new)'
    BY Zenon DEF Logged
<1>1. tx'[u] = tx[u] /\ edit(u)' = edit(u) /\ name(u)' = name(u)
    BY Zenon DEF Others, name, edit, edits
<1>2. name(u) \in Name /\ NeverDeleted(name(u))
    <2>1. name(u) \in Name
        BY ZenonT(60), <1>1, NameOfEdit DEF LocksInv, OnAnEdit
    <2>2. ASSUME NEW n, NeverDeleted(n)' PROVE NeverDeleted(n)
        BY ZenonT(60), <2>2, NeverDeletedBefore
    <2> QED
        BY ZenonT(60), <1>1, <2>1, <2>2 DEF NeverDeleted
<1>3. locks[name(u)] = u
    BY ZenonT(60), <1>1, <1>2, NotGained
<1>4. InLog(name(u), edit(u).new)
    BY ZenonT(60), <1>1, <1>2, <1>3 DEF Logged
<1>5. ASSUME NEW m, m = name(u), NEW w, w = edit(u).new PROVE InLog(m, w)'
    BY ZenonT(60), <1>2, <1>4, <1>5, LogKept
<1> QED
    BY SMTT(60), <1>1, <1>5 DEF InLog

LEMMA LogBeforeRefStep ==
  ASSUME LocksInv, LogBeforeRef, NEW t \in Tx, Logged(t), Others(t), Effect(t), given' = given
  PROVE  LogBeforeRef'
<1> SUFFICES ASSUME NEW n \in AutoLog, IsObject(loose'[n]), loose'[n] # given.loose[n], NeverDeleted(n)'
             PROVE  InLog(n, loose[n])'
    BY Zenon DEF LogBeforeRef, InLog, IsObject
<1>1. n \in Name /\ NeverDeleted(n)
    BY ZenonT(60), NeverDeletedBefore, RefTransactionAssumption DEF RefTransactionAssumption
<1>2. InLog(n, loose'[n])
    <2>1. CASE loose'[n] = loose[n]
        BY Zenon, <2>1, <1>1 DEF LogBeforeRef, InLog
    <2>2. CASE Writes(t) /\ loose'[n] # loose[n]
        <3>1. tx[t].pc = "commit_ref" /\ name(t) \in Name /\ edit(t) \in WellFormed
            BY ZenonT(60), <2>2, NameOfEdit DEF Writes, OnAnEdit, LocksInv
        <3>2. n = name(t) /\ locks[n] = t /\ edit(t).log # "Only" /\ loose'[n] = edit(t).new
            BY ZenonT(60), <1>1, <2>2, <3>1 DEF Writes, LocksInv, Types
        <3>3. edit(t).log = "AndReference"
            BY ZenonT(60), <3>1, <3>2 DEF WellFormed, Edit
        <3> QED
            BY ZenonT(60), <1>1, <3>1, <3>2, <3>3 DEF Logged
    <2>3. CASE Deletes(t) /\ loose'[n] # loose[n]
        BY ZenonT(60), <1>1, <2>3, RefTransactionAssumption DEF Deletes, LocksInv, Types, IsObject,
           RefTransactionAssumption, Target
    <2> QED
        BY ZenonT(60), <2>1, <2>2, <2>3 DEF Effect, Begins, Splits, Ends, Goes, TakesPacked, ReadsPacked,
           Reads, Takes, Accepts, Logs, Unlogs, WritesPacked, UnlocksPacked, Drops, Store
<1>3. ASSUME NEW v, v = loose'[n] PROVE InLog(n, v)'
    BY ZenonT(60), <1>1, <1>2, <1>3, LogKept
<1> QED
    BY Zenon, <1>3 DEF InLog

LEMMA SplitAtKept ==
  ASSUME LocksInv, NEW t \in Tx, Others(t), Effect(t), NEW u \in Tx, NEW n, SplitAt(u, n)
  PROVE  SplitAt(u, n)'
<1>1. CASE edits(u)' = edits(u)
    BY ZenonT(60), <1>1 DEF SplitAt
<1>2. CASE u = t /\ Begins(t)
    BY SMTT(60), <1>2 DEF Begins, LocksInv, Cursors, Cursor, SplitAt
<1>3. CASE u = t /\ Splits(t) /\ edits(t)' = [edits(t) EXCEPT ![tx[t].at] = [edits(t)[tx[t].at] EXCEPT !.deref = FALSE]]
    <2> DEFINE es == edits(t)
               i  == tx[t].at
               e  == [es[i] EXCEPT !.deref = FALSE]
    <2>1. i \in 1..Len(es) /\ es \in Seq(WellFormed)
        BY ZenonT(60), <1>3 DEF Splits, LocksInv, Types, TxState, edits
    <2>2. es[i] \in WellFormed
        BY <2>1
    <2>3. e.log = es[i].log /\ e.name = es[i].name
        BY ZenonT(60), <2>2 DEF WellFormed, Edit
    <2> HIDE DEF e
    <2>4. Len(edits(t)') = Len(es) /\ \A j \in 1..Len(es) : edits(t)'[j] = IF j = i THEN e ELSE es[j]
        BY SMTT(60), <1>3, <2>1 DEF e
    <2>5. \A j \in 1..Len(es) : edits(t)'[j].log = es[j].log /\ edits(t)'[j].name = es[j].name
        BY ZenonT(60), <2>3, <2>4
    <2> QED
        BY ZenonT(60), <1>3, <2>4, <2>5 DEF SplitAt
<1>4. CASE u = t /\ Splits(t) /\ loose[name(t)] \in Name /\ edits(t)' = Split(edits(t), tx[t].at, loose[name(t)])
    <2>1. edits(t) \in Seq(WellFormed) /\ tx[t].at \in 1..Len(edits(t)) /\ Len(edits(t)) \in Nat
        BY SMTT(60), <1>4 DEF Splits, LocksInv, Types, TxState, edits
    <2>2. /\ Len(edits(t)') = Len(edits(t)) + 1
          /\ \A j \in 1..Len(edits(t)) :
               /\ edits(t)'[j].name = edits(t)[j].name
               /\ edits(t)'[j].log = IF j = tx[t].at THEN "Only" ELSE edits(t)[j].log
        BY SMTT(60), <1>4, <2>1, SplitKinds
    <2> QED
        BY SMTT(60), <1>4, <2>1, <2>2 DEF SplitAt
<1>5. CASE u = t /\ Accepts(t)
    <2>1. Carries(t)
        BY ZenonT(60), <1>5, EffectCarries DEF LocksInv, Accepts, Begins, Splits, Ends, Ended
    <2> QED
        BY ZenonT(60), <1>5, <2>1 DEF Carries, SplitAt
<1>6. CASE u # t
    BY ZenonT(60), <1>1, <1>6 DEF Others, edits
<1>7. CASE u = t /\ tx'[t].edits = tx[t].edits
    BY ZenonT(60), <1>1, <1>7 DEF edits
<1> QED
    BY ZenonT(60), <1>2, <1>3, <1>4, <1>5, <1>6, <1>7, EffectEdits

----------------------------------------------------------------------------
(* Without packed-refs *)

LEMMA SkippedStep ==
  ASSUME LocksInv, PackedRefsUnused, NEW t \in Tx, Skipped(t), Others(t), Effect(t)
  PROVE  Skipped(t)'
<1>1. Types /\ Cursors /\ AllHeld /\ PlainTx(t)
    BY ZenonT(60) DEF LocksInv, Plain
<1>2. CASE Begins(t) \/ Splits(t) \/ Ends(t)
    BY ZenonT(60), <1>2 DEF Begins, Splits, Ends, Ended, Skipped, Seen
<1>3. CASE Carries(t) /\ ~Begins(t) /\ ~Splits(t) /\ ~Ends(t)
    <2> SUFFICES ASSUME NEW i \in 1..Len(edits(t)), Seen(t, i)', edits(t)[i].change = "Update",
                        locks'[edits(t)[i].name] # t
                 PROVE  IsObject(edits(t)[i].new) /\ IsCurrent(edits(t)'[i])
        BY ZenonT(60), <1>3 DEF Skipped, Carries, IsCurrent
    <2>1. edits(t)'[i].new = edits(t)[i].new
        BY Zenon, <1>3 DEF Carries
    <2>2. CASE Seen(t, i) /\ edits(t)'[i].expected = edits(t)[i].expected
                 /\ locks'[edits(t)[i].name] = locks[edits(t)[i].name]
        BY ZenonT(60), <2>1, <2>2 DEF Skipped, IsCurrent
    <2>3. CASE Accepts(t) /\ i = tx[t].at
        <3>1. /\ tx[t].pc \in {"apply", "obtain_lock"} /\ name(t) = edits(t)[i].name /\ edit(t) = edits(t)[i]
              /\ edit(t) \in WellFormed /\ edit(t).change = "Update" /\ name(t) \in Name
            BY ZenonT(60), <1>1, <2>3, NameOfEdit DEF Accepts, name, edit, OnAnEdit
        <3>2. tx[t].pc = "apply" /\ ~tx[t].packed_tx /\ ~direct_to_packed_refs(t) /\ locks[name(t)] = t
            BY ZenonT(60), <1>1, <3>1 DEF PlainTx, OnPackedRefs, AllHeld, Held, direct_to_packed_refs
        <3>3. ~MustWrite(tx[t].existing, edit(t).new, direct_to_packed_refs(t))
            BY ZenonT(60), <2>3, <3>1, <3>2 DEF Accepts
        <3>4. tx[t].existing = edit(t).new /\ edit(t).new \in Oid
            <4>1. edit(t).new \in Target
                BY Zenon, <3>1 DEF WellFormed, Edit
            <4> QED
                BY ZenonT(60), <3>2, <3>3, <4>1 DEF MustWrite, IsSymbolic, Target
        <3>5. tx[t].existing # None
            BY ZenonT(60), <3>4, RefTransactionAssumption DEF Target, RefTransactionAssumption
        <3>6. edits(t)'[i].expected = Expect("MustExistAndMatch", tx[t].existing)
            <4>1. Applied(t)[i].expected = Expect("MustExistAndMatch", tx[t].existing)
                BY ZenonT(60), <1>1, <2>3, <3>5, AppliedTypes
            <4> QED
                BY ZenonT(60), <2>3, <4>1 DEF Accepts, edits
        <3> QED
            BY SMTT(60), <2>1, <3>1, <3>4, <3>6 DEF IsObject, IsCurrent, Expect
    <2> QED
        BY ZenonT(60), <1>3, <2>2, <2>3, SeenBefore
<1> QED
    BY ZenonT(60), <1>1, <1>2, <1>3, EffectCarries

LEMMA SkippedFrame ==
  ASSUME LocksInv, NEW t \in Tx, Others(t), Effect(t), NEW u \in Tx, u # t, Skipped(u)
  PROVE  Skipped(u)'
<1>1. tx'[u] = tx[u] /\ edits(u)' = edits(u) /\ \A i \in 1..Len(edits(u)) : Seen(u, i)' <=> Seen(u, i)
    BY Zenon DEF Others, edits, Seen
<1>2. \A i \in 1..Len(edits(u)) : edits(u)[i].name \in Name
    BY Zenon, EditNames DEF LocksInv
<1> QED
    <2>1. \A i \in 1..Len(edits(u)) : locks'[edits(u)[i].name] = u <=> locks[edits(u)[i].name] = u
        BY Zenon, <1>2, NotGained
    <2> QED
        BY ZenonT(60), <1>1, <2>1 DEF Skipped

\* Whoever writes a reflog holds the lock of its reference.
LEMMA LoggersHoldTheLock ==
  ASSUME LocksInv, NEW t \in Tx, Skipped(t), Logs(t), reflog' # reflog
  PROVE  locks[name(t)] = t
<1>1. /\ tx[t].pc = "reflog" /\ tx[t].at \in 1..Len(edits(t)) /\ tx[t].at \in Nat
      /\ edit(t) = edits(t)[tx[t].at] /\ edit(t).change = "Update"
    BY ZenonT(60), NameOfEdit, LogEntries DEF Logs, OnAnEdit, LocksInv, edit, Types, TxState
<1>2. log_update(edit(t)) # <<>>
    BY Zenon, LogGrows DEF LocksInv
<1>3. ASSUME IsObject(edit(t).new), IsCurrent(edit(t)) PROVE FALSE
    BY ZenonT(60), <1>2, <1>3, RefTransactionAssumption DEF log_update, IsCurrent, IsObject, IsSymbolic,
       RefTransactionAssumption
<1>4. Seen(t, tx[t].at)
    <2>1. tx[t].at >= tx[t].at
        BY SMTT(60), <1>1
    <2> QED
        BY ZenonT(60), <1>1, <2>1 DEF Seen
<1> QED
    BY ZenonT(60), <1>1, <1>3, <1>4 DEF Skipped, name

LEMMA NoLogsStep ==
  ASSUME LocksInv, PackedRefsUnused, NEW t \in Tx, NoLogs(t), Others(t), Effect(t)
  PROVE  NoLogs(t)'
<1>1. Types /\ Cursors /\ PlainTx(t) /\ Len(edits(t)) \in Nat
    BY SMTT(60) DEF LocksInv, Plain, Types, TxState, edits
<1> DEFINE Quiet == tx'[t].pc \notin {"delete_reflog", "delete_ref", "drop_lock"}
<1>2. CASE Quiet
    BY ZenonT(60), <1>2 DEF NoLogs, Unlogged
<1>3. ASSUME NEW i \in 1..Len(edits(t)), NEW pc, NEW k, Moved(t, pc, k), edits(t)[i].change = "Delete",
             Unlogged(t, i)', ToSecond(t, 1, pc, k)
      PROVE  FALSE
    <2>1. i \in Deletions(t) /\ i >= 1
        BY SMTT(60), <1>1, <1>3 DEF Deletions
    <2> QED
        BY SMTT(60), <1>1, <1>3, <2>1 DEF ToSecond, ToThird, FirstFrom, Moved, Unlogged, Deletions
<1>4. ASSUME NEW i \in 1..Len(edits(t)), NEW pc, NEW k, Moved(t, pc, k), edits(t)[i].change = "Delete",
             Unlogged(t, i)', \E j : ToFirst(t, j, pc, k)
      PROVE  FALSE
    BY ZenonT(60), <1>3, <1>4 DEF ToFirst, Moved, Unlogged
<1>5. CASE (\E pc, i : Goes(t, pc, i) /\ tx[t].pc = "prepared") \/ Logs(t) \/ Writes(t)
    <2>1. PICK pc, k : Moved(t, pc, k) /\ (pc = "commit_ref" \/ \E j : ToFirst(t, j, pc, k))
        BY ZenonT(60), <1>5 DEF Goes, Logs, Writes
    <2> QED
        BY ZenonT(60), <1>2, <1>4, <2>1 DEF NoLogs, Moved, edits
<1>6. CASE Unlogs(t)
    <2>1. PICK pc, k : ToSecond(t, tx[t].at + 1, pc, k) /\ Moved(t, pc, k)
        BY ZenonT(60), <1>6 DEF Unlogs
    <2>2. tx[t].pc = "delete_reflog" /\ tx[t].at \in 1..Len(edits(t)) /\ name(t) \in Name
        BY ZenonT(60), <1>1, <1>6, NameOfEdit DEF Unlogs, OnAnEdit
    <2>3. ASSUME NEW i \in 1..Len(edits(t)), edits(t)[i].change = "Delete", Unlogged(t, i)'
          PROVE  i = tx[t].at \/ Unlogged(t, i)
        <3>1. i \in Deletions(t)
            BY ZenonT(60), <2>3 DEF Deletions
        <3>2. i < tx[t].at + 1
            BY SMTT(60), <1>1, <2>1, <2>2, <2>3, <3>1 DEF ToSecond, ToThird, FirstFrom, Moved, Unlogged,
               Deletions
        <3> QED
            BY SMTT(60), <1>1, <2>2, <3>2 DEF Unlogged
    <2>4. ASSUME NEW i \in 1..Len(edits(t)), edits(t)[i].change = "Delete", Unlogged(t, i)'
          PROVE  reflog'[edits(t)[i].name] = None
        <3>1. edits(t)[i].name \in Name
            BY ZenonT(60), <1>1, EditNames
        <3> QED
            BY ZenonT(60), <1>1, <1>6, <2>2, <2>3, <2>4, <3>1 DEF Unlogs, NoLogs, Types, name, edit
    <2> QED
        BY ZenonT(60), <2>1, <2>4 DEF NoLogs, Moved, edits
<1>7. CASE Deletes(t) \/ Drops(t)
    <2>1. /\ reflog' = reflog /\ edits(t)' = edits(t) /\ tx[t].at \in 1..Len(edits(t))
        BY ZenonT(60), <1>1, <1>7, NameOfEdit DEF Deletes, Drops, Moved, Store, edits, OnAnEdit
    <2>2. ASSUME NEW i \in 1..Len(edits(t)), Unlogged(t, i)' PROVE Unlogged(t, i)
        <3>1. CASE Deletes(t)
            <4>1. tx'[t].pc = "drop_lock" /\ tx'[t].at = tx[t].at /\ tx[t].pc = "delete_ref"
                BY ZenonT(60), <3>1 DEF Deletes, Moved
            <4>2. i > tx[t].at
                BY ZenonT(60), <2>2, <4>1 DEF Unlogged
            <4>3. i >= tx[t].at
                BY SMTT(60), <1>1, <2>1, <4>2
            <4> QED
                BY ZenonT(60), <4>1, <4>3 DEF Unlogged
        <3>2. CASE Drops(t)
            <4>1. PICK pc, k : ToThird(t, tx[t].at + 1, pc, k) /\ Moved(t, pc, k)
                BY ZenonT(60), <3>2 DEF Drops
            <4>2. pc = "delete_ref" /\ k >= tx[t].at + 1 /\ k \in Nat /\ tx[t].pc = "drop_lock"
                <5>1. tx'[t].pc = pc /\ tx'[t].at = k /\ tx[t].pc = "drop_lock"
                    BY ZenonT(60), <3>2, <4>1 DEF Moved, Drops
                <5>2. pc \in {"delete_ref", "finish"}
                    BY Zenon, <4>1 DEF ToThird
                <5>3. pc = "delete_ref"
                    BY ZenonT(60), <2>2, <5>1, <5>2 DEF Unlogged
                <5>4. FirstFrom(take_lock_and_delete(t), tx[t].at + 1, k)
                    BY ZenonT(60), <4>1, <5>3 DEF ToThird
                <5> QED
                    BY SMTT(60), <1>1, <5>1, <5>3, <5>4 DEF FirstFrom, take_lock_and_delete
            <4> QED
                <5>1. i >= k
                    BY ZenonT(60), <2>2, <4>1, <4>2 DEF Moved, Unlogged
                <5>2. i > tx[t].at
                    BY SMTT(60), <1>1, <2>1, <4>2, <5>1
                <5> QED
                    BY ZenonT(60), <4>2, <5>2 DEF Unlogged
        <3> QED
            BY ZenonT(60), <1>7, <3>1, <3>2
    <2> QED
        BY ZenonT(60), <2>1, <2>2 DEF NoLogs
<1>8. CASE Begins(t) \/ Splits(t) \/ Ends(t) \/ TakesPacked(t) \/ ReadsPacked(t) \/ Reads(t) \/ Takes(t) \/ Accepts(t)
    BY ZenonT(60), <1>2, <1>8 DEF Begins, Splits, Ends, Ended, TakesPacked, ReadsPacked, Reads, Takes,
       Accepts, Moved
<1>9. CASE \E pc, i : Goes(t, pc, i) /\ tx[t].pc # "prepared"
    BY ZenonT(60), <1>2, <1>9 DEF Goes, Moved
<1>10. ~WritesPacked(t) /\ ~UnlocksPacked(t)
    BY Zenon, <1>1 DEF PlainTx, OnPackedRefs, WritesPacked, UnlocksPacked
<1> QED
    BY ZenonT(60), <1>5, <1>6, <1>7, <1>8, <1>9, <1>10 DEF Effect

LEMMA NoLogsFrame ==
  ASSUME LocksInv, PackedRefsUnused, NEW t \in Tx, Skipped(t), Others(t), Effect(t), NEW u \in Tx, u # t, NoLogs(u)
  PROVE  NoLogs(u)'
<1>1. Types /\ Cursors /\ AllHeld /\ PlainTx(u)
    BY Zenon DEF LocksInv, Plain
<1>2. tx'[u] = tx[u] /\ edits(u)' = edits(u) /\ \A i \in 1..Len(edits(u)) : Unlogged(u, i)' <=> Unlogged(u, i)
    BY Zenon DEF Others, edits, Unlogged
<1> SUFFICES ASSUME NEW i \in 1..Len(edits(u)), edits(u)[i].change = "Delete", Unlogged(u, i)
             PROVE  reflog'[edits(u)[i].name] = None
    BY Zenon, <1>2 DEF NoLogs
<1>3. reflog[edits(u)[i].name] = None /\ edits(u)[i].name \in Name
    BY Zenon, <1>1, EditNames DEF NoLogs
<1>4. locks[edits(u)[i].name] = u
    <2>1. Passed(u, i)
        BY Zenon DEF Unlogged, Passed
    <2> QED
        BY Zenon, <1>1, <2>1 DEF AllHeld, Held, PlainTx
<1>5. CASE Logs(t)
    <2>1. reflog' # reflog => name(t) # edits(u)[i].name
        BY ZenonT(60), <1>4, <1>5, LoggersHoldTheLock
    <2> QED
        BY ZenonT(60), <1>1, <1>3, <1>5, <2>1, LogGrows
<1>6. CASE Unlogs(t)
    BY Zenon, <1>1, <1>3, <1>6 DEF Unlogs, Types
<1> QED
    BY ZenonT(60), <1>3, <1>5, <1>6, LogChanges

\* A reflog without a reference keeps its reason.
LEMMA CreatesKept ==
  ASSUME LocksInv, NEW t \in Tx, Others(t), Effect(t), NEW u \in Tx, NEW n \in Name, Creates(u, n), loose'[n] = None
  PROVE  Creates(u, n)' \/ SplitAt(u, n)'
<1>1. n \in Names(u, "Update")'
    BY Zenon, NamesGrow DEF Creates, LocksInv
<1>2. CASE u # t
    <2>1. tx'[u] = tx[u] /\ name(u)' = name(u)
        BY Zenon, <1>2 DEF Others, name, edit, edits
    <2> QED
        BY ZenonT(60), <1>1, <1>2, <2>1, NotGained DEF Creates
<1>3. CASE u = t /\ Ends(t)
    <2>1. tx'[t].pc \in {"failed", "killed"}
        BY Zenon, <1>3 DEF Creates, Ends, Ended
    <2> QED
        BY Zenon, <1>1, <1>3, <2>1 DEF Creates
<1>4. CASE u = t /\ ~Ends(t)
    <2>1. tx[t].pc = "commit_ref" /\ name(t) = n /\ locks[n] = t
        <3>1. tx[t].pc \notin {"failed", "killed"}
            BY ZenonT(60), <1>4 DEF Effect, Begins, Splits, Goes, TakesPacked, ReadsPacked, Reads, Takes,
               Accepts, Logs, Writes, Unlogs, WritesPacked, UnlocksPacked, Deletes, Drops
        <3> QED
            BY ZenonT(60), <1>4, <3>1 DEF Creates
    <2>2. Writes(t)
        BY ZenonT(60), <1>4, <2>1 DEF Effect, Begins, Splits, Goes, TakesPacked, ReadsPacked, Reads, Takes,
           Accepts, Logs, Unlogs, WritesPacked, UnlocksPacked, Deletes, Drops, Early
    <2>3. /\ edit(t) \in WellFormed /\ tx[t].at \in 1..Len(edits(t)) /\ tx[t].at \in Updates(t)
        BY ZenonT(60), <2>1, NameOfEdit DEF LocksInv, OnAnEdit, Cursors, Cursor
    <2>4. edit(t).new # None
        BY Zenon, <2>3 DEF Updates, WellFormed, edit
    <2>5. edit(t).log = "Only"
        BY ZenonT(60), <2>1, <2>2, <2>4 DEF Writes, LocksInv, Types
    <2>6. SplitAt(t, n)
        BY ZenonT(60), <2>1, <2>3, <2>5 DEF SplitAt, name, edit
    <2> QED
        BY ZenonT(60), <1>4, <2>6, SplitAtKept
<1> QED
    BY Zenon, <1>2, <1>3, <1>4

LEMMA OrphansStep ==
  ASSUME LocksInv, PackedRefsUnused, Orphans, NEW t \in Tx, Skipped(t), NoLogs(t), Others(t), Effect(t)
  PROVE  Orphans'
<1> SUFFICES ASSUME NEW n \in Name, reflog'[n] # None, loose'[n] = None
             PROVE  \E u \in Tx : Creates(u, n)' \/ SplitAt(u, n)'
    BY Zenon DEF Orphans
<1>1. Types /\ Cursors /\ PlainTx(t)
    BY Zenon DEF LocksInv, Plain
<1>2. CASE reflog[n] # None /\ loose[n] = None
    <2>1. PICK u \in Tx : Creates(u, n) \/ SplitAt(u, n)
        BY Zenon, <1>2 DEF Orphans
    <2> QED
        BY ZenonT(60), <2>1, CreatesKept, SplitAtKept
<1>3. CASE reflog[n] = None
    <2>1. Logs(t) /\ n = name(t)
        <3>1. Logs(t)
            BY ZenonT(60), <1>1, <1>3, LogChanges DEF Unlogs, Types
        <3> QED
            BY ZenonT(60), <1>1, <1>3, <3>1, LogGrows
    <2>2. locks[n] = t
        BY ZenonT(60), <1>3, <2>1, LoggersHoldTheLock
    <2>3. Moved(t, "commit_ref", tx[t].at) /\ locks' = locks
        BY Zenon, <1>1, <2>1 DEF Logs, PlainTx, delete_loose_refs, direct_to_packed_refs, SameLocks
    <2>4. tx[t].at \in 1..Len(edits(t)) /\ edit(t).change = "Update"
        BY ZenonT(60), <1>1, <2>1, LogEntries, NameOfEdit DEF Logs, OnAnEdit
    <2>5. n \in Names(t, "Update")' /\ name(t)' = n
        BY ZenonT(60), <2>1, <2>3, <2>4 DEF Moved, Names, name, edit, edits
    <2> QED
        BY Zenon, <2>2, <2>3, <2>5 DEF Moved, Creates
<1>4. CASE reflog[n] # None /\ loose[n] # None
    <2>1. CASE Writes(t)
        <3>1. tx[t].pc = "commit_ref"
            BY Zenon, <2>1 DEF Writes
        <3>2. edit(t) \in WellFormed /\ name(t) \in Name /\ edit(t).change = "Update"
            BY ZenonT(60), <1>1, <3>1, NameOfEdit DEF OnAnEdit, Cursors, Cursor, Updates, edit
        <3>3. edit(t).new # None
            BY Zenon, <3>2 DEF WellFormed
        <3> QED
            BY ZenonT(60), <1>1, <1>4, <2>1, <3>2, <3>3 DEF Writes, Types
    <2>2. CASE Deletes(t)
        <3>1. /\ tx[t].pc = "delete_ref" /\ tx[t].at \in 1..Len(edits(t)) /\ tx[t].at \in Nat
              /\ tx[t].at \in take_lock_and_delete(t) /\ name(t) \in Name
            BY ZenonT(60), <1>1, <2>2, NameOfEdit DEF Deletes, OnAnEdit, Cursors, Cursor, Types, TxState
        <3>2. edits(t)[tx[t].at].change = "Delete"
            BY Zenon, <1>1, <3>1 DEF take_lock_and_delete, delete_loose_refs, direct_to_packed_refs, PlainTx
        <3>3. reflog[name(t)] = None
            <4>1. tx[t].at >= tx[t].at
                BY <3>1
            <4>2. Unlogged(t, tx[t].at)
                BY Zenon, <3>1, <4>1 DEF Unlogged
            <4> QED
                BY ZenonT(60), <3>1, <3>2, <4>2 DEF NoLogs, name, edit
        <3>4. n = name(t)
            BY ZenonT(60), <1>1, <1>4, <2>2, <3>1 DEF Deletes, Types
        <3> QED
            BY ZenonT(60), <1>4, <3>3, <3>4
    <2>3. loose' # loose
        BY Zenon, <1>4
    <2> QED
        BY ZenonT(60), <2>1, <2>2, <2>3 DEF Effect, Begins, Splits, Ends, Goes, TakesPacked, ReadsPacked,
           Reads, Takes, Accepts, Logs, Unlogs, WritesPacked, UnlocksPacked, Drops, Store
<1> QED
    BY ZenonT(60), <1>2, <1>3, <1>4

----------------------------------------------------------------------------
(* The theorem *)

LEMMA LogsEffect ==
  ASSUME LogsInv, NEW t \in Tx, Others(t), Effect(t), given' = given
  PROVE  LogsInv'
<1>1. LocksInv' /\ LocksInv /\ Types /\ Cursors
    BY Zenon, LocksEffect DEF LogsInv, LocksInv
<1>2. ASSUME NEW u \in Tx PROVE Chain(u)' /\ Unlocked(u)' /\ Differs(u)' /\ Logged(u)'
    <2>1. CASE u = t
        BY ZenonT(60), <1>1, <2>1, ChainStep, UnlockedStep, DiffersStep, LoggedStep DEF LogsInv
    <2>2. CASE u # t
        <3>1. Chain(u)'
            <4>1. edits(u)' = edits(u) /\ Chain(u)
                BY Zenon, <2>2 DEF Others, edits, LogsInv
            <4> QED
                BY Zenon, <4>1 DEF Chain
        <3> QED
            BY ZenonT(60), <1>1, <2>2, <3>1, UnlockedFrame, DiffersFrame, LoggedFrame DEF LogsInv
    <2> QED
        BY Zenon, <2>1, <2>2
<1>3. LogBeforeRef'
    BY Zenon, <1>1, LogBeforeRefStep DEF LogsInv
<1>4. PackedRefsUnused' <=> PackedRefsUnused
    BY Zenon DEF PackedRefsUnused, Requests
<1>5. ASSUME PackedRefsUnused PROVE Orphans'
    BY Zenon, <1>1, <1>5, OrphansStep DEF LogsInv
<1>6. ASSUME PackedRefsUnused, NEW u \in Tx PROVE Skipped(u)' /\ NoLogs(u)'
    <2>1. Skipped(t) /\ Skipped(u) /\ NoLogs(u)
        BY Zenon, <1>6 DEF LogsInv
    <2> QED
        BY ZenonT(60), <1>1, <1>6, <2>1, SkippedStep, SkippedFrame, NoLogsStep, NoLogsFrame
<1> QED
    BY ZenonT(60), <1>1, <1>2, <1>3, <1>4, <1>5, <1>6 DEF LogsInv

LEMMA LogsSame ==
  ASSUME LogsInv, UNCHANGED <<loose, packed, reflog, locks, packed_lock, tx, given>>
  PROVE  LogsInv'
<1>1. LocksInv'
    BY Zenon, LocksSame DEF LogsInv
<1>2. ASSUME NEW t \in Tx
      PROVE  /\ Chain(t)' /\ Unlocked(t)' /\ Differs(t)'
             /\ Skipped(t)' <=> Skipped(t)
             /\ NoLogs(t)' <=> NoLogs(t)
    <2>1. /\ tx' = tx /\ locks' = locks /\ reflog' = reflog /\ edits(t)' = edits(t) /\ edit(t)' = edit(t)
          /\ direct_to_packed_refs(t)' = direct_to_packed_refs(t)
          /\ \A i : (Seen(t, i)' <=> Seen(t, i)) /\ (Unlogged(t, i)' <=> Unlogged(t, i))
        BY Zenon DEF edits, edit, direct_to_packed_refs, Seen, Unlogged
    <2>2. Chain(t) /\ Unlocked(t) /\ Differs(t)
        BY Zenon DEF LogsInv
    <2>3. Chain(t)' /\ Differs(t)'
        BY Zenon, <2>1, <2>2 DEF Chain, Differs
    <2>4. Unlocked(t)'
        BY Zenon, <2>1, <2>2 DEF Unlocked
    <2>5. (Skipped(t)' <=> Skipped(t)) /\ (NoLogs(t)' <=> NoLogs(t))
        BY Zenon, <2>1 DEF Skipped, NoLogs
    <2> QED
        BY Zenon, <2>3, <2>4, <2>5
<1>3. \A n : NeverDeleted(n)' <=> NeverDeleted(n)
    BY Zenon DEF NeverDeleted, Names, edits
<1>4. LogBeforeRef' /\ \A t \in Tx : Logged(t)'
    BY ZenonT(60), <1>3 DEF LogsInv, LogBeforeRef, Logged, InLog, name, edit, edits
<1>5. PackedRefsUnused' => Orphans' /\ \A t \in Tx : Skipped(t)' /\ NoLogs(t)'
    <2>1. PackedRefsUnused' <=> PackedRefsUnused
        BY Zenon DEF PackedRefsUnused, Requests
    <2>2. \A t \in Tx, n \in Name : (Creates(t, n)' <=> Creates(t, n)) /\ (SplitAt(t, n)' <=> SplitAt(t, n))
        BY ZenonT(60) DEF Creates, SplitAt, Names, name, edit, edits
    <2>3. Orphans' <=> Orphans
        BY Zenon, <2>2 DEF Orphans
    <2> QED
        BY Zenon, <1>2, <2>1, <2>3 DEF LogsInv
<1> QED
    BY ZenonT(60), <1>1, <1>2, <1>4, <1>5 DEF LogsInv

LEMMA LogsStep == LogsInv /\ [Next]_vars => LogsInv'
<1> SUFFICES ASSUME LogsInv, [Next]_vars PROVE LogsInv'
    BY Zenon
<1>1. ASSUME NEW t \in Tx, start(t) \/ Step(t) \/ io_error(t) \/ kill(t) PROVE LogsInv'
    <2>1. Others(t) /\ UNCHANGED <<lookup, given>> /\ Effect(t)
        BY Zenon, <1>1, StepEffect DEF LogsInv, LocksInv
    <2> QED
        BY Zenon, <2>1, LogsEffect
<1>2. ASSUME NEW r \in Reader, try_find(r) \/ find_inner(r) PROVE LogsInv'
    BY Zenon, <1>2, LogsSame DEF try_find, find_inner, Store
<1>3. CASE UNCHANGED vars
    BY Zenon, <1>3, LogsSame DEF vars
<1> QED
    BY Zenon, <1>1, <1>2, <1>3 DEF Next

LEMMA LogsInit == Init => LogsInv
<1> SUFFICES ASSUME Init PROVE LogsInv
    BY Zenon
<1>1. \A t \in Tx : tx[t].pc = "idle" /\ edits(t) = <<>>
    BY Zenon DEF Init, Idle, edits
<1>2. \A n \in Name : locks[n] = NoTx
    BY Zenon DEF Init
<1>3. \A t \in Tx : Chain(t) /\ Unlocked(t) /\ Differs(t) /\ Logged(t) /\ Skipped(t) /\ NoLogs(t)
    <2>1. ASSUME NEW t \in Tx PROVE Chain(t) /\ Differs(t) /\ Skipped(t) /\ NoLogs(t)
        BY SMTT(60), <1>1 DEF Chain, Differs, Skipped, NoLogs
    <2>2. ASSUME NEW t \in Tx PROVE Unlocked(t) /\ Logged(t)
        BY Zenon, <1>1, <1>2, RefTransactionAssumption DEF Unlocked, Logged, RefTransactionAssumption
    <2> QED
        BY ZenonT(60), <2>1, <2>2
<1>4. LogBeforeRef
    BY Zenon DEF Init, LogBeforeRef
<1>5. PackedRefsUnused => Orphans
    BY Zenon DEF Init, PackedRefsUnused, Orphans, Overlay
<1> QED
    BY ZenonT(60), <1>3, <1>4, <1>5, LocksInit DEF LogsInv

(***************************************************************************)
(* LogsMatchRefs: the reflog is written before its reference and deleted   *)
(* before it, so that, whatever other transactions do and wherever they    *)
(* stop, an object id that a transaction put into a reference is in its    *)
(* reflog, and without packed-refs a reflog has a reference unless an      *)
(* update that makes both is under way or was cut short.  The argument is  *)
(* LogsInv: an edit whose lock commit still holds was seen to differ from  *)
(* the reference (Differs), so that it is logged (Logged); one without a   *)
(* lock changes nothing and is not logged (Skipped), so that nobody makes  *)
(* the reflog anew that a deletion removed (NoLogs).                       *)
(***************************************************************************)
THEOREM LogsMatch == Spec => []LogsMatchRefs
<1>1. ASSUME LogsInv PROVE LogsMatchRefs
    <2>1. ASSUME NEW n \in Name, PackedRefsUnused, reflog[n] # None, Value(n) = None
          PROVE  \E t \in Tx :
                   \/ n \in Names(t, "Update") /\ tx[t].pc \notin {"idle", "done"}
                   \/ \E i \in 1..Len(edits(t)) : edits(t)[i].name = n /\ edits(t)[i].log = "Only"
        <3>1. loose[n] = None /\ Orphans
            BY ZenonT(60), <1>1, <2>1 DEF LogsInv, Value, Overlay
        <3>2. PICK t \in Tx : Creates(t, n) \/ SplitAt(t, n)
            BY Zenon, <2>1, <3>1 DEF Orphans
        <3> QED
            BY Zenon, <3>2 DEF Creates, SplitAt
    <2> QED
        BY ZenonT(60), <1>1, <2>1 DEF LogsMatchRefs, NoLogWithoutRef, LogsInv
<1> QED
    BY <1>1, LogsInit, LogsStep, PTL DEF Spec
=============================================================================
