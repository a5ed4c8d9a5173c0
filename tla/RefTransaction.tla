--------------------------- MODULE RefTransaction ---------------------------
(***************************************************************************)
(* Transactions on the file-based reference store of gix-ref, each run by  *)
(* a process of its own against one shared directory: prepare (split       *)
(* symbolic refs, lock packed-refs if needed, read, lock and check every   *)
(* edit), then commit (reflogs and updates, reflog deletions, packed-refs, *)
(* deletions of loose refs) or drop.  Readers look up names meanwhile.     *)
(*                                                                         *)
(* A step is one access to the file system.  Locks are the lock files of   *)
(* gix-lock, used here through what AtomicLock promises of them: taken by  *)
(* one process at a time, released by renaming or by removing.             *)
(***************************************************************************)
EXTENDS Naturals, Sequences

CONSTANTS Tx,         \* transactions, one per process
          Reader,     \* processes that look up a reference
          Name,       \* full reference names
          Packable,   \* those that may live in packed-refs
          AutoLog,    \* those that get a reflog without being asked to
          Oid,        \* object ids
          None,       \* no value, no reference, no file
          NoTx,       \* the owner of a lock nobody holds
          Scenario    \* the stores to start with, and what may be asked of them

VARIABLES loose,       \* the files below refs/, and HEAD
          packed,      \* the packed-refs file
          reflog,      \* the reflog files, oldest entry first
          locks,       \* who made <ref>.lock
          packed_lock, \* who made packed-refs.lock
          tx,          \* the state of each transaction
          lookup,      \* the state of each reader
          given        \* the scenario, which never changes

vars == <<loose, packed, reflog, locks, packed_lock, tx, lookup, given>>

Target == Oid \union Name     \* an object id, or the name a symref points to

PreviousValue ==
  [is: {"Any", "MustExist", "MustNotExist"}, value: {None}]
    \union [is: {"MustExistAndMatch", "ExistingMustMatch"}, value: Target]

Edit == [name: Name, change: {"Update", "Delete"}, new: Target \union {None},
         expected: PreviousValue, log: {"AndReference", "Only"},
         deref: BOOLEAN, parent_index: Nat,
         leaf_referent_previous_oid: Oid \union {None}]

PackedRefs == {"DeletionsOnly", "DeletionsAndNonSymbolicUpdates",
               "RemoveLooseSourceReference"}

PackedFile == [Name -> Oid \union {None}]

LogEntry == [old: Oid \union {None}, new: Oid]

RefTransactionAssumption ==
  /\ Packable \subseteq Name /\ AutoLog \subseteq Name
  /\ NoTx \notin Tx /\ Oid \cap Name = {}
  /\ None \notin Target /\ None \notin PackedFile /\ None \notin Seq(LogEntry)
  /\ \A s \in Scenario :
       /\ s.loose \in [Name -> Target \union {None}]
       /\ s.packed \in PackedFile \union {None} /\ s.sought \subseteq Name
       /\ \A t \in Tx : \A r \in s.request[t] :
            /\ r.packed_refs \in PackedRefs
            /\ r.edits \in Seq(Edit) /\ r.edits # <<>>
            /\ \A i \in 1..Len(r.edits) :
                 /\ r.edits[i].change = "Update" <=> r.edits[i].new # None
                 \* lock_ref_and_apply_change panics when asked for this
                 /\ r.edits[i].change = "Delete" => r.edits[i].expected.is # "MustNotExist"
                 /\ r.edits[i].parent_index = 0
                 /\ r.edits[i].leaf_referent_previous_oid = None

ASSUME RefTransactionAssumption

----------------------------------------------------------------------------
(* Requests as callers write them. *)

Expect(is, value) == [is |-> is, value |-> value]

Update(name, new, expected, deref) ==
  [name |-> name, change |-> "Update", new |-> new, expected |-> expected,
   log |-> "AndReference", deref |-> deref, parent_index |-> 0,
   leaf_referent_previous_oid |-> None]

Delete(name, expected, deref) ==
  [Update(name, None, expected, deref) EXCEPT !.change = "Delete"]

----------------------------------------------------------------------------
(* Values *)

IsObject(target)   == target \in Oid
IsSymbolic(target) == target \in Name

possibly_adjust_name_for_prefixes(name) == name \in Packable

(* What loose::Reference and packed::Buffer lookups yield together. *)
Overlay(file, buffer, name) ==
  IF file # None THEN file
  ELSE IF buffer # None THEN buffer[name] ELSE None

Value(name) == Overlay(loose[name], packed, name)

previous_value(edit) ==
  IF edit.expected.is \in {"MustExistAndMatch", "ExistingMustMatch"}
    THEN edit.expected.value ELSE None

MayDelete(expected, existing) ==
  CASE expected.is = "Any" -> TRUE
    [] expected.is = "MustExist" -> existing # None
    [] expected.is = "ExistingMustMatch" -> existing \in {None, expected.value}
    [] expected.is = "MustExistAndMatch" -> existing = expected.value

MayUpdate(expected, existing, new) ==
  CASE expected.is = "MustNotExist" -> existing \in {None, new}
    [] OTHER -> MayDelete(expected, existing)

(* The two booleans of new_would_change_existing, joined as line 181 does. *)
MustWrite(existing, new, direct_to_packed_refs) ==
  \/ existing # new /\ ~direct_to_packed_refs
  \/ IsSymbolic(new)

----------------------------------------------------------------------------
(* The state of a transaction *)

Pass == {"reflog", "commit_ref", "delete_reflog", "packed_commit",
         "packed_unlock", "delete_ref", "drop_lock", "finish"}

Preparing == {"pre_process", "is_file", "lock_is_file", "packed_choice",
              "packed_lock", "packed_read", "packed_read_first",
              "packed_lock_late", "read", "lock", "apply", "obtain_lock"}

Ended == {"done", "failed", "killed"}

PC == {"idle", "prepared", "spins"} \union Preparing \union Pass \union Ended

Idle == [pc |-> "idle", packed_refs |-> "DeletionsOnly", edits |-> <<>>,
         at |-> 1, packed_tx |-> FALSE, buffer |-> None, existing |-> None]

edits(t) == tx[t].edits
edit(t)  == edits(t)[tx[t].at]
name(t)  == edit(t).name

At(t, pc) == tx[t].pc = pc

Goto(t, pc)        == tx' = [tx EXCEPT ![t].pc = pc]
GotoEdit(t, pc, i) == tx' = [tx EXCEPT ![t].pc = pc, ![t].at = i]

(* A transaction that is dropped removes every lock file it still owns. *)
DropLocks(t) ==
  /\ locks' = [n \in Name |-> IF locks[n] = t THEN NoTx ELSE locks[n]]
  /\ packed_lock' = IF packed_lock = t THEN NoTx ELSE packed_lock

(* What is left of a transaction that is over: the edits it was about. *)
End(t, pc) ==
  tx' = [tx EXCEPT ![t] = [Idle EXCEPT !.pc = pc, !.edits = edits(t)]]

Abort(t) ==
  /\ End(t, "failed")
  /\ DropLocks(t)
  /\ UNCHANGED <<loose, packed, reflog, lookup, given>>

Store == <<loose, packed, reflog>>

----------------------------------------------------------------------------
(* prepare: splitting symbolic references *)

start(t) ==
  /\ At(t, "idle")
  /\ \E r \in given.request[t] :
       tx' = [tx EXCEPT ![t].pc = "pre_process", ![t].edits = r.edits,
                        ![t].packed_refs = r.packed_refs]
  /\ UNCHANGED <<Store, locks, packed_lock, lookup, given>>

MaxRounds == 5

(* The round of extend_with_splits_of_symbolic_refs that looks at an edit. *)
Round(es) ==
  LET round[i \in 1..Len(es)] ==
        IF es[i].parent_index = 0 THEN 1 ELSE 1 + round[es[i].parent_index]
  IN  round

Split(es, i, referent) ==
  LET parent == [es[i] EXCEPT !.deref = FALSE, !.log = "Only",
                   !.expected = IF es[i].change = "Update"
                                  THEN Expect("Any", None) ELSE es[i].expected]
      child  == [es[i] EXCEPT !.name = referent, !.parent_index = i]
  IN  Append([es EXCEPT ![i] = parent], child)

extend_with_splits_of_symbolic_refs(t) ==
  LET i == tx[t].at
  IN /\ At(t, "pre_process") /\ i <= Len(edits(t))
     /\ IF ~edit(t).deref
          THEN /\ GotoEdit(t, "pre_process", i + 1)
               /\ UNCHANGED <<Store, locks, packed_lock, lookup, given>>
        ELSE IF ~IsSymbolic(loose[name(t)])
          THEN /\ tx' = [tx EXCEPT ![t].edits[i].deref = FALSE, ![t].at = i + 1]
               /\ UNCHANGED <<Store, locks, packed_lock, lookup, given>>
        ELSE IF Round(edits(t))[i] = MaxRounds
          THEN Abort(t)
        ELSE /\ tx' = [tx EXCEPT ![t].edits = Split(@, i, loose[name(t)]),
                                 ![t].at = i + 1]
             /\ UNCHANGED <<Store, locks, packed_lock, lookup, given>>

OneNameHasOneEdit(es) ==
  \A i, j \in 1..Len(es) : es[i].name = es[j].name => i = j

assure_one_name_has_one_edit(t) ==
  /\ At(t, "pre_process") /\ tx[t].at > Len(edits(t))
  /\ IF OneNameHasOneEdit(edits(t))
       THEN /\ GotoEdit(t, "is_file", 1)
            /\ UNCHANGED <<Store, locks, packed_lock, lookup, given>>
       ELSE Abort(t)

----------------------------------------------------------------------------
(* prepare: the packed transaction *)

WithUpdates(t) == tx[t].packed_refs # "DeletionsOnly"

ForPackedRefs(t) ==
  {i \in 1..Len(edits(t)) :
     /\ edits(t)[i].log = "AndReference"
     /\ possibly_adjust_name_for_prefixes(edits(t)[i].name)}

PackedUpdates(t) ==
  {i \in ForPackedRefs(t) :
     WithUpdates(t) /\ edits(t)[i].change = "Update" /\ IsObject(edits(t)[i].new)}

edits_for_packed_transaction(t) ==
  PackedUpdates(t)
    \union {i \in ForPackedRefs(t) : edits(t)[i].change = "Delete"}

(* Mutant of is_file: an existing packed-refs file is not noticed. *)
is_file_unless_existing(t) ==
  /\ At(t, "is_file")
  /\ Goto(t, IF WithUpdates(t) THEN "packed_choice" ELSE "lock_is_file")
  /\ UNCHANGED <<Store, locks, packed_lock, lookup, given>>

(* Line 257 and 258, and line 259 for when there is no packed-refs file. *)
is_file(t) ==
  /\ At(t, "is_file")
  /\ Goto(t, IF WithUpdates(t) \/ packed # None THEN "packed_choice"
             ELSE "lock_is_file")
  /\ UNCHANGED <<Store, locks, packed_lock, lookup, given>>

lock_is_file(t) ==
  /\ At(t, "lock_is_file")
  /\ Goto(t, IF packed_lock # NoTx THEN "packed_choice" ELSE "read")
  /\ UNCHANGED <<Store, locks, packed_lock, lookup, given>>

(* Without edits to make or values to look up in it, packed-refs is not
   touched.  With updates, or while somebody else writes it, it is locked and
   then read; otherwise it is read and then locked. *)
packed_choice(t) ==
  /\ At(t, "packed_choice")
  /\ Goto(t, IF ForPackedRefs(t) = {} THEN "read"
             ELSE IF PackedUpdates(t) # {} \/ packed_lock # NoTx
               THEN "packed_lock"
             ELSE "packed_read_first")
  /\ UNCHANGED <<Store, locks, packed_lock, lookup, given>>

(* Taking the lock fails if somebody has it, and if its file cannot be made. *)
acquire_packed_lock(t, next) ==
  \/ /\ packed_lock = NoTx
     /\ packed_lock' = t
     /\ tx' = [tx EXCEPT ![t].pc = next, ![t].packed_tx = (next = "read")]
     /\ UNCHANGED <<Store, locks, lookup, given>>
  \/ Abort(t)

packed_transaction(t) ==
  At(t, "packed_lock") /\ acquire_packed_lock(t, "packed_read")

new_from_pack_and_lock(t) ==
  /\ At(t, "packed_read")
  /\ tx' = [tx EXCEPT ![t].pc = "read", ![t].packed_tx = TRUE,
                      ![t].buffer = packed]
  /\ UNCHANGED <<Store, locks, packed_lock, lookup, given>>

assure_packed_refs_uptodate(t) ==
  /\ At(t, "packed_read_first")
  /\ tx' = [tx EXCEPT ![t].pc = IF packed = None THEN "read"
                                ELSE "packed_lock_late",
                      ![t].buffer = packed]
  /\ UNCHANGED <<Store, locks, packed_lock, lookup, given>>

buffer_into_transaction(t) ==
  At(t, "packed_lock_late") /\ acquire_packed_lock(t, "read")

(* packed::Transaction::prepare drops deletions of what isn't in the buffer. *)
packed_edits(t) ==
  {i \in edits_for_packed_transaction(t) :
     edits(t)[i].change = "Delete" /\ tx[t].buffer # None
       => tx[t].buffer[edits(t)[i].name] # None}

----------------------------------------------------------------------------
(* prepare: lock_ref_and_apply_change *)

has_global_lock(t) == tx[t].packed_tx

direct_to_packed_refs(t) == tx[t].packed_refs = "RemoveLooseSourceReference"

read_existing(t) ==
  /\ At(t, "read")
  /\ tx' = [tx EXCEPT
       ![t].existing = Overlay(loose[name(t)],
                               IF has_global_lock(t) THEN tx[t].buffer ELSE None,
                               name(t)),
       ![t].pc = IF has_global_lock(t) THEN "apply" ELSE "lock"]
  /\ UNCHANGED <<Store, locks, packed_lock, lookup, given>>

(* Mutant of lock_fails: a lock is waited for as long as it takes. *)
lock_fails_never(t) == locks[name(t)] # NoTx /\ UNCHANGED vars

(* Somebody has the lock, or its file cannot be made.  The code that names the
   ref whose lock is missing follows parent_index to the top and never leaves
   the loop there. *)
lock_fails(t) ==
  IF edit(t).parent_index # 0
    THEN Goto(t, "spins") /\ UNCHANGED <<Store, locks, packed_lock, lookup, given>>
    ELSE Abort(t)

(* Mutant of lock_ref: deletions do without a lock. *)
lock_ref_for_updates(t) ==
  /\ At(t, "lock")
  /\ \/ /\ locks[name(t)] = NoTx \/ edit(t).change = "Delete"
        /\ locks' = [locks EXCEPT ![name(t)] =
                       IF edit(t).change = "Delete" THEN @ ELSE t]
        /\ Goto(t, "apply")
        /\ UNCHANGED <<Store, packed_lock, lookup, given>>
     \/ lock_fails(t)

lock_ref(t) ==
  /\ At(t, "lock")
  /\ \/ /\ locks[name(t)] = NoTx
        /\ locks' = [locks EXCEPT ![name(t)] = t]
        /\ Goto(t, "apply")
        /\ UNCHANGED <<Store, packed_lock, lookup, given>>
     \/ lock_fails(t)

(* The edits that are reached from edit i by following parent_index: those in
   every set that holds i and, with an edit, the edit it was split from. *)
Ancestors(es, i) ==
  {j \in 1..Len(es) \ {i} :
     \A S \in SUBSET (1..Len(es)) :
       /\ i \in S
       /\ \A k \in S : es[k].parent_index # 0 => es[k].parent_index \in S
       => j \in S}

(* expected is overwritten with what was seen, and the object id of a leaf is
   handed to the symbolic refs above it. *)
Applied(t) ==
  LET es   == edits(t)
      i    == tx[t].at
      seen == IF tx[t].existing = None THEN es[i]
              ELSE [es[i] EXCEPT !.expected =
                                   Expect("MustExistAndMatch", tx[t].existing)]
  IN  [j \in 1..Len(es) |->
         IF j = i THEN seen
         ELSE IF j \in Ancestors(es, i) /\ IsObject(previous_value(seen))
           THEN [es[j] EXCEPT !.leaf_referent_previous_oid = previous_value(seen)]
         ELSE es[j]]

(* Mutant of NextEdit: one edit too many. *)
NextEdit_off_by_one(t) ==
  tx' = [tx EXCEPT ![t].edits = Applied(t), ![t].existing = None,
           ![t].pc = IF tx[t].at > Len(edits(t)) THEN "prepared" ELSE "read",
           ![t].at = IF tx[t].at > Len(edits(t)) THEN 1 ELSE @ + 1]

NextEdit(t) ==
  tx' = [tx EXCEPT ![t].edits = Applied(t), ![t].existing = None,
           ![t].pc = IF tx[t].at = Len(edits(t)) THEN "prepared" ELSE "read",
           ![t].at = IF tx[t].at = Len(edits(t)) THEN 1 ELSE @ + 1]

(* Mutant of apply_change: the lock of packed-refs does for every update. *)
apply_change_without_lock(t) ==
  LET e     == edit(t)
      old   == tx[t].existing
      write == e.change = "Update" /\ MustWrite(old, e.new, direct_to_packed_refs(t))
      keep  == e.change = "Delete" \/ write
  IN /\ At(t, "apply")
     /\ IF ~(IF e.change = "Delete" THEN MayDelete(e.expected, old)
             ELSE MayUpdate(e.expected, old, e.new))
          THEN Abort(t)
        ELSE /\ NextEdit(t)
             /\ locks' = IF keep \/ has_global_lock(t) THEN locks
                         ELSE [locks EXCEPT ![e.name] = NoTx]
             /\ UNCHANGED <<Store, packed_lock, lookup, given>>

apply_change(t) ==
  LET e     == edit(t)
      old   == tx[t].existing
      write == e.change = "Update" /\ MustWrite(old, e.new, direct_to_packed_refs(t))
      keep  == e.change = "Delete" \/ write
  IN /\ At(t, "apply")
     /\ IF ~(IF e.change = "Delete" THEN MayDelete(e.expected, old)
             ELSE MayUpdate(e.expected, old, e.new))
          THEN Abort(t)
        ELSE IF write /\ has_global_lock(t)
          THEN Goto(t, "obtain_lock") /\ UNCHANGED <<Store, locks, packed_lock, lookup, given>>
        ELSE /\ NextEdit(t)
             /\ locks' = IF keep \/ has_global_lock(t) THEN locks
                         ELSE [locks EXCEPT ![e.name] = NoTx]
             /\ UNCHANGED <<Store, packed_lock, lookup, given>>

obtain_lock(t) ==
  /\ At(t, "obtain_lock")
  /\ \/ /\ locks[name(t)] = NoTx
        /\ locks' = [locks EXCEPT ![name(t)] = t]
        /\ NextEdit(t)
        /\ UNCHANGED <<Store, packed_lock, lookup, given>>
     \/ lock_fails(t)

----------------------------------------------------------------------------
(* commit: three passes over the edits, and packed-refs before the last *)

delete_loose_refs(t) == direct_to_packed_refs(t)

Updates(t)   == {i \in 1..Len(edits(t)) : edits(t)[i].change = "Update"}
Deletions(t) == {i \in 1..Len(edits(t)) : edits(t)[i].change = "Delete"}

take_lock_and_delete(t) ==
  {i \in 1..Len(edits(t)) :
     /\ edits(t)[i].log = "AndReference"
     /\ \/ edits(t)[i].change = "Delete"
        \/ delete_loose_refs(t) /\ IsObject(edits(t)[i].new)}

From(S, i) == {j \in S : j >= i}
First(S)   == CHOOSE i \in S : \A j \in S : i <= j

(* Where the loops stand once everything before edit i is dealt with. *)
ThirdPass(t, i) ==
  LET todo == From(take_lock_and_delete(t), i)
  IN  IF todo = {} THEN <<"finish", 1>> ELSE <<"delete_ref", First(todo)>>

SecondPass(t, i) ==
  LET todo == From(Deletions(t), i)
  IN  IF todo # {} THEN <<"delete_reflog", First(todo)>>
      ELSE IF tx[t].packed_tx THEN <<"packed_commit", 1>>
      ELSE ThirdPass(t, 1)

FirstPass(t, i) ==
  LET todo == From(Updates(t), i)
  IN  IF todo = {} THEN SecondPass(t, 1) ELSE <<"reflog", First(todo)>>

Continue(t, place) == GotoEdit(t, place[1], place[2])

commit(t) ==
  /\ At(t, "prepared")
  /\ Continue(t, FirstPass(t, 1))
  /\ UNCHANGED <<Store, locks, packed_lock, lookup, given>>

rollback(t) == At(t, "prepared") /\ Abort(t)

(* Mutant of log_update: references without a previous value are not logged. *)
log_update_of_existing(e) ==
  LET previous == IF e.expected.is = "MustExistAndMatch" /\ IsObject(e.expected.value)
                    THEN e.expected.value ELSE e.leaf_referent_previous_oid
  IN  IF IsSymbolic(e.new) \/ previous \in {None, e.new}
        THEN <<>> ELSE <<[old |-> previous, new |-> e.new]>>

(* The entries commit_inner asks reflog_create_or_append to write: none for a
   symbolic target unless its object id is known, none without a change. *)
log_update(e) ==
  LET previous == IF e.expected.is = "MustExistAndMatch" /\ IsObject(e.expected.value)
                    THEN e.expected.value ELSE e.leaf_referent_previous_oid
  IN  IF IsSymbolic(e.new)
        THEN IF e.expected.is = "ExistingMustMatch" /\ IsObject(e.expected.value)
               THEN <<[old |-> None, new |-> e.expected.value]>> ELSE <<>>
        ELSE IF previous = e.new THEN <<>> ELSE <<[old |-> previous, new |-> e.new]>>

reflog_create_or_append(n, entries) ==
  IF entries = <<>> \/ (reflog[n] = None /\ n \notin AutoLog) THEN reflog
  ELSE [reflog EXCEPT ![n] = (IF @ = None THEN <<>> ELSE @) \o entries]

update_reflog(t) ==
  /\ At(t, "reflog")
  /\ reflog' = reflog_create_or_append(name(t), log_update(edit(t)))
  /\ IF delete_loose_refs(t) /\ IsObject(edit(t).new)
       THEN Continue(t, FirstPass(t, tx[t].at + 1))
       ELSE Goto(t, "commit_ref")
  /\ UNCHANGED <<loose, packed, locks, packed_lock, lookup, given>>

(* The lock becomes the reference, or is dropped if only the log changes. *)
update_ref(t) ==
  /\ At(t, "commit_ref")
  /\ Continue(t, FirstPass(t, tx[t].at + 1))
  /\ IF locks[name(t)] = t
       THEN /\ locks' = [locks EXCEPT ![name(t)] = NoTx]
            /\ loose' = IF edit(t).log = "Only" THEN loose
                        ELSE [loose EXCEPT ![name(t)] = edit(t).new]
       ELSE UNCHANGED <<locks, loose>>
  /\ UNCHANGED <<packed, reflog, packed_lock, lookup, given>>

delete_reflog(t) ==
  /\ At(t, "delete_reflog")
  /\ reflog' = [reflog EXCEPT ![name(t)] = None]
  /\ Continue(t, SecondPass(t, tx[t].at + 1))
  /\ UNCHANGED <<loose, packed, locks, packed_lock, lookup, given>>

(* Mutant of MergedPackedRefs: the entries without an edit are not copied. *)
MergedPackedRefs_without_buffer(t) ==
  [n \in Name |->
     LET mine == {i \in packed_edits(t) : edits(t)[i].name = n}
     IN  IF mine # {} THEN edits(t)[CHOOSE i \in mine : TRUE].new ELSE None]

(* The buffer as it was read, merged with the edits. *)
MergedPackedRefs(t) ==
  [n \in Name |->
     LET mine == {i \in packed_edits(t) : edits(t)[i].name = n}
     IN  IF mine # {} THEN edits(t)[CHOOSE i \in mine : TRUE].new
         ELSE IF tx[t].buffer = None THEN None
         ELSE tx[t].buffer[n]]

IsEmpty(file) == \A n \in Name : file[n] = None

packed_commit(t) ==
  /\ At(t, "packed_commit")
  /\ IF packed_edits(t) = {}
       THEN /\ packed_lock' = NoTx /\ UNCHANGED packed
            /\ Continue(t, ThirdPass(t, 1))
            /\ UNCHANGED <<loose, reflog, locks, lookup, given>>
     ELSE IF ~IsEmpty(MergedPackedRefs(t))
       THEN /\ packed' = MergedPackedRefs(t) /\ packed_lock' = NoTx
            /\ Continue(t, ThirdPass(t, 1))
            /\ UNCHANGED <<loose, reflog, locks, lookup, given>>
     ELSE IF packed = None
       THEN Abort(t)
     ELSE /\ packed' = None /\ Goto(t, "packed_unlock")
          /\ UNCHANGED <<loose, reflog, locks, packed_lock, lookup, given>>

packed_unlock(t) ==
  /\ At(t, "packed_unlock")
  /\ packed_lock' = NoTx
  /\ Continue(t, ThirdPass(t, 1))
  /\ UNCHANGED <<Store, locks, lookup, given>>

delete_ref(t) ==
  /\ At(t, "delete_ref")
  /\ loose' = [loose EXCEPT ![name(t)] = None]
  /\ Goto(t, "drop_lock")
  /\ UNCHANGED <<packed, reflog, locks, packed_lock, lookup, given>>

drop_lock(t) ==
  /\ At(t, "drop_lock")
  /\ locks' = [locks EXCEPT ![name(t)] = IF @ = t THEN NoTx ELSE @]
  /\ Continue(t, ThirdPass(t, tx[t].at + 1))
  /\ UNCHANGED <<Store, packed_lock, lookup, given>>

finish(t) ==
  /\ At(t, "finish")
  /\ End(t, "done")
  /\ DropLocks(t)
  /\ UNCHANGED <<Store, lookup, given>>

----------------------------------------------------------------------------
(* What may go wrong, and the readers *)

(* The errors the steps return besides those of locks: unreadable or
   unwritable files, a missing committer, an object that cannot be peeled. *)
io_error(t) ==
  /\ tx[t].pc \in {"packed_read", "packed_read_first", "read", "apply",
                   "reflog", "commit_ref", "delete_reflog", "packed_commit",
                   "delete_ref"}
  /\ Abort(t)

(* The process ends; the lock files go if a signal handler cleans up. *)
kill(t) ==
  /\ tx[t].pc \notin Ended \union {"idle"}
  /\ End(t, "killed")
  /\ DropLocks(t) \/ UNCHANGED <<locks, packed_lock>>
  /\ UNCHANGED <<Store, lookup, given>>

try_find(r) ==
  /\ lookup[r].pc = "idle"
  /\ \E n \in given.sought :
       lookup' = [lookup EXCEPT ![r] = [pc |-> "ref_contents", name |-> n,
                                        buffer |-> packed, found |-> None]]
  /\ UNCHANGED <<Store, locks, packed_lock, tx, given>>

(* Mutant of find_inner: packed-refs is not consulted. *)
find_inner_loose_only(r) ==
  /\ lookup[r].pc = "ref_contents"
  /\ lookup' = [lookup EXCEPT
       ![r].pc = "done", ![r].buffer = None,
       ![r].found = loose[lookup[r].name]]
  /\ UNCHANGED <<Store, locks, packed_lock, tx, given>>

find_inner(r) ==
  /\ lookup[r].pc = "ref_contents"
  /\ lookup' = [lookup EXCEPT
       ![r].pc = "done", ![r].buffer = None,
       ![r].found = Overlay(loose[lookup[r].name], lookup[r].buffer,
                            lookup[r].name)]
  /\ UNCHANGED <<Store, locks, packed_lock, tx, given>>

----------------------------------------------------------------------------
Init ==
  /\ given \in Scenario
  /\ loose = given.loose
  /\ packed = given.packed
  /\ reflog = [n \in Name |->
                 IF Overlay(loose[n], packed, n) # None /\ n \in AutoLog
                   THEN <<>> ELSE None]
  /\ locks = [n \in Name |-> NoTx]
  /\ packed_lock = NoTx
  /\ tx = [t \in Tx |-> Idle]
  /\ lookup = [r \in Reader |-> [pc |-> "idle", name |-> None,
                                 buffer |-> None, found |-> None]]

Prepare(t) ==
  \/ extend_with_splits_of_symbolic_refs(t)
  \/ assure_one_name_has_one_edit(t)
  \/ is_file(t) \/ lock_is_file(t) \/ packed_choice(t)
  \/ packed_transaction(t) \/ new_from_pack_and_lock(t)
  \/ assure_packed_refs_uptodate(t) \/ buffer_into_transaction(t)
  \/ read_existing(t) \/ lock_ref(t) \/ apply_change(t) \/ obtain_lock(t)

Commit(t) ==
  \/ update_reflog(t) \/ update_ref(t) \/ delete_reflog(t)
  \/ packed_commit(t) \/ packed_unlock(t)
  \/ delete_ref(t) \/ drop_lock(t) \/ finish(t)

Step(t) == Prepare(t) \/ commit(t) \/ rollback(t) \/ Commit(t)

Next ==
  \/ \E t \in Tx : start(t) \/ Step(t) \/ io_error(t) \/ kill(t)
  \/ \E r \in Reader : try_find(r) \/ find_inner(r)

Spec == Init /\ [][Next]_vars

(* A process that runs keeps running until its transaction is over. *)
FairSpec == Spec /\ \A t \in Tx : WF_vars(Step(t))

----------------------------------------------------------------------------
(* Properties *)

(* Every variable holds what the code's types allow: in particular the index
   of the edit at hand is one of the edits while a pass works on it. *)
TypeOK ==
  /\ loose \in [Name -> Target \union {None}]
  /\ packed \in PackedFile \union {None}
  /\ \A n \in Name : reflog[n] # None =>
       \A i \in 1..Len(reflog[n]) :
         reflog[n][i] \in LogEntry
  /\ locks \in [Name -> Tx \union {NoTx}]
  /\ packed_lock \in Tx \union {NoTx}
  /\ \A t \in Tx :
       /\ tx[t].pc \in PC /\ tx[t].packed_refs \in PackedRefs
       /\ \A i \in 1..Len(edits(t)) : edits(t)[i] \in Edit
       /\ tx[t].pc \in {"read", "lock", "apply", "obtain_lock", "reflog",
                        "commit_ref", "delete_reflog", "delete_ref", "drop_lock"}
            => tx[t].at \in 1..Len(edits(t))
       /\ tx[t].packed_tx \in BOOLEAN
       /\ tx[t].buffer \in PackedFile \union {None}
       /\ tx[t].existing \in Target \union {None}

Names(t, change) ==
  {edits(t)[i].name : i \in {j \in 1..Len(edits(t)) : edits(t)[j].change = change}}

NeverDeleted(n) == \A t \in Tx : n \notin Names(t, "Delete")

(* From prepare's end until it is made, an update has the lock that makes it:
   commit passes over one without a lock and reports success.  prepare leaves
   the lock out, or gives it back, only if the reference has the new value
   already, and if packed-refs, locked, is to hold it alone; what cannot be
   held there, as HEAD, is passed over then. *)
NoUpdateIsSkipped ==
  \A t \in Tx : tx[t].pc \in {"prepared", "reflog", "commit_ref"} =>
    \A i \in Updates(t) :
      LET e == edits(t)[i]
      IN  i >= tx[t].at /\ e.log = "AndReference" =>
            \/ locks[e.name] = t
            \/ previous_value(e) = e.new
            \/ /\ direct_to_packed_refs(t) /\ IsObject(e.new)
               /\ packed_lock = t \/ ~possibly_adjust_name_for_prefixes(e.name)

Has(file, n) == file # None /\ file[n] # None

Requests == UNION {given.request[t] : t \in Tx}

NobodyPrunes == \A r \in Requests : r.packed_refs # "RemoveLooseSourceReference"

NobodyDeletes ==
  \A r \in Requests : \A i \in 1..Len(r.edits) : r.edits[i].change = "Update"

PackedRefsUnused ==
  given.packed = None /\ \A r \in Requests : r.packed_refs = "DeletionsOnly"

(* While a transaction owns the lock of a reference, nobody else changes the
   reference file, as long as there is no packed-refs file whose lock would
   stand in for it: "transactions are prepared which is when other writers
   are prevented from changing them". *)
PreparedRefsAreFrozen ==
  [][\A t \in Tx, n \in Name :
       PackedRefsUnused /\ locks[n] = t /\ ~At(t, "killed") /\ loose'[n] # loose[n]
         => tx'[t] # tx[t]]_vars

(* When an update is about to replace a reference, the reference still has
   the value that was compared with the expected one in prepare. *)
SeesExpected(t) ==
  /\ At(t, "commit_ref") /\ edit(t).log = "AndReference"
  /\ locks[name(t)] = t
  /\ edit(t).expected.is = "MustExistAndMatch"
  => Value(name(t)) = edit(t).expected.value

CommitSeesExpected == \A t \in Tx : SeesExpected(t)

(* An existing packed-refs file makes every transaction on references that it
   can hold take its lock before values are compared, so that compare-and-swap
   works for these across processes as long as nobody deletes references or
   moves them into packed-refs. *)
PackedRefsSerialise ==
  given.packed # None /\ NobodyPrunes /\ NobodyDeletes =>
    \A t \in Tx :
      At(t, "commit_ref") /\ possibly_adjust_name_for_prefixes(name(t)) => SeesExpected(t)

(* A reference that nobody asked to delete can be found at all times, loose or
   packed, wherever transactions fail or die: packed-refs is written before
   the loose copy is removed.  Moving references into packed-refs loses them
   if they have no place there, as HEAD, or if somebody else deletes others
   with a copy of packed-refs that was read before it was locked. *)
RefNeverVanishes ==
  \A n \in Name :
    /\ Overlay(given.loose[n], given.packed, n) # None /\ NeverDeleted(n)
    /\ NobodyPrunes \/ (NobodyDeletes /\ possibly_adjust_name_for_prefixes(n))
    => Value(n) # None

(* The reflog is written first, then the reference: an object id that a
   transaction put into a reference with a reflog is in that reflog. *)
LogBeforeRef ==
  \A n \in AutoLog :
    IsObject(loose[n]) /\ loose[n] # given.loose[n] /\ NeverDeleted(n)
      => /\ reflog[n] # None
         /\ \E i \in 1..Len(reflog[n]) : reflog[n][i].new = loose[n]

(* The reflog goes before its reference: without packed-refs, whose lock would
   be released too early for this, a log without a reference is only seen
   while an update creates both, after that update was cut short, or for a
   symbolic reference that was split before somebody else deleted it. *)
NoLogWithoutRef ==
  \A n \in Name : PackedRefsUnused /\ reflog[n] # None /\ Value(n) = None =>
    \E t \in Tx :
      \/ n \in Names(t, "Update") /\ tx[t].pc \notin {"idle", "done"}
      \/ \E i \in 1..Len(edits(t)) : edits(t)[i].name = n /\ edits(t)[i].log = "Only"

(* Both: whoever reads a reference and its reflog finds them in step. *)
LogsMatchRefs == LogBeforeRef /\ NoLogWithoutRef

(* A lookup finds what exists and nobody deletes, also with a packed-refs
   snapshot that is older than the loose file.  It comes back empty only when
   references are moved into packed-refs meanwhile, after the snapshot and
   before the loose file is looked for; unless deletions undo the move, the
   reference is in packed-refs by then, and the next lookup finds it. *)
FindsExistingRefs ==
  \A r \in Reader :
    LET n == lookup[r].name
    IN  /\ lookup[r].pc = "done" /\ NeverDeleted(n)
        /\ Overlay(given.loose[n], given.packed, n) # None
        /\ lookup[r].found = None
        => /\ ~NobodyPrunes
           /\ NobodyDeletes /\ possibly_adjust_name_for_prefixes(n) => Has(packed, n)

(* A transaction that was started comes to an end and its locks with it, even
   when several wait for each other's locks, unless it cannot have the lock of
   a reference that a symbolic one was split into: then it never ends. *)
Terminates ==
  \A t \in Tx :
    ~At(t, "idle") ~>
      (tx[t].pc \in Ended \/ (At(t, "spins") /\ edit(t).parent_index # 0))

====
