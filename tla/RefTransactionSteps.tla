------------------------ MODULE RefTransactionSteps -------------------------
(***************************************************************************)
(* What every proof about RefTransaction needs, for any number of          *)
(* transactions, readers, references and edits, and for all requests that  *)
(* RefTransactionAssumption admits: the types, where the loops stand, and  *)
(* what each step of a transaction does to its own state and to the store. *)
(***************************************************************************)
EXTENDS RefTransaction, WellFoundedInduction, TLAPS

WellFormed == {e \in Edit : e.change = "Update" <=> e.new # None}

TxState == [pc: PC, packed_refs: PackedRefs, edits: Seq(WellFormed), at: Nat \ {0},
            packed_tx: BOOLEAN, buffer: PackedFile \union {None},
            existing: Target \union {None}]

\* The type invariant as the steps need it: TypeOK, and that edits are well-formed.
Types ==
  /\ given \in Scenario
  /\ loose \in [Name -> Target \union {None}]
  /\ packed \in PackedFile \union {None}
  /\ reflog \in [Name -> Seq(LogEntry) \union {None}]
  /\ locks \in [Name -> Tx \union {NoTx}]
  /\ packed_lock \in Tx \union {NoTx}
  /\ tx \in [Tx -> TxState]

OnAnEdit == {"read", "lock", "apply", "obtain_lock", "reflog", "commit_ref",
             "delete_reflog", "delete_ref", "drop_lock"}

Early == {"is_file", "lock_is_file", "packed_choice", "packed_lock", "packed_read",
          "packed_read_first", "packed_lock_late"}

\* The loops stand at an edit of the kind they are about.
Cursor(t) ==
  /\ tx[t].pc = "idle" <=> edits(t) = <<>>
  /\ tx[t].pc \in Early => tx[t].at = 1
  /\ tx[t].pc \in OnAnEdit => tx[t].at \in 1..Len(edits(t))
  /\ tx[t].pc \in {"reflog", "commit_ref"} => tx[t].at \in Updates(t)
  /\ tx[t].pc = "delete_reflog" => tx[t].at \in Deletions(t)
  /\ tx[t].pc \in {"delete_ref", "drop_lock"} => tx[t].at \in take_lock_and_delete(t)

----------------------------------------------------------------------------
(* The places the loops of commit go to *)

\* A set of indices has a first element.
LEMMA FirstExists ==
  ASSUME NEW n \in Nat, NEW S \in SUBSET (1..n), S # {}
  PROVE  First(S) \in S /\ \A j \in S : First(S) <= j
<1> DEFINE Less == {ss \in Nat \X Nat : ss[1] < ss[2]}
<1>1. OpToRel(<, Nat) = Less
    BY Zenon DEF OpToRel
<1>2. IsWellFoundedOn(Less, Nat)
    BY <1>1, NatLessThanWellFounded, Zenon
<1>3. S \subseteq Nat
    OBVIOUS
<1>4. PICK x \in S : \A y \in S : ~(<<y, x>> \in Less)
    BY <1>2, <1>3, WFMin, Zenon
<1>5. ASSUME NEW y \in S PROVE x <= y
    <2>1. y < x => <<y, x>> \in Less
        BY Zenon, <1>3
    <2>2. x \in Nat /\ y \in Nat
        BY Zenon, <1>3
    <2> HIDE DEF Less
    <2> QED
        BY <1>4, <2>1, <2>2
<1> QED
    BY Zenon, <1>5 DEF First

----------------------------------------------------------------------------
(* Types *)

Cursors == \A t \in Tx : Cursor(t)

\* Only the transaction that takes the step changes its state, to another one.
Others(t) == tx' \in [Tx -> TxState] /\ \A u \in Tx \ {t} : tx'[u] = tx[u]

LEMMA OneChanges ==
  ASSUME Types, NEW t \in Tx, NEW s \in TxState, tx' = [tx EXCEPT ![t] = s]
  PROVE  Others(t) /\ tx'[t] = s
BY Zenon DEF Types, Others

LEMMA IdleTypes == Idle \in TxState
BY DEF Idle, TxState, PC, PackedRefs

\* Nothing but the place changes.
Moved(t, pc, i) ==
  /\ tx'[t].pc = pc /\ tx'[t].at = i /\ tx'[t].edits = tx[t].edits
  /\ tx'[t].packed_refs = tx[t].packed_refs /\ tx'[t].packed_tx = tx[t].packed_tx
  /\ tx'[t].buffer = tx[t].buffer /\ tx'[t].existing = tx[t].existing

LEMMA GotoTypes ==
  ASSUME Types, NEW t \in Tx, NEW pc \in PC, NEW i \in Nat \ {0}, GotoEdit(t, pc, i)
  PROVE  Others(t) /\ Moved(t, pc, i)
<1> DEFINE r == [tx[t] EXCEPT !.pc = pc, !.at = i]
<1>1. r \in TxState
    BY ZenonT(60) DEF Types, TxState
<1>2. tx' = [tx EXCEPT ![t] = r]
    BY Zenon DEF Types, TxState, GotoEdit
<1> QED
    BY Zenon, <1>1, <1>2 DEF Types, TxState, Others, Moved

LEMMA GotoSameTypes ==
  ASSUME Types, NEW t \in Tx, NEW pc \in PC, Goto(t, pc)
  PROVE  Others(t) /\ Moved(t, pc, tx[t].at)
BY Zenon DEF Types, TxState, Goto, Others, Moved

LEMMA SeqOf ==
  ASSUME NEW S, NEW n \in Nat, NEW f, f = [j \in 1..n |-> f[j]], \A j \in 1..n : f[j] \in S
  PROVE  f \in Seq(S) /\ Len(f) = n
<1>1. f \in [1..n -> S]
    BY Zenon
<1> QED
    BY <1>1

LEMMA RequestTypes ==
  ASSUME Types, NEW t \in Tx, NEW r \in given.request[t]
  PROVE  r.edits \in Seq(WellFormed) /\ r.edits # <<>> /\ r.packed_refs \in PackedRefs
<1>1. /\ r.packed_refs \in PackedRefs /\ r.edits \in Seq(Edit) /\ r.edits # <<>>
      /\ \A i \in 1..Len(r.edits) : r.edits[i].change = "Update" <=> r.edits[i].new # None
    BY RefTransactionAssumption DEF RefTransactionAssumption, Types
<1>2. \A i \in 1..Len(r.edits) : r.edits[i] \in WellFormed
    BY <1>1 DEF WellFormed
<1> QED
    BY <1>1, <1>2

LEMMA SplitTypes ==
  ASSUME NEW es \in Seq(WellFormed), NEW i \in 1..Len(es), NEW referent \in Name
  PROVE  Split(es, i, referent) \in Seq(WellFormed) /\ Split(es, i, referent) # <<>>
<1> DEFINE parent == [es[i] EXCEPT !.deref = FALSE, !.log = "Only",
                        !.expected = IF es[i].change = "Update"
                                       THEN Expect("Any", None) ELSE es[i].expected]
           child  == [es[i] EXCEPT !.name = referent, !.parent_index = i]
<1>1. es[i] \in WellFormed /\ i \in Nat
    <2>1. Len(es) \in Nat
        OBVIOUS
    <2> QED
        BY <2>1
<1>2. Expect("Any", None) \in PreviousValue
    BY Zenon DEF Expect, PreviousValue
<1>3. parent \in WellFormed
    BY Zenon, <1>1, <1>2 DEF WellFormed, Edit
<1>4. child \in WellFormed
    BY Zenon, <1>1 DEF WellFormed, Edit
<1> HIDE DEF parent, child
<1>5. [es EXCEPT ![i] = parent] \in Seq(WellFormed)
    BY <1>3
<1>6. Append([es EXCEPT ![i] = parent], child) \in Seq(WellFormed)
      /\ Append([es EXCEPT ![i] = parent], child) # <<>>
    BY <1>4, <1>5
<1> QED
    BY Zenon, <1>6 DEF Split, parent, child

\* Recording what was seen keeps names and kinds.
LEMMA AppliedTypes ==
  ASSUME Types, NEW t \in Tx, tx[t].at \in 1..Len(edits(t))
  PROVE  /\ Applied(t) \in Seq(WellFormed) /\ Len(Applied(t)) = Len(edits(t))
         /\ \A j \in 1..Len(edits(t)) :
              /\ Applied(t)[j].name = edits(t)[j].name
              /\ Applied(t)[j].change = edits(t)[j].change
              /\ Applied(t)[j].log = edits(t)[j].log
              /\ Applied(t)[j].new = edits(t)[j].new
              /\ Applied(t)[j].parent_index = edits(t)[j].parent_index
              /\ Applied(t)[j].expected =
                   IF j = tx[t].at /\ tx[t].existing # None
                     THEN Expect("MustExistAndMatch", tx[t].existing) ELSE edits(t)[j].expected
              /\ \/ Applied(t)[j].leaf_referent_previous_oid = edits(t)[j].leaf_referent_previous_oid
                 \/ j \in Ancestors(edits(t), tx[t].at)
<1> DEFINE es   == edits(t)
           i    == tx[t].at
           seen == IF tx[t].existing = None THEN es[i]
                   ELSE [es[i] EXCEPT !.expected =
                                        Expect("MustExistAndMatch", tx[t].existing)]
           f(j) == IF j = i THEN seen
                   ELSE IF j \in Ancestors(es, i) /\ IsObject(previous_value(seen))
                     THEN [es[j] EXCEPT !.leaf_referent_previous_oid = previous_value(seen)]
                   ELSE es[j]
           Same(e, d) == /\ e.name = d.name /\ e.change = d.change /\ e.log = d.log /\ e.new = d.new
                         /\ e.parent_index = d.parent_index
<1>1. es \in Seq(WellFormed) /\ Len(es) \in Nat /\ tx[t].existing \in Target \union {None}
    BY DEF Types, TxState, edits
<1>2. /\ seen \in WellFormed /\ Same(seen, es[i])
      /\ seen.leaf_referent_previous_oid = es[i].leaf_referent_previous_oid
      /\ seen.expected = IF tx[t].existing # None THEN Expect("MustExistAndMatch", tx[t].existing)
                         ELSE es[i].expected
    <2>1. tx[t].existing # None => Expect("MustExistAndMatch", tx[t].existing) \in PreviousValue
        BY Zenon, <1>1 DEF Expect, PreviousValue
    <2>2. es[i] \in WellFormed
        BY <1>1
    <2> QED
        BY Zenon, <2>1, <2>2 DEF WellFormed, Edit
<1>3. ASSUME NEW j \in 1..Len(es)
      PROVE  /\ f(j) \in WellFormed /\ Same(f(j), es[j])
             /\ f(j).expected = IF j = i /\ tx[t].existing # None
                                  THEN Expect("MustExistAndMatch", tx[t].existing) ELSE es[j].expected
             /\ \/ f(j).leaf_referent_previous_oid = es[j].leaf_referent_previous_oid
                \/ j \in Ancestors(es, i)
    <2>1. es[j] \in WellFormed
        BY <1>1
    <2> HIDE DEF seen
    <2>2. IsObject(previous_value(seen)) =>
            /\ [es[j] EXCEPT !.leaf_referent_previous_oid = previous_value(seen)] \in WellFormed
            /\ Same([es[j] EXCEPT !.leaf_referent_previous_oid = previous_value(seen)], es[j])
            /\ [es[j] EXCEPT !.leaf_referent_previous_oid = previous_value(seen)].expected = es[j].expected
        BY Zenon, <2>1 DEF WellFormed, Edit, IsObject
    <2> QED
        BY Zenon, <1>2, <2>1, <2>2
<1>4. Applied(t) = [j \in 1..Len(es) |-> f(j)]
    BY Zenon DEF Applied
<1> HIDE DEF f
<1>5. /\ Applied(t) = [j \in 1..Len(es) |-> Applied(t)[j]]
      /\ \A j \in 1..Len(es) : Applied(t)[j] = f(j)
    BY Zenon, <1>4
<1>6. Applied(t) \in Seq(WellFormed) /\ Len(Applied(t)) = Len(es)
    BY <1>1, <1>3, <1>5, SeqOf
<1> QED
    BY <1>3, <1>5, <1>6

LEMMA NameOfEdit ==
  ASSUME Types, Cursors, NEW t \in Tx, tx[t].pc \in OnAnEdit
  PROVE  /\ edit(t) \in WellFormed /\ name(t) \in Name /\ tx[t].at \in 1..Len(edits(t))
         /\ edits(t) \in Seq(WellFormed) /\ Len(edits(t)) \in Nat
<1>1. edits(t) \in Seq(WellFormed) /\ tx[t].at \in 1..Len(edits(t))
    BY Zenon DEF Types, TxState, edits, Cursors, Cursor
<1>2. edits(t)[tx[t].at] \in WellFormed /\ Len(edits(t)) \in Nat
    BY <1>1
<1> QED
    BY Zenon, <1>1, <1>2 DEF edit, name, WellFormed, Edit

----------------------------------------------------------------------------
(* The passes of commit *)

\* The first of the edits in S from edit i on, or none.
FirstFrom(S, i, k) == k \in S /\ k >= i /\ \A j \in S : j >= i => k <= j

\* Where each pass goes from edit i.
ToThird(t, i, pc, k) ==
  \/ pc = "delete_ref" /\ FirstFrom(take_lock_and_delete(t), i, k)
  \/ pc = "finish" /\ k = 1 /\ \A j \in take_lock_and_delete(t) : j < i

ToSecond(t, i, pc, k) ==
  \/ pc = "delete_reflog" /\ FirstFrom(Deletions(t), i, k)
  \/ /\ \A j \in Deletions(t) : j < i
     /\ \/ pc = "packed_commit" /\ k = 1 /\ tx[t].packed_tx
        \/ ~tx[t].packed_tx /\ ToThird(t, 1, pc, k)

ToFirst(t, i, pc, k) ==
  \/ pc = "reflog" /\ FirstFrom(Updates(t), i, k)
  \/ (\A j \in Updates(t) : j < i) /\ ToSecond(t, 1, pc, k)

LEMMA FromFirst ==
  ASSUME NEW n \in Nat, NEW S \in SUBSET (1..n), NEW i \in Nat
  PROVE  /\ From(S, i) # {} => FirstFrom(S, i, First(From(S, i)))
         /\ From(S, i) = {} => \A j \in S : j < i
<1>1. From(S, i) \in SUBSET (1..n)
    BY Zenon DEF From
<1>2. ASSUME From(S, i) # {} PROVE FirstFrom(S, i, First(From(S, i)))
    <2>1. First(From(S, i)) \in From(S, i) /\ \A j \in From(S, i) : First(From(S, i)) <= j
        BY Zenon, <1>1, <1>2, FirstExists
    <2> QED
        BY Zenon, <2>1 DEF From, FirstFrom
<1>3. ASSUME From(S, i) = {} PROVE \A j \in S : j < i
    BY <1>3 DEF From
<1> QED
    BY Zenon, <1>2, <1>3

LEMMA ThirdTo ==
  ASSUME Types, NEW t \in Tx, NEW i \in Nat
  PROVE  ToThird(t, i, ThirdPass(t, i)[1], ThirdPass(t, i)[2])
<1> DEFINE S == take_lock_and_delete(t)
<1>1. S \in SUBSET (1..Len(edits(t))) /\ Len(edits(t)) \in Nat
    BY DEF Types, TxState, edits, take_lock_and_delete
<1> HIDE DEF S
<1>2. /\ From(S, i) # {} => FirstFrom(S, i, First(From(S, i)))
      /\ From(S, i) = {} => \A j \in S : j < i
    BY Zenon, <1>1, FromFirst
<1> QED
    BY Zenon, <1>2 DEF ToThird, ThirdPass, S

LEMMA SecondTo ==
  ASSUME Types, NEW t \in Tx, NEW i \in Nat
  PROVE  ToSecond(t, i, SecondPass(t, i)[1], SecondPass(t, i)[2])
<1> DEFINE S == Deletions(t)
<1>1. S \in SUBSET (1..Len(edits(t))) /\ Len(edits(t)) \in Nat
    BY DEF Types, TxState, edits, Deletions
<1> HIDE DEF S
<1>2. /\ From(S, i) # {} => FirstFrom(S, i, First(From(S, i)))
      /\ From(S, i) = {} => \A j \in S : j < i
    BY Zenon, <1>1, FromFirst
<1>3. ToThird(t, 1, ThirdPass(t, 1)[1], ThirdPass(t, 1)[2])
    BY Zenon, ThirdTo
<1> QED
    BY Zenon, <1>2, <1>3 DEF ToSecond, SecondPass, S

LEMMA FirstTo ==
  ASSUME Types, NEW t \in Tx, NEW i \in Nat
  PROVE  ToFirst(t, i, FirstPass(t, i)[1], FirstPass(t, i)[2])
<1> DEFINE S == Updates(t)
<1>1. S \in SUBSET (1..Len(edits(t))) /\ Len(edits(t)) \in Nat
    BY DEF Types, TxState, edits, Updates
<1> HIDE DEF S
<1>2. /\ From(S, i) # {} => FirstFrom(S, i, First(From(S, i)))
      /\ From(S, i) = {} => \A j \in S : j < i
    BY Zenon, <1>1, FromFirst
<1>3. ToSecond(t, 1, SecondPass(t, 1)[1], SecondPass(t, 1)[2])
    BY Zenon, SecondTo
<1> QED
    BY Zenon, <1>2, <1>3 DEF ToFirst, FirstPass, S

----------------------------------------------------------------------------
(* The steps of a transaction, as what they change.  Others(t) and UNCHANGED
   given and lookup go with each of them. *)

SameLocks == UNCHANGED <<locks, packed_lock>>

Begins(t) ==
  /\ tx[t].pc = "idle" /\ tx'[t].pc = "pre_process" /\ UNCHANGED Store /\ SameLocks
  /\ \E r \in given.request[t] : tx'[t].edits = r.edits /\ tx'[t].packed_refs = r.packed_refs
  /\ tx'[t].packed_tx = tx[t].packed_tx

\* One edit is looked at, and one may come after the last.
Splits(t) ==
  /\ tx[t].pc = "pre_process" /\ tx'[t].pc = "pre_process" /\ UNCHANGED Store /\ SameLocks
  /\ tx'[t].packed_tx = tx[t].packed_tx /\ tx'[t].packed_refs = tx[t].packed_refs
  /\ LET i == tx[t].at
     IN  /\ i \in 1..Len(edits(t))
         /\ \/ tx'[t].edits = edits(t)
            \/ tx'[t].edits = [edits(t) EXCEPT ![i] = [edits(t)[i] EXCEPT !.deref = FALSE]]
            \/ loose[name(t)] \in Name /\ tx'[t].edits = Split(edits(t), i, loose[name(t)])

Ends(t) ==
  /\ tx[t].pc # "idle" /\ tx'[t].pc \in Ended /\ UNCHANGED Store
  /\ tx'[t].edits = tx[t].edits /\ ~tx'[t].packed_tx /\ tx'[t].packed_refs = "DeletionsOnly"
  /\ tx'[t].pc = "done" => tx[t].pc = "finish"
  /\ DropLocks(t) \/ (tx'[t].pc = "killed" /\ SameLocks)

\* Steps that only look and go on
Goes(t, pc, i) ==
  /\ Moved(t, pc, i) /\ UNCHANGED Store /\ SameLocks
  /\ \/ tx[t].pc = "pre_process" /\ pc = "is_file" /\ i = 1 /\ OneNameHasOneEdit(edits(t))
     \/ /\ tx[t].pc = "is_file" /\ i = 1
        /\ \/ pc = "packed_choice" /\ (WithUpdates(t) \/ packed # None)
           \/ pc = "lock_is_file" /\ ~WithUpdates(t) /\ packed = None
     \/ /\ tx[t].pc = "lock_is_file" /\ i = 1
        /\ pc = IF packed_lock # NoTx THEN "packed_choice" ELSE "read"
     \/ /\ tx[t].pc = "packed_choice" /\ i = 1
        /\ \/ pc = "read" /\ ForPackedRefs(t) = {}
           \/ pc = "packed_lock" /\ ForPackedRefs(t) # {}
           \/ pc = "packed_read_first" /\ ForPackedRefs(t) # {} /\ PackedUpdates(t) = {}
     \/ tx[t].pc \in {"lock", "obtain_lock"} /\ pc = "spins"
     \/ /\ tx[t].pc = "apply" /\ pc = "obtain_lock" /\ i = tx[t].at /\ tx[t].packed_tx
        /\ edit(t).change = "Update" /\ MayUpdate(edit(t).expected, tx[t].existing, edit(t).new)
        /\ MustWrite(tx[t].existing, edit(t).new, direct_to_packed_refs(t))
     \/ tx[t].pc = "prepared" /\ ToFirst(t, 1, pc, i)

\* The lock of packed-refs is taken, before or after reading the file.
TakesPacked(t) ==
  /\ packed_lock = NoTx /\ packed_lock' = t /\ locks' = locks /\ UNCHANGED Store
  /\ tx'[t].edits = tx[t].edits /\ tx'[t].packed_refs = tx[t].packed_refs /\ tx'[t].at = 1
  /\ tx'[t].buffer = tx[t].buffer
  /\ \/ tx[t].pc = "packed_lock" /\ tx'[t].pc = "packed_read" /\ ~tx'[t].packed_tx
     \/ tx[t].pc = "packed_lock_late" /\ tx'[t].pc = "read" /\ tx'[t].packed_tx

ReadsPacked(t) ==
  /\ UNCHANGED Store /\ SameLocks
  /\ tx'[t].edits = tx[t].edits /\ tx'[t].packed_refs = tx[t].packed_refs /\ tx'[t].at = 1
  /\ tx'[t].buffer = packed
  /\ \/ tx[t].pc = "packed_read" /\ tx'[t].pc = "read" /\ tx'[t].packed_tx
     \/ /\ tx[t].pc = "packed_read_first" /\ tx'[t].packed_tx = tx[t].packed_tx
        /\ tx'[t].pc = IF packed = None THEN "read" ELSE "packed_lock_late"

Reads(t) ==
  /\ tx[t].pc = "read" /\ UNCHANGED Store /\ SameLocks
  /\ tx'[t].edits = tx[t].edits /\ tx'[t].packed_refs = tx[t].packed_refs /\ tx'[t].at = tx[t].at
  /\ tx'[t].buffer = tx[t].buffer /\ tx'[t].packed_tx = tx[t].packed_tx
  /\ tx'[t].pc = IF tx[t].packed_tx THEN "apply" ELSE "lock"
  /\ tx'[t].existing = Overlay(loose[name(t)], IF tx[t].packed_tx THEN tx[t].buffer ELSE None, name(t))

Takes(t) ==
  /\ tx[t].pc = "lock" /\ Moved(t, "apply", tx[t].at) /\ UNCHANGED <<Store, packed_lock>>
  /\ locks[name(t)] = NoTx /\ locks' = [locks EXCEPT ![name(t)] = t]

\* An edit is accepted: its lock is kept, not needed, taken only now or given back.
Accepts(t) ==
  /\ UNCHANGED <<Store, packed_lock>>
  /\ tx'[t].edits = Applied(t) /\ tx'[t].packed_tx = tx[t].packed_tx
  /\ tx'[t].packed_refs = tx[t].packed_refs /\ tx'[t].buffer = tx[t].buffer
  /\ \/ tx'[t].pc = "prepared" /\ tx[t].at = Len(edits(t)) /\ tx'[t].at = 1
     \/ tx'[t].pc = "read" /\ tx[t].at # Len(edits(t)) /\ tx'[t].at = tx[t].at + 1
  /\ tx[t].pc = "apply" => IF edit(t).change = "Delete" THEN MayDelete(edit(t).expected, tx[t].existing)
                            ELSE MayUpdate(edit(t).expected, tx[t].existing, edit(t).new)
  /\ LET writes == edit(t).change = "Update"
                     /\ MustWrite(tx[t].existing, edit(t).new, direct_to_packed_refs(t))
     IN  \/ /\ tx[t].pc = "apply" /\ locks' = locks
            /\ edit(t).change = "Delete" \/ tx[t].packed_tx \/ writes
            /\ ~(writes /\ tx[t].packed_tx)
         \/ /\ tx[t].pc = "apply" /\ locks' = [locks EXCEPT ![name(t)] = NoTx]
            /\ edit(t).change # "Delete" /\ ~tx[t].packed_tx /\ ~writes
         \/ /\ tx[t].pc = "obtain_lock" /\ locks[name(t)] = NoTx
            /\ locks' = [locks EXCEPT ![name(t)] = t]

Logs(t) ==
  /\ tx[t].pc = "reflog" /\ UNCHANGED <<loose, packed>> /\ SameLocks
  /\ reflog' = reflog_create_or_append(name(t), log_update(edit(t)))
  /\ IF delete_loose_refs(t) /\ IsObject(edit(t).new)
       THEN \E pc, k : ToFirst(t, tx[t].at + 1, pc, k) /\ Moved(t, pc, k)
       ELSE Moved(t, "commit_ref", tx[t].at)

Writes(t) ==
  /\ tx[t].pc = "commit_ref" /\ UNCHANGED <<packed, reflog, packed_lock>>
  /\ IF locks[name(t)] = t
       THEN /\ locks' = [locks EXCEPT ![name(t)] = NoTx]
            /\ loose' = IF edit(t).log = "Only" THEN loose
                        ELSE [loose EXCEPT ![name(t)] = edit(t).new]
       ELSE UNCHANGED <<locks, loose>>
  /\ \E pc, k : ToFirst(t, tx[t].at + 1, pc, k) /\ Moved(t, pc, k)

Unlogs(t) ==
  /\ tx[t].pc = "delete_reflog" /\ UNCHANGED <<loose, packed>> /\ SameLocks
  /\ reflog' = [reflog EXCEPT ![name(t)] = None]
  /\ \E pc, k : ToSecond(t, tx[t].at + 1, pc, k) /\ Moved(t, pc, k)

WritesPacked(t) ==
  /\ tx[t].pc = "packed_commit" /\ UNCHANGED <<loose, reflog, locks>>
  /\ \/ /\ packed_edits(t) = {} /\ packed' = packed /\ packed_lock' = NoTx
        /\ \E pc, k : ToThird(t, 1, pc, k) /\ Moved(t, pc, k)
     \/ /\ packed_edits(t) # {} /\ packed' = MergedPackedRefs(t) /\ packed_lock' = NoTx
        /\ \E pc, k : ToThird(t, 1, pc, k) /\ Moved(t, pc, k)
     \/ /\ packed_edits(t) # {} /\ IsEmpty(MergedPackedRefs(t)) /\ packed # None
        /\ packed' = None /\ packed_lock' = packed_lock /\ Moved(t, "packed_unlock", tx[t].at)

UnlocksPacked(t) ==
  /\ tx[t].pc = "packed_unlock" /\ UNCHANGED <<Store, locks>> /\ packed_lock' = NoTx
  /\ \E pc, k : ToThird(t, 1, pc, k) /\ Moved(t, pc, k)

Deletes(t) ==
  /\ tx[t].pc = "delete_ref" /\ UNCHANGED <<packed, reflog>> /\ SameLocks
  /\ loose' = [loose EXCEPT ![name(t)] = None] /\ Moved(t, "drop_lock", tx[t].at)

Drops(t) ==
  /\ tx[t].pc = "drop_lock" /\ UNCHANGED <<Store, packed_lock>>
  /\ locks' = [locks EXCEPT ![name(t)] = IF @ = t THEN NoTx ELSE @]
  /\ \E pc, k : ToThird(t, tx[t].at + 1, pc, k) /\ Moved(t, pc, k)

Effect(t) ==
  \/ Begins(t) \/ Splits(t) \/ Ends(t) \/ (\E pc, i : Goes(t, pc, i))
  \/ TakesPacked(t) \/ ReadsPacked(t) \/ Reads(t) \/ Takes(t) \/ Accepts(t)
  \/ Logs(t) \/ Writes(t) \/ Unlogs(t) \/ WritesPacked(t) \/ UnlocksPacked(t)
  \/ Deletes(t) \/ Drops(t)

LEMMA SplitStep ==
  ASSUME Types, Cursors, NEW t \in Tx, extend_with_splits_of_symbolic_refs(t), ~Abort(t)
  PROVE  Others(t) /\ Splits(t)
<1> DEFINE i == tx[t].at
<1>1. tx[t].pc = "pre_process" /\ i \in 1..Len(edits(t)) /\ edits(t) \in Seq(WellFormed) /\ i + 1 \in Nat \ {0}
    <2>1. /\ tx[t].pc = "pre_process" /\ i <= Len(edits(t)) /\ i \in Nat \ {0}
          /\ edits(t) \in Seq(WellFormed)
        BY Zenon DEF extend_with_splits_of_symbolic_refs, At, Types, TxState, edits
    <2> QED
        BY <2>1
<1>2. UNCHANGED Store /\ SameLocks
    BY Zenon DEF extend_with_splits_of_symbolic_refs, Store, SameLocks
<1>3. ASSUME NEW es \in Seq(WellFormed), tx' = [tx EXCEPT ![t].edits = es, ![t].at = i + 1]
      PROVE  /\ Others(t) /\ tx'[t].pc = "pre_process" /\ tx'[t].edits = es
             /\ tx'[t].packed_tx = tx[t].packed_tx /\ tx'[t].packed_refs = tx[t].packed_refs
    <2> DEFINE s == [tx[t] EXCEPT !.edits = es, !.at = i + 1]
    <2>1. /\ s \in TxState /\ s.pc = "pre_process" /\ s.edits = es
          /\ s.packed_tx = tx[t].packed_tx /\ s.packed_refs = tx[t].packed_refs
        BY ZenonT(60), <1>1 DEF Types, TxState
    <2>2. tx' = [tx EXCEPT ![t] = s]
        BY Zenon, <1>3 DEF Types, TxState
    <2> HIDE DEF s
    <2> QED
        BY Zenon, <2>1, <2>2, OneChanges
<1>4. CASE GotoEdit(t, "pre_process", i + 1)
    <2>1. Others(t) /\ Moved(t, "pre_process", i + 1)
        BY Zenon, <1>1, <1>4, GotoTypes DEF PC, Preparing
    <2> QED
        BY Zenon, <1>1, <1>2, <2>1 DEF Splits, Moved, edits
<1>5. CASE tx' = [tx EXCEPT ![t].edits[i].deref = FALSE, ![t].at = i + 1]
    <2> DEFINE es == [edits(t) EXCEPT ![i] = [edits(t)[i] EXCEPT !.deref = FALSE]]
    <2>1. tx' = [tx EXCEPT ![t].edits = es, ![t].at = i + 1]
        BY Zenon, <1>5 DEF edits, Types, TxState
    <2>2. es \in Seq(WellFormed)
        <3>1. edits(t)[i] \in WellFormed
            BY <1>1
        <3>2. [edits(t)[i] EXCEPT !.deref = FALSE] \in WellFormed
            BY Zenon, <3>1 DEF WellFormed, Edit
        <3> QED
            BY <1>1, <3>2
    <2>3. /\ Others(t) /\ tx'[t].pc = "pre_process" /\ tx'[t].edits = es
          /\ tx'[t].packed_tx = tx[t].packed_tx /\ tx'[t].packed_refs = tx[t].packed_refs
        BY Zenon, <1>3, <2>1, <2>2
    <2> QED
        BY Zenon, <1>1, <1>2, <2>3 DEF Splits
<1>6. CASE /\ IsSymbolic(loose[name(t)])
           /\ tx' = [tx EXCEPT ![t].edits = Split(@, i, loose[name(t)]), ![t].at = i + 1]
    <2> DEFINE es == Split(edits(t), i, loose[name(t)])
    <2>1. tx' = [tx EXCEPT ![t].edits = es, ![t].at = i + 1]
        BY Zenon, <1>6 DEF edits, Types, TxState
    <2>2. es \in Seq(WellFormed)
        BY Zenon, <1>1, <1>6, SplitTypes DEF IsSymbolic
    <2> HIDE DEF es
    <2>3. /\ Others(t) /\ tx'[t].pc = "pre_process" /\ tx'[t].edits = es
          /\ tx'[t].packed_tx = tx[t].packed_tx /\ tx'[t].packed_refs = tx[t].packed_refs
        BY Zenon, <1>3, <2>1, <2>2
    <2> QED
        BY Zenon, <1>1, <1>2, <1>6, <2>3 DEF Splits, es, IsSymbolic
<1> QED
    BY Zenon, <1>4, <1>5, <1>6 DEF extend_with_splits_of_symbolic_refs

LEMMA EndStep ==
  ASSUME Types, Cursors, NEW t \in Tx, tx[t].pc # "idle", NEW pc \in Ended, End(t, pc), UNCHANGED Store,
         pc = "done" => tx[t].pc = "finish", DropLocks(t) \/ (pc = "killed" /\ SameLocks)
  PROVE  Others(t) /\ Ends(t)
<1> DEFINE s == [Idle EXCEPT !.pc = pc, !.edits = edits(t)]
<1>1. /\ s.packed_refs = "DeletionsOnly" /\ ~s.packed_tx /\ s.pc = pc /\ s.edits = edits(t)
    BY Zenon DEF Idle
<1>2. s \in TxState
    BY Zenon, IdleTypes DEF Types, TxState, edits, PC
<1> HIDE DEF s
<1>3. Others(t) /\ tx'[t] = s
    BY Zenon, <1>2, OneChanges DEF End, s
<1> QED
    BY Zenon, <1>1, <1>3 DEF Ends, edits

LEMMA AbortStep ==
  ASSUME Types, Cursors, NEW t \in Tx, tx[t].pc # "idle", Abort(t)
  PROVE  Others(t) /\ Ends(t) /\ UNCHANGED <<lookup, given>>
BY Zenon, EndStep DEF Abort, Ended, Store

LEMMA ToPlace ==
  ASSUME Types, NEW t \in Tx, NEW i \in Nat, NEW pc, NEW k,
         ToFirst(t, i, pc, k) \/ ToSecond(t, i, pc, k) \/ ToThird(t, i, pc, k)
  PROVE  pc \in Pass /\ k \in Nat \ {0}
<1>1. Updates(t) \union Deletions(t) \union take_lock_and_delete(t) \subseteq Nat \ {0}
    BY DEF Updates, Deletions, take_lock_and_delete, Types, TxState, edits
<1>2. 1 \in Nat \ {0}
    OBVIOUS
<1> QED
    BY Zenon, <1>1, <1>2 DEF ToFirst, ToSecond, ToThird, FirstFrom, Pass

LEMMA ContinueMoves ==
  ASSUME Types, NEW t \in Tx, NEW i \in Nat
  PROVE  /\ Continue(t, FirstPass(t, i)) =>
              Others(t) /\ \E pc, k : ToFirst(t, i, pc, k) /\ Moved(t, pc, k)
         /\ Continue(t, SecondPass(t, i)) =>
              Others(t) /\ \E pc, k : ToSecond(t, i, pc, k) /\ Moved(t, pc, k)
         /\ Continue(t, ThirdPass(t, i)) =>
              Others(t) /\ \E pc, k : ToThird(t, i, pc, k) /\ Moved(t, pc, k)
<1>1. ASSUME NEW p, p[1] \in Pass, p[2] \in Nat \ {0}, Continue(t, p)
      PROVE  Others(t) /\ Moved(t, p[1], p[2])
    BY Zenon, <1>1, GotoTypes DEF Continue, PC
<1>2. ToFirst(t, i, FirstPass(t, i)[1], FirstPass(t, i)[2])
    BY Zenon, FirstTo
<1>3. ToSecond(t, i, SecondPass(t, i)[1], SecondPass(t, i)[2])
    BY Zenon, SecondTo
<1>4. ToThird(t, i, ThirdPass(t, i)[1], ThirdPass(t, i)[2])
    BY Zenon, ThirdTo
<1> QED
    BY Zenon, <1>1, <1>2, <1>3, <1>4, ToPlace

LEMMA PrepareEffect ==
  ASSUME Types, Cursors, NEW t \in Tx,
         \/ extend_with_splits_of_symbolic_refs(t) \/ assure_one_name_has_one_edit(t)
         \/ is_file(t) \/ lock_is_file(t) \/ packed_choice(t)
         \/ packed_transaction(t) \/ new_from_pack_and_lock(t)
         \/ assure_packed_refs_uptodate(t) \/ buffer_into_transaction(t)
  PROVE  Others(t) /\ UNCHANGED <<lookup, given>> /\ Effect(t)
<1>1. tx[t].pc # "idle" /\ (tx[t].pc \in Early => tx[t].at = 1)
    BY Zenon DEF Prepare, extend_with_splits_of_symbolic_refs, assure_one_name_has_one_edit, is_file,
         lock_is_file, packed_choice, packed_transaction, new_from_pack_and_lock,
         assure_packed_refs_uptodate, buffer_into_transaction, At, Cursors, Cursor
<1>2. CASE Abort(t)
    BY Zenon, <1>1, <1>2, AbortStep DEF Effect
<1>3. CASE extend_with_splits_of_symbolic_refs(t) /\ ~Abort(t)
    <2>1. UNCHANGED <<lookup, given>>
        BY Zenon, <1>3 DEF extend_with_splits_of_symbolic_refs
    <2> QED
        BY Zenon, <1>3, <2>1, SplitStep DEF Effect
<1>4. CASE assure_one_name_has_one_edit(t) /\ ~Abort(t)
    <2>1. /\ tx[t].pc = "pre_process" /\ OneNameHasOneEdit(edits(t)) /\ GotoEdit(t, "is_file", 1)
          /\ UNCHANGED <<Store, locks, packed_lock, lookup, given>>
        BY Zenon, <1>4 DEF assure_one_name_has_one_edit, At
    <2>2. Others(t) /\ Moved(t, "is_file", 1)
        BY <2>1, GotoTypes DEF PC, Preparing
    <2>3. Goes(t, "is_file", 1)
        BY Zenon, <2>1, <2>2 DEF Goes, SameLocks
    <2> QED
        BY Zenon, <2>1, <2>2, <2>3 DEF Effect
<1>5. CASE is_file(t) \/ lock_is_file(t) \/ packed_choice(t)
    <2>1. PICK pc \in {"packed_choice", "lock_is_file", "read", "packed_lock", "packed_read_first"} :
            /\ Goto(t, pc) /\ UNCHANGED <<Store, locks, packed_lock, lookup, given>>
            /\ \/ /\ tx[t].pc = "is_file"
                  /\ \/ pc = "packed_choice" /\ (WithUpdates(t) \/ packed # None)
                     \/ pc = "lock_is_file" /\ ~WithUpdates(t) /\ packed = None
               \/ /\ tx[t].pc = "lock_is_file"
                  /\ pc = IF packed_lock # NoTx THEN "packed_choice" ELSE "read"
               \/ /\ tx[t].pc = "packed_choice"
                  /\ \/ pc = "read" /\ ForPackedRefs(t) = {}
                     \/ pc = "packed_lock" /\ ForPackedRefs(t) # {}
                     \/ pc = "packed_read_first" /\ ForPackedRefs(t) # {} /\ PackedUpdates(t) = {}
        BY Zenon, <1>5 DEF is_file, lock_is_file, packed_choice, At
    <2>2. Others(t) /\ Moved(t, pc, tx[t].at)
        BY Zenon, <2>1, GotoSameTypes DEF PC, Preparing
    <2>3. tx[t].at = 1
        BY Zenon, <1>1, <2>1 DEF Early
    <2>4. Goes(t, pc, tx[t].at)
        BY Zenon, <2>1, <2>2, <2>3 DEF Goes, SameLocks
    <2> QED
        BY Zenon, <2>1, <2>2, <2>4 DEF Effect
<1>6. CASE (packed_transaction(t) \/ buffer_into_transaction(t)) /\ ~Abort(t)
    <2>1. PICK next \in {"read", "packed_read"} :
            /\ packed_lock = NoTx /\ packed_lock' = t
            /\ tx' = [tx EXCEPT ![t].pc = next, ![t].packed_tx = (next = "read")]
            /\ UNCHANGED <<Store, locks, lookup, given>>
            /\ \/ tx[t].pc = "packed_lock" /\ next = "packed_read"
               \/ tx[t].pc = "packed_lock_late" /\ next = "read"
        BY Zenon, <1>6 DEF packed_transaction, buffer_into_transaction, acquire_packed_lock, At
    <2>2. /\ Others(t) /\ tx'[t].pc = next /\ tx'[t].packed_tx = (next = "read") /\ tx'[t].at = tx[t].at
          /\ tx'[t].edits = tx[t].edits /\ tx'[t].packed_refs = tx[t].packed_refs
          /\ tx'[t].buffer = tx[t].buffer
        <3> DEFINE b == (next = "read")
                   s == [tx[t] EXCEPT !.pc = next, !.packed_tx = b]
        <3>1. /\ s \in TxState /\ s.pc = next /\ s.packed_tx = b /\ s.at = tx[t].at
              /\ s.edits = tx[t].edits /\ s.packed_refs = tx[t].packed_refs /\ s.buffer = tx[t].buffer
            BY ZenonT(60) DEF Types, TxState, PC, Preparing
        <3>2. tx' = [tx EXCEPT ![t] = s]
            BY Zenon, <2>1 DEF Types, TxState
        <3> HIDE DEF s
        <3> QED
            BY Zenon, <3>1, <3>2, OneChanges
    <2>3. TakesPacked(t)
        BY Zenon, <1>1, <2>1, <2>2 DEF TakesPacked, Early
    <2> QED
        BY Zenon, <2>1, <2>2, <2>3 DEF Effect
<1>7. CASE new_from_pack_and_lock(t) \/ assure_packed_refs_uptodate(t)
    <2>1. /\ Others(t) /\ tx'[t].at = tx[t].at
          /\ tx'[t].edits = tx[t].edits /\ tx'[t].packed_refs = tx[t].packed_refs
          /\ tx'[t].buffer = packed
          /\ \/ tx[t].pc = "packed_read" /\ tx'[t].pc = "read" /\ tx'[t].packed_tx
             \/ /\ tx[t].pc = "packed_read_first" /\ tx'[t].packed_tx = tx[t].packed_tx
                /\ tx'[t].pc = IF packed = None THEN "read" ELSE "packed_lock_late"
        <3>1. packed \in PackedFile \union {None}
            BY Zenon DEF Types
        <3>2. CASE new_from_pack_and_lock(t)
            <4> DEFINE s == [tx[t] EXCEPT !.pc = "read", !.packed_tx = TRUE, !.buffer = packed]
            <4>1. /\ s \in TxState /\ s.pc = "read" /\ s.packed_tx /\ s.at = tx[t].at
                  /\ s.edits = tx[t].edits /\ s.packed_refs = tx[t].packed_refs /\ s.buffer = packed
                BY ZenonT(60), <3>1 DEF Types, TxState, PC, Preparing
            <4>2. tx' = [tx EXCEPT ![t] = s]
                BY Zenon, <3>2 DEF new_from_pack_and_lock, Types, TxState
            <4> HIDE DEF s
            <4> QED
                BY Zenon, <3>2, <4>1, <4>2, OneChanges DEF new_from_pack_and_lock, At
        <3>3. CASE assure_packed_refs_uptodate(t)
            <4> DEFINE pc == IF packed = None THEN "read" ELSE "packed_lock_late"
                       s  == [tx[t] EXCEPT !.pc = pc, !.buffer = packed]
            <4>1. tx' = [tx EXCEPT ![t] = s]
                BY Zenon, <3>3 DEF assure_packed_refs_uptodate, Types, TxState
            <4>2. pc \in PC
                BY Zenon DEF PC, Preparing
            <4> HIDE DEF pc
            <4>3. /\ s \in TxState /\ s.pc = pc /\ s.packed_tx = tx[t].packed_tx /\ s.at = tx[t].at
                  /\ s.edits = tx[t].edits /\ s.packed_refs = tx[t].packed_refs /\ s.buffer = packed
                BY ZenonT(60), <3>1, <4>2 DEF Types, TxState
            <4> HIDE DEF s
            <4> QED
                BY Zenon, <3>3, <4>1, <4>3, OneChanges DEF assure_packed_refs_uptodate, At, pc
        <3> QED
            BY Zenon, <1>7, <3>2, <3>3
    <2>2. ReadsPacked(t) /\ UNCHANGED <<lookup, given>>
        BY Zenon, <1>1, <1>7, <2>1 DEF ReadsPacked, Early, SameLocks, new_from_pack_and_lock,
           assure_packed_refs_uptodate
    <2> QED
        BY Zenon, <2>1, <2>2 DEF Effect
<1> QED
    BY Zenon, <1>2, <1>3, <1>4, <1>5, <1>6, <1>7
LEMMA LockFailsEffect ==
  ASSUME Types, Cursors, NEW t \in Tx, tx[t].pc \in {"lock", "obtain_lock"}, lock_fails(t)
  PROVE  Others(t) /\ UNCHANGED <<lookup, given>> /\ Effect(t)
<1>1. CASE Abort(t)
    BY Zenon, <1>1, AbortStep DEF Effect
<1>2. CASE Goto(t, "spins") /\ UNCHANGED <<Store, locks, packed_lock, lookup, given>>
    <2>1. Others(t) /\ Moved(t, "spins", tx[t].at)
        BY Zenon, <1>2, GotoSameTypes DEF PC
    <2>2. Goes(t, "spins", tx[t].at)
        BY Zenon, <1>2, <2>1 DEF Goes, SameLocks
    <2> QED
        BY Zenon, <1>2, <2>1, <2>2 DEF Effect
<1> QED
    BY Zenon, <1>1, <1>2 DEF lock_fails

LEMMA NextEditEffect ==
  ASSUME Types, Cursors, NEW t \in Tx, tx[t].pc \in OnAnEdit, NextEdit(t)
  PROVE  /\ Others(t) /\ tx'[t].edits = Applied(t) /\ tx'[t].packed_tx = tx[t].packed_tx
         /\ tx'[t].packed_refs = tx[t].packed_refs /\ tx'[t].buffer = tx[t].buffer
         /\ \/ tx'[t].pc = "prepared" /\ tx[t].at = Len(edits(t)) /\ tx'[t].at = 1
            \/ tx'[t].pc = "read" /\ tx[t].at # Len(edits(t)) /\ tx'[t].at = tx[t].at + 1
<1> DEFINE last == tx[t].at = Len(edits(t))
           pc == IF last THEN "prepared" ELSE "read"
           i  == IF last THEN 1 ELSE tx[t].at + 1
           es == Applied(t)
           s  == [tx[t] EXCEPT !.edits = es, !.existing = None, !.pc = pc, !.at = i]
<1>1. tx' = [tx EXCEPT ![t] = s]
    BY Zenon DEF NextEdit, Types, TxState
<1> HIDE DEF es
<1>2. tx[t].at \in 1..Len(edits(t)) /\ Len(edits(t)) \in Nat
    BY Zenon, NameOfEdit
<1>3. es \in Seq(WellFormed) /\ pc \in PC /\ i \in Nat \ {0}
    BY <1>2, AppliedTypes DEF es, PC, Preparing
<1>4. /\ s \in TxState /\ s.pc = pc /\ s.at = i /\ s.edits = es /\ s.packed_tx = tx[t].packed_tx
      /\ s.packed_refs = tx[t].packed_refs /\ s.buffer = tx[t].buffer
    BY ZenonT(60), <1>3 DEF Types, TxState
<1> HIDE DEF s
<1>5. Others(t) /\ tx'[t] = s
    BY Zenon, <1>1, <1>4, OneChanges
<1> QED
    BY Zenon, <1>4, <1>5 DEF es

LEMMA ApplyEffect ==
  ASSUME Types, Cursors, NEW t \in Tx,
         read_existing(t) \/ lock_ref(t) \/ apply_change(t) \/ obtain_lock(t)
  PROVE  Others(t) /\ UNCHANGED <<lookup, given>> /\ Effect(t)
<1>1. tx[t].pc \in OnAnEdit /\ tx[t].pc # "idle"
    BY Zenon DEF read_existing, lock_ref, apply_change, obtain_lock, At, OnAnEdit
<1>2. CASE Abort(t)
    BY Zenon, <1>1, <1>2, AbortStep DEF Effect
<1>3. CASE read_existing(t)
    <2>1. /\ Others(t) /\ tx[t].pc = "read" /\ tx'[t].at = tx[t].at
          /\ tx'[t].edits = tx[t].edits /\ tx'[t].packed_refs = tx[t].packed_refs
          /\ tx'[t].buffer = tx[t].buffer /\ tx'[t].packed_tx = tx[t].packed_tx
          /\ tx'[t].pc = IF tx[t].packed_tx THEN "apply" ELSE "lock"
          /\ tx'[t].existing =
               Overlay(loose[name(t)], IF tx[t].packed_tx THEN tx[t].buffer ELSE None, name(t))
        <3> DEFINE pc == IF tx[t].packed_tx THEN "apply" ELSE "lock"
                   e  == Overlay(loose[name(t)], IF tx[t].packed_tx THEN tx[t].buffer ELSE None, name(t))
                   s  == [tx[t] EXCEPT !.existing = e, !.pc = pc]
        <3>1. tx[t].pc = "read" /\ name(t) \in Name
            BY Zenon, <1>1, <1>3, NameOfEdit DEF read_existing, At
        <3>2. e \in Target \union {None}
            <4>1. loose[name(t)] \in Target \union {None} /\ tx[t].buffer \in PackedFile \union {None}
                BY Zenon, <3>1 DEF Types, TxState
            <4>2. tx[t].buffer # None => tx[t].buffer[name(t)] \in Oid \union {None}
                BY Zenon, <3>1, <4>1 DEF PackedFile
            <4> QED
                BY Zenon, <4>1, <4>2 DEF Overlay, Target
        <3>3. tx' = [tx EXCEPT ![t] = s]
            BY Zenon, <1>3 DEF read_existing, has_global_lock, Types, TxState
        <3> HIDE DEF e
        <3>4. /\ s \in TxState /\ s.pc = pc /\ s.existing = e /\ s.at = tx[t].at
              /\ s.edits = tx[t].edits /\ s.packed_refs = tx[t].packed_refs
              /\ s.buffer = tx[t].buffer /\ s.packed_tx = tx[t].packed_tx
            BY ZenonT(60), <3>2 DEF Types, TxState, PC, Preparing
        <3> HIDE DEF s
        <3> QED
            BY Zenon, <3>1, <3>3, <3>4, OneChanges DEF e
    <2>2. Reads(t) /\ UNCHANGED <<lookup, given>>
        BY Zenon, <1>3, <2>1 DEF Reads, SameLocks, read_existing
    <2> QED
        BY Zenon, <2>1, <2>2 DEF Effect
<1>4. CASE lock_ref(t) /\ ~lock_fails(t)
    <2>1. /\ tx[t].pc = "lock" /\ locks[name(t)] = NoTx /\ locks' = [locks EXCEPT ![name(t)] = t]
          /\ Goto(t, "apply") /\ UNCHANGED <<Store, packed_lock, lookup, given>>
        BY Zenon, <1>4 DEF lock_ref, At
    <2>2. Others(t) /\ Moved(t, "apply", tx[t].at)
        BY Zenon, <2>1, GotoSameTypes DEF PC, Preparing
    <2>3. Takes(t)
        BY Zenon, <2>1, <2>2 DEF Takes
    <2> QED
        BY Zenon, <2>1, <2>2, <2>3 DEF Effect
<1>5. CASE apply_change(t) /\ ~Abort(t)
    <2> DEFINE writes == edit(t).change = "Update"
                           /\ MustWrite(tx[t].existing, edit(t).new, direct_to_packed_refs(t))
    <2>0. edit(t).change \in {"Update", "Delete"}
        BY Zenon, <1>1, NameOfEdit DEF WellFormed, Edit
    <2>1. CASE writes /\ tx[t].packed_tx
        <3>1. /\ tx[t].pc = "apply" /\ Goto(t, "obtain_lock")
              /\ MayUpdate(edit(t).expected, tx[t].existing, edit(t).new)
              /\ UNCHANGED <<Store, locks, packed_lock, lookup, given>>
            BY Zenon, <1>5, <2>0, <2>1 DEF apply_change, has_global_lock, At
        <3>2. Others(t) /\ Moved(t, "obtain_lock", tx[t].at)
            BY Zenon, <3>1, GotoSameTypes DEF PC, Preparing
        <3>3. Goes(t, "obtain_lock", tx[t].at)
            BY Zenon, <2>1, <3>1, <3>2 DEF Goes, SameLocks
        <3> QED
            BY Zenon, <3>1, <3>2, <3>3 DEF Effect
    <2>2. CASE ~(writes /\ tx[t].packed_tx)
        <3>1. /\ tx[t].pc = "apply" /\ NextEdit(t) /\ UNCHANGED <<Store, packed_lock, lookup, given>>
              /\ locks' = IF edit(t).change = "Delete" \/ writes \/ tx[t].packed_tx THEN locks
                          ELSE [locks EXCEPT ![name(t)] = NoTx]
              /\ IF edit(t).change = "Delete" THEN MayDelete(edit(t).expected, tx[t].existing)
                 ELSE MayUpdate(edit(t).expected, tx[t].existing, edit(t).new)
            BY Zenon, <1>5, <2>2 DEF apply_change, has_global_lock, At, name
        <3>2. Accepts(t) /\ Others(t)
            BY Zenon, <1>1, <2>2, <3>1, NextEditEffect DEF Accepts
        <3> QED
            BY Zenon, <3>1, <3>2 DEF Effect
    <2> QED
        BY Zenon, <2>1, <2>2
<1>6. CASE obtain_lock(t) /\ ~lock_fails(t)
    <2>1. /\ tx[t].pc = "obtain_lock" /\ locks[name(t)] = NoTx /\ locks' = [locks EXCEPT ![name(t)] = t]
          /\ NextEdit(t) /\ UNCHANGED <<Store, packed_lock, lookup, given>>
        BY Zenon, <1>6 DEF obtain_lock, At
    <2>2. Accepts(t) /\ Others(t)
        BY Zenon, <1>1, <2>1, NextEditEffect DEF Accepts
    <2> QED
        BY Zenon, <2>1, <2>2 DEF Effect
<1> QED
    BY Zenon, <1>2, <1>3, <1>4, <1>5, <1>6, LockFailsEffect DEF lock_ref, obtain_lock, At

LEMMA CommitEffect ==
  ASSUME Types, Cursors, NEW t \in Tx, commit(t) \/ rollback(t) \/ Commit(t)
  PROVE  Others(t) /\ UNCHANGED <<lookup, given>> /\ Effect(t)
<1>1. tx[t].pc # "idle" /\ tx[t].at + 1 \in Nat
    BY SMTT(60) DEF commit, rollback, Commit, update_reflog, update_ref, delete_reflog, packed_commit,
           packed_unlock, delete_ref, drop_lock, finish, At, Types, TxState
<1>2. CASE Abort(t)
    BY Zenon, <1>1, <1>2, AbortStep DEF Effect
<1>3. CASE commit(t)
    <2>1. PICK pc, k : Others(t) /\ ToFirst(t, 1, pc, k) /\ Moved(t, pc, k)
        BY Zenon, <1>3, ContinueMoves DEF commit
    <2>2. Goes(t, pc, k)
        BY Zenon, <1>3, <2>1 DEF Goes, SameLocks, commit, At
    <2> QED
        BY Zenon, <1>3, <2>1, <2>2 DEF Effect, commit
<1>4. CASE update_reflog(t)
    <2>1. CASE delete_loose_refs(t) /\ IsObject(edit(t).new)
        <3>1. Others(t) /\ \E pc, k : ToFirst(t, tx[t].at + 1, pc, k) /\ Moved(t, pc, k)
            BY Zenon, <1>1, <1>4, <2>1, ContinueMoves DEF update_reflog
        <3>2. Logs(t)
            BY Zenon, <1>4, <2>1, <3>1 DEF Logs, SameLocks, update_reflog, At
        <3> QED
            BY Zenon, <1>4, <3>1, <3>2 DEF Effect, update_reflog
    <2>2. CASE ~(delete_loose_refs(t) /\ IsObject(edit(t).new))
        <3>1. Others(t) /\ Moved(t, "commit_ref", tx[t].at)
            BY Zenon, <1>4, <2>2, GotoSameTypes DEF update_reflog, PC, Pass
        <3>2. Logs(t)
            BY Zenon, <1>4, <2>2, <3>1 DEF Logs, SameLocks, update_reflog, At
        <3> QED
            BY Zenon, <1>4, <3>1, <3>2 DEF Effect, update_reflog
    <2> QED
        BY Zenon, <2>1, <2>2
<1>5. CASE update_ref(t)
    <2>1. Others(t) /\ \E pc, k : ToFirst(t, tx[t].at + 1, pc, k) /\ Moved(t, pc, k)
        BY Zenon, <1>1, <1>5, ContinueMoves DEF update_ref
    <2>2. Writes(t)
        BY Zenon, <1>5, <2>1 DEF Writes, update_ref, At
    <2> QED
        BY Zenon, <1>5, <2>1, <2>2 DEF Effect, update_ref
<1>6. CASE delete_reflog(t)
    <2>1. Others(t) /\ \E pc, k : ToSecond(t, tx[t].at + 1, pc, k) /\ Moved(t, pc, k)
        BY Zenon, <1>1, <1>6, ContinueMoves DEF delete_reflog
    <2>2. Unlogs(t)
        BY Zenon, <1>6, <2>1 DEF Unlogs, SameLocks, delete_reflog, At
    <2> QED
        BY Zenon, <1>6, <2>1, <2>2 DEF Effect, delete_reflog
<1>7. CASE packed_commit(t) /\ ~Abort(t)
    <2>1. CASE Continue(t, ThirdPass(t, 1))
        <3>1. Others(t) /\ \E pc, k : ToThird(t, 1, pc, k) /\ Moved(t, pc, k)
            BY Zenon, <2>1, ContinueMoves
        <3>2. CASE Goto(t, "packed_unlock")
            <4>1. Moved(t, "packed_unlock", tx[t].at)
                BY Zenon, <3>2, GotoSameTypes DEF PC, Pass
            <4> QED
                BY Zenon, <3>1, <4>1 DEF Moved, ToThird
        <3>3. CASE ~Goto(t, "packed_unlock")
            <4>1. WritesPacked(t) /\ UNCHANGED <<lookup, given>>
                BY Zenon, <1>7, <3>1, <3>3 DEF WritesPacked, packed_commit, At
            <4> QED
                BY Zenon, <3>1, <4>1 DEF Effect
        <3> QED
            BY Zenon, <3>2, <3>3
    <2>2. CASE ~Continue(t, ThirdPass(t, 1))
        <3>1. Others(t) /\ Moved(t, "packed_unlock", tx[t].at)
            BY Zenon, <1>7, <2>2, GotoSameTypes DEF packed_commit, PC, Pass
        <3>2. WritesPacked(t) /\ UNCHANGED <<lookup, given>>
            BY ZenonT(60), <1>7, <2>2, <3>1 DEF WritesPacked, packed_commit, At
        <3> QED
            BY Zenon, <3>1, <3>2 DEF Effect
    <2> QED
        BY Zenon, <2>1, <2>2
<1>8. CASE packed_unlock(t)
    <2>1. Others(t) /\ \E pc, k : ToThird(t, 1, pc, k) /\ Moved(t, pc, k)
        BY Zenon, <1>8, ContinueMoves DEF packed_unlock
    <2>2. UnlocksPacked(t)
        BY Zenon, <1>8, <2>1 DEF UnlocksPacked, packed_unlock, At
    <2> QED
        BY Zenon, <1>8, <2>1, <2>2 DEF Effect, packed_unlock
<1>9. CASE delete_ref(t)
    <2>1. Others(t) /\ Moved(t, "drop_lock", tx[t].at)
        BY Zenon, <1>9, GotoSameTypes DEF delete_ref, PC, Pass
    <2>2. Deletes(t)
        BY Zenon, <1>9, <2>1 DEF Deletes, SameLocks, delete_ref, At
    <2> QED
        BY Zenon, <1>9, <2>1, <2>2 DEF Effect, delete_ref
<1>10. CASE drop_lock(t)
    <2>1. Others(t) /\ \E pc, k : ToThird(t, tx[t].at + 1, pc, k) /\ Moved(t, pc, k)
        BY Zenon, <1>1, <1>10, ContinueMoves DEF drop_lock
    <2>2. Drops(t)
        BY Zenon, <1>10, <2>1 DEF Drops, drop_lock, At
    <2> QED
        BY Zenon, <1>10, <2>1, <2>2 DEF Effect, drop_lock
<1>11. CASE finish(t)
    <2>1. Others(t) /\ Ends(t)
        BY Zenon, <1>1, <1>11, EndStep DEF finish, At, Ended
    <2> QED
        BY Zenon, <1>11, <2>1 DEF Effect, finish
<1> QED
    BY ZenonT(60), <1>2, <1>3, <1>4, <1>5, <1>6, <1>7, <1>8, <1>9, <1>10, <1>11 DEF Commit, rollback

(***************************************************************************)
(* Every step of a transaction is one of these.                            *)
(***************************************************************************)
LEMMA StepEffect ==
  ASSUME Types, Cursors, NEW t \in Tx, start(t) \/ Step(t) \/ io_error(t) \/ kill(t)
  PROVE  Others(t) /\ UNCHANGED <<lookup, given>> /\ Effect(t)
<1>1. CASE start(t)
    <2>1. PICK r \in given.request[t] :
            tx' = [tx EXCEPT ![t].pc = "pre_process", ![t].edits = r.edits,
                             ![t].packed_refs = r.packed_refs]
        BY Zenon, <1>1 DEF start
    <2>2. /\ Others(t) /\ tx'[t].pc = "pre_process" /\ tx'[t].edits = r.edits
          /\ tx'[t].packed_refs = r.packed_refs /\ tx'[t].packed_tx = tx[t].packed_tx
        <3> DEFINE s == [tx[t] EXCEPT !.pc = "pre_process", !.edits = r.edits,
                                      !.packed_refs = r.packed_refs]
        <3>1. /\ s \in TxState /\ s.pc = "pre_process" /\ s.edits = r.edits
              /\ s.packed_refs = r.packed_refs /\ s.packed_tx = tx[t].packed_tx
            BY ZenonT(60), RequestTypes DEF Types, TxState, PC, Preparing
        <3>2. tx' = [tx EXCEPT ![t] = s]
            BY Zenon, <2>1 DEF Types, TxState
        <3> HIDE DEF s
        <3> QED
            BY ZenonT(60), <3>1, <3>2, OneChanges
    <2>3. Begins(t)
        BY Zenon, <1>1, <2>2 DEF Begins, SameLocks, start, At
    <2> QED
        BY Zenon, <1>1, <2>2, <2>3 DEF Effect, start
<1>2. CASE io_error(t)
    BY Zenon, <1>2, AbortStep DEF io_error, Effect
<1>3. CASE kill(t)
    <2>1. Others(t) /\ Ends(t)
        BY Zenon, <1>3, EndStep DEF kill, Ended, SameLocks
    <2> QED
        BY Zenon, <1>3, <2>1 DEF Effect, kill
<1> QED
    BY ZenonT(60), <1>1, <1>2, <1>3, PrepareEffect, ApplyEffect, CommitEffect DEF Step, Prepare
=============================================================================
