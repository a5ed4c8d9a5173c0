--------------------------- MODULE LockFileProofs ---------------------------
(***************************************************************************)
(* Proofs about LockFile, for any number of threads, processes, resources  *)
(* and values, and for every assignment of handler modes.                  *)
(***************************************************************************)
EXTENDS LockFile, TLAPS

\* A registry slot only exists while its handle is not being operated on.
SlotOnlyWhenHeld == \A t \in Thread : entry[t] # "absent" => pc[t] = "held"

\* The inductive invariant: OwnerHasLock, and what a new acquisition relies on.
IInv == TypeOK /\ SlotOnlyWhenHeld /\ OwnerHasLock

\* A live thread that has a lock file on disk knows of it, and of no other.
OnlyOwnLocks ==
    \A t \in Thread, r \in Resource :
        lock[r] = t /\ pc[t] # "dead" => OwnsFile(t) /\ target[t] = r

\* What was due for cleanup is gone, or the handler still has it to come.
DueIsGone ==
    \A t \in due : PidOf[t] \notin missed =>
        \/ handler[PidOf[t]] = "sweeping" /\ Registered(t)
        \/ \A r \in Resource : lock[r] # t

\* The inductive invariant of the cleanup.
CInv == IInv /\ OnlyOwnLocks /\ DueIsGone

(***************************************************************************)
(* Type correctness: the variables keep their types in every step of a     *)
(* thread and of a signal handler.                                         *)
(***************************************************************************)
LEMMA TypeStep == TypeOK /\ [Next]_vars => TypeOK'
<1> SUFFICES ASSUME TypeOK, [Next]_vars PROVE TypeOK'
    OBVIOUS
<1> USE LockFileAssumption
<1>1. CASE UNCHANGED vars
    BY <1>1 DEF TypeOK, vars
<1>2. ASSUME NEW t \in Thread, ThreadStep(t) PROVE TypeOK'
    <2>1. ASSUME NEW r \in Resource, NEW k \in Kind, NEW n \in 0..MaxWaits, acquire(t, r, k, n)
          PROVE  TypeOK'
        BY <2>1 DEF TypeOK, acquire, Goto, disk, history, Location, Kind
    <2>2. CASE create_lock(t)
        BY <2>2 DEF TypeOK, create_lock, Goto, Location
    <2>3. CASE retry_lock(t)
        BY <2>3 DEF TypeOK, retry_lock, Leave, Goto, disk, history, Location, Kind
    <2>4. CASE fail_lock(t)
        BY <2>4 DEF TypeOK, fail_lock, Leave, Goto, disk, history, Location, Kind
    <2>5. CASE register(t)
        BY <2>5 DEF TypeOK, register, insert, Stay, Goto, disk, history, Location, Slot
    <2>6. CASE with_mut_remove(t)
        BY <2>6 DEF TypeOK, with_mut_remove, remove, Stay, Goto, disk, history, Location, Slot
    <2>7. ASSUME NEW v \in Value, with_mut_insert(t, v) PROVE TypeOK'
        BY <2>7 DEF TypeOK, with_mut_insert, insert, Goto, disk, history, Location, Slot
    <2>8. CASE close_remove(t)
        BY <2>8 DEF TypeOK, close_remove, remove, Stay, Leave, Goto, disk, history, Location, Slot, Kind
    <2>9. CASE close_insert(t)
        BY <2>9 DEF TypeOK, close_insert, insert, Goto, disk, history, Location, Slot, Kind
    <2>10. CASE persist_remove(t)
        BY <2>10 DEF TypeOK, persist_remove, remove, Stay, Leave, Goto, disk, history, Location, Slot, Kind
    <2>11. CASE persist_rename(t)
        <3>1. draft[lock[target[t]]] \in Value
            BY <2>11 DEF TypeOK, persist_rename
        <3> QED
            BY <2>11, <3>1 DEF TypeOK, persist_rename, Leave, Goto, history, Location, Kind
    <2>12. CASE persist_failed(t)
        BY <2>12 DEF TypeOK, persist_failed, insert, Stay, Goto, disk, history, Location, Slot
    <2>13. CASE drop_remove(t)
        BY <2>13 DEF TypeOK, drop_remove, remove, Stay, Leave, Goto, disk, history, Location, Slot, Kind
    <2>14. CASE drop_impl(t)
        BY <2>14 DEF TypeOK, drop_impl, Leave, Goto, history, Location, Kind
    <2> QED
        BY <1>2, <2>1, <2>2, <2>3, <2>4, <2>5, <2>6, <2>7, <2>8, <2>9, <2>10,
           <2>11, <2>12, <2>13, <2>14 DEF ThreadStep
<1>3. ASSUME NEW d \in Pid, ProcessStep(d) PROVE TypeOK'
    <2>1. CASE signal_sweeps(d)
        BY <2>1 DEF TypeOK, signal_sweeps, InRegistry, Threads, disk
    <2>2. CASE sweep_done(d)
        BY <2>2 DEF TypeOK, sweep_done, disk, history
    <2>3. CASE handler_returns(d)
        BY <2>3 DEF TypeOK, handler_returns, End, disk, history, Location, Slot
    <2>4. CASE kill(d)
        BY <2>4 DEF TypeOK, kill, End, Threads, disk, Location, Slot
    <2>5. ASSUME NEW t \in Thread, signal_misses(d, t) PROVE TypeOK'
        BY <2>5 DEF TypeOK, signal_misses, InRegistry, Threads, disk
    <2>6. ASSUME NEW t \in Thread, drop_without_deallocation(d, t) PROVE TypeOK'
        BY <2>6 DEF TypeOK, drop_without_deallocation, history, Slot
    <2> QED
        BY <1>3, <2>1, <2>2, <2>3, <2>4, <2>5, <2>6 DEF ProcessStep
<1> QED
    BY <1>1, <1>2, <1>3 DEF Next

LEMMA InitIInv == Init => IInv
<1> SUFFICES ASSUME Init PROVE IInv
    OBVIOUS
<1>1. TypeOK
    BY LockFileAssumption DEF Init, TypeOK, Location, Kind, Slot
<1> QED
    BY <1>1 DEF IInv, Init, SlotOnlyWhenHeld, OwnerHasLock, OwnsFile, Registered

(***************************************************************************)
(* Every step keeps the lock file of each owner in its place.  What makes  *)
(* it work: a thread that changes a lock file by path owns it, and owners  *)
(* differ; a new lock file is only created where there is none.            *)
(***************************************************************************)
LEMMA OwnerStep == IInv /\ [Next]_vars => SlotOnlyWhenHeld' /\ OwnerHasLock'
<1> SUFFICES ASSUME IInv, [Next]_vars PROVE SlotOnlyWhenHeld' /\ OwnerHasLock'
    OBVIOUS
<1> USE LockFileAssumption DEF IInv, SlotOnlyWhenHeld, OwnerHasLock, OwnsFile, Registered
<1>1. CASE UNCHANGED vars
    BY <1>1 DEF vars
<1>2. ASSUME NEW t \in Thread, ThreadStep(t) PROVE SlotOnlyWhenHeld' /\ OwnerHasLock'
    <2>1. ASSUME NEW r \in Resource, NEW k \in Kind, NEW n \in 0..MaxWaits, acquire(t, r, k, n)
          PROVE  SlotOnlyWhenHeld' /\ OwnerHasLock'
        BY <2>1 DEF TypeOK, acquire, Goto, disk, history
    <2>2. CASE create_lock(t)
        BY <2>2 DEF TypeOK, create_lock, Goto
    <2>3. CASE retry_lock(t)
        BY <2>3 DEF TypeOK, retry_lock, Leave, Goto, disk
    <2>4. CASE fail_lock(t)
        BY <2>4 DEF TypeOK, fail_lock, Leave, Goto, disk
    <2>5. CASE register(t)
        BY <2>5 DEF TypeOK, register, insert, Goto, disk
    <2>6. CASE with_mut_remove(t)
        BY <2>6 DEF TypeOK, with_mut_remove, remove, Goto, disk
    <2>7. ASSUME NEW v \in Value, with_mut_insert(t, v) PROVE SlotOnlyWhenHeld' /\ OwnerHasLock'
        BY <2>7 DEF TypeOK, with_mut_insert, insert, Goto, disk
    <2>8. CASE close_remove(t)
        BY <2>8 DEF TypeOK, close_remove, remove, Leave, Goto, disk
    <2>9. CASE close_insert(t)
        BY <2>9 DEF TypeOK, close_insert, insert, Goto, disk
    <2>10. CASE persist_remove(t)
        BY <2>10 DEF TypeOK, persist_remove, remove, Leave, Goto, disk
    <2>11. CASE persist_rename(t)
        BY <2>11 DEF TypeOK, persist_rename, Leave, Goto
    <2>12. CASE persist_failed(t)
        BY <2>12 DEF TypeOK, persist_failed, insert, Goto, disk
    <2>13. CASE drop_remove(t)
        BY <2>13 DEF TypeOK, drop_remove, remove, Leave, Goto, disk
    <2>14. CASE drop_impl(t)
        BY <2>14 DEF TypeOK, drop_impl, Leave, Goto
    <2> QED
        BY <1>2, <2>1, <2>2, <2>3, <2>4, <2>5, <2>6, <2>7, <2>8, <2>9, <2>10,
           <2>11, <2>12, <2>13, <2>14 DEF ThreadStep
<1>3. ASSUME NEW d \in Pid, ProcessStep(d) PROVE SlotOnlyWhenHeld' /\ OwnerHasLock'
    <2>1. CASE signal_sweeps(d)
        BY <2>1 DEF signal_sweeps, disk
    <2>2. CASE sweep_done(d)
        BY <2>2 DEF sweep_done, disk
    <2>3. CASE handler_returns(d)
        BY <2>3 DEF TypeOK, handler_returns, End, disk
    <2>4. CASE kill(d)
        BY <2>4 DEF TypeOK, kill, End, disk
    <2>5. ASSUME NEW t \in Thread, signal_misses(d, t) PROVE SlotOnlyWhenHeld' /\ OwnerHasLock'
        BY <2>5 DEF signal_misses, disk
    <2>6. ASSUME NEW t \in Thread, drop_without_deallocation(d, t)
          PROVE  SlotOnlyWhenHeld' /\ OwnerHasLock'
        BY <2>6 DEF TypeOK, drop_without_deallocation
    <2> QED
        BY <1>3, <2>1, <2>2, <2>3, <2>4, <2>5, <2>6 DEF ProcessStep
<1> QED
    BY <1>1, <1>2, <1>3 DEF Next

\* IInv is inductive, hence an invariant.
LEMMA Inductive == Spec => []IInv
<1>1. IInv /\ [Next]_vars => IInv'
    BY TypeStep, OwnerStep DEF IInv
<1> QED
    BY <1>1, InitIInv, PTL DEF Spec

(***************************************************************************)
(* In every behaviour, whatever signals arrive and processes die: who is   *)
(* about to write, rename or delete a lock file by path finds its own file *)
(* there (handle.rs at_path, with_mut, close, persist, drop; registry.rs). *)
(***************************************************************************)
THEOREM LockOwnership == Spec => []OwnerHasLock
BY Inductive, PTL DEF IInv

\* The types of all variables are kept by all handlers and operations.
THEOREM TypeCorrect == Spec => []TypeOK
BY Inductive, PTL DEF IInv

(***************************************************************************)
(* Only the rename of a thread that owns the lock of a resource changes    *)
(* its content, and to what that thread has written (gix-lock commit.rs).  *)
(***************************************************************************)
THEOREM OwnerOverwrites == Spec => OnlyOwnerOverwrites
<1> DEFINE A == \A r \in Resource : resource'[r] # resource[r] =>
                  \E t \in Thread : /\ pc[t] = "persisting" /\ target[t] = r /\ lock[r] = t
                                    /\ resource'[r] = draft[t]
<1>1. IInv /\ [Next]_vars => [A]_vars
    <2> SUFFICES ASSUME IInv, Next, NEW r \in Resource, resource'[r] # resource[r]
                 PROVE  \E t \in Thread : /\ pc[t] = "persisting" /\ target[t] = r /\ lock[r] = t
                                          /\ resource'[r] = draft[t]
        OBVIOUS
    <2>1. PICK t \in Thread : persist_rename(t)
        BY SMTT(60) DEF Next, ThreadStep, ProcessStep, acquire, create_lock, retry_lock, fail_lock,
               register, with_mut_remove, with_mut_insert, close_remove, close_insert,
               persist_remove, persist_failed, drop_remove, drop_impl, signal_sweeps,
               sweep_done, handler_returns, kill, End, signal_misses,
               drop_without_deallocation, disk
    <2>2. target[t] = r /\ lock[r] = t
        BY <2>1 DEF persist_rename, IInv, TypeOK, OwnerHasLock, OwnsFile
    <2> QED
        BY <2>1, <2>2 DEF persist_rename, IInv, TypeOK
<1> QED
    BY <1>1, Inductive, PTL DEF Spec, OnlyOwnerOverwrites

(***************************************************************************)
(* The file-based lock implements the abstract one, with the creator of    *)
(* the lock file as the holder.                                            *)
(***************************************************************************)
THEOREM Refinement == Spec => ImplementsAtomicLock
<1>1. Init => Abstract!Init
    BY LockFileAssumption DEF Init, Abstract!Init
<1>2. IInv /\ [Next]_vars => [Abstract!Next]_(Abstract!vars)
    <2> SUFFICES ASSUME IInv, [Next]_vars PROVE Abstract!Next \/ UNCHANGED Abstract!vars
        OBVIOUS
    <2> USE DEF Abstract!vars
    <2>1. CASE UNCHANGED vars
        BY <2>1 DEF vars
    <2>2. ASSUME NEW t \in Thread, ThreadStep(t)
          PROVE  Abstract!Next \/ UNCHANGED Abstract!vars
        <3>1. CASE create_lock(t)
            <4>1. Abstract!Acquire(t, target[t])
                BY <3>1 DEF create_lock, Abstract!Acquire
            <4> QED
                BY <4>1 DEF Abstract!Next, IInv, TypeOK
        <3>2. CASE persist_rename(t)
            <4>1. lock[target[t]] = t
                BY <3>2 DEF persist_rename, IInv, OwnerHasLock, OwnsFile
            <4>2. Abstract!Overwrite(t, target[t], draft[t])
                BY <3>2, <4>1 DEF persist_rename, Abstract!Overwrite
            <4> QED
                BY <4>2 DEF Abstract!Next, IInv, TypeOK
        <3>3. CASE drop_impl(t)
            <4>1. Abstract!Release(t, target[t])
                BY <3>3 DEF drop_impl, IInv, OwnerHasLock, OwnsFile, Abstract!Release
            <4> QED
                BY <4>1 DEF Abstract!Next, IInv, TypeOK
        <3> QED
            BY <2>2, <3>1, <3>2, <3>3
            DEF ThreadStep, acquire, retry_lock, fail_lock, register, with_mut_remove,
                with_mut_insert, close_remove, close_insert, persist_remove, persist_failed,
                drop_remove, disk
    <2>3. ASSUME NEW d \in Pid, ProcessStep(d)
          PROVE  Abstract!Next \/ UNCHANGED Abstract!vars
        <3>1. ASSUME NEW t \in Thread, drop_without_deallocation(d, t) PROVE Abstract!Next
            <4>1. Abstract!Release(t, target[t])
                BY <3>1 DEF drop_without_deallocation, IInv, OwnerHasLock, OwnsFile, Abstract!Release
            <4> QED
                BY <4>1 DEF Abstract!Next, IInv, TypeOK
        <3> QED
            BY <2>3, <3>1
            DEF ProcessStep, signal_sweeps, sweep_done, handler_returns, kill, End,
                signal_misses, disk
    <2> QED
        BY <2>1, <2>2, <2>3 DEF Next
<1> QED
    BY <1>1, <1>2, Inductive, PTL DEF Spec, ImplementsAtomicLock, Abstract!Spec

(***************************************************************************)
(* Every step keeps the promise of the handler.  While the handler has the *)
(* registry, no operation can take a registered tempfile out of it; before *)
(* and after, a lock file created anew is not due.                         *)
(***************************************************************************)
LEMMA CleanupStep == CInv /\ [Next]_vars => OnlyOwnLocks' /\ DueIsGone'
<1> SUFFICES ASSUME CInv, [Next]_vars PROVE OnlyOwnLocks' /\ DueIsGone'
    OBVIOUS
<1> USE LockFileAssumption
    DEF CInv, IInv, SlotOnlyWhenHeld, OwnerHasLock, OwnsFile, Registered, OnlyOwnLocks, DueIsGone
<1>1. CASE UNCHANGED vars
    BY <1>1 DEF vars
<1>2. ASSUME NEW t \in Thread, ThreadStep(t) PROVE OnlyOwnLocks' /\ DueIsGone'
    <2>1. ASSUME NEW r \in Resource, NEW k \in Kind, NEW n \in 0..MaxWaits, acquire(t, r, k, n)
          PROVE  OnlyOwnLocks' /\ DueIsGone'
        BY <2>1 DEF TypeOK, acquire, Goto, disk, history
    <2>2. CASE create_lock(t)
        BY <2>2 DEF TypeOK, create_lock, Goto
    <2>3. CASE retry_lock(t)
        BY <2>3 DEF TypeOK, retry_lock, Leave, Goto, disk, history
    <2>4. CASE fail_lock(t)
        BY <2>4 DEF TypeOK, fail_lock, Leave, Goto, disk, history
    <2>5. CASE register(t)
        BY <2>5 DEF TypeOK, register, insert, RegistryFree, Goto, disk, history
    <2>6. CASE with_mut_remove(t)
        BY <2>6 DEF TypeOK, with_mut_remove, remove, RegistryFree, Goto, disk, history
    <2>7. ASSUME NEW v \in Value, with_mut_insert(t, v) PROVE OnlyOwnLocks' /\ DueIsGone'
        BY <2>7 DEF TypeOK, with_mut_insert, insert, RegistryFree, Goto, disk, history
    <2>8. CASE close_remove(t)
        BY <2>8 DEF TypeOK, close_remove, remove, RegistryFree, Leave, Goto, disk, history
    <2>9. CASE close_insert(t)
        BY <2>9 DEF TypeOK, close_insert, insert, RegistryFree, Goto, disk, history
    <2>10. CASE persist_remove(t)
        BY <2>10 DEF TypeOK, persist_remove, remove, RegistryFree, Leave, Goto, disk, history
    <2>11. CASE persist_rename(t)
        BY <2>11 DEF TypeOK, persist_rename, Leave, Goto, history
    <2>12. CASE persist_failed(t)
        BY <2>12 DEF TypeOK, persist_failed, insert, RegistryFree, Goto, disk, history
    <2>13. CASE drop_remove(t)
        BY <2>13 DEF TypeOK, drop_remove, remove, RegistryFree, Leave, Goto, disk, history
    <2>14. CASE drop_impl(t)
        BY <2>14 DEF TypeOK, drop_impl, Leave, Goto, history
    <2> QED
        BY <1>2, <2>1, <2>2, <2>3, <2>4, <2>5, <2>6, <2>7, <2>8, <2>9, <2>10,
           <2>11, <2>12, <2>13, <2>14 DEF ThreadStep
<1>3. ASSUME NEW d \in Pid, ProcessStep(d) PROVE OnlyOwnLocks' /\ DueIsGone'
    <2>1. CASE signal_sweeps(d)
        BY <2>1 DEF TypeOK, signal_sweeps, Handles, InRegistry, Threads, disk
    <2>2. CASE sweep_done(d)
        BY <2>2 DEF TypeOK, sweep_done, Threads, disk, history
    <2>3. CASE handler_returns(d)
        BY <2>3 DEF TypeOK, handler_returns, End, disk, history
    <2>4. CASE kill(d)
        BY <2>4 DEF TypeOK, kill, End, Threads, disk
    <2>5. ASSUME NEW t \in Thread, signal_misses(d, t) PROVE OnlyOwnLocks' /\ DueIsGone'
        BY <2>5 DEF TypeOK, signal_misses, Handles, InRegistry, Threads, disk
    <2>6. ASSUME NEW t \in Thread, drop_without_deallocation(d, t) PROVE OnlyOwnLocks' /\ DueIsGone'
        BY <2>6 DEF TypeOK, drop_without_deallocation, Threads, history
    <2> QED
        BY <1>3, <2>1, <2>2, <2>3, <2>4, <2>5, <2>6 DEF ProcessStep
<1> QED
    BY <1>1, <1>2, <1>3 DEF Next

(***************************************************************************)
(* A process that ends through its signal handler leaves none of the lock  *)
(* files behind that were registered when the signal came, unless it found *)
(* the registry locked (registry.rs cleanup_tempfiles_signal_safe).        *)
(***************************************************************************)
THEOREM Cleanup == Spec => []HandlerCleansUp
<1>1. Init => CInv
    <2>1. Init => OnlyOwnLocks /\ DueIsGone
        BY SMTT(60), LockFileAssumption DEF Init, OnlyOwnLocks, DueIsGone
    <2> QED
        BY <2>1, InitIInv DEF CInv
<1>2. CInv /\ [Next]_vars => CInv'
    BY TypeStep, OwnerStep, CleanupStep DEF CInv, IInv
<1>3. CInv => HandlerCleansUp
    BY DEF CInv, IInv, SlotOnlyWhenHeld, DueIsGone, Registered, HandlerCleansUp
<1> QED
    BY <1>1, <1>2, <1>3, PTL DEF Spec
=============================================================================
