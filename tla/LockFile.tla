------------------------------ MODULE LockFile ------------------------------
(***************************************************************************)
(* gix-lock on top of gix-tempfile.  Threads of several processes acquire, *)
(* write, close, commit and drop lock files; a process-wide registry knows *)
(* the tempfiles that a signal handler has to delete, and an operation on  *)
(* a tempfile takes it out of the registry for as long as it runs.         *)
(*                                                                         *)
(* One thread works with one lock at a time.  The registry id of a handle  *)
(* is the thread that owns it, as ids are never reused (handle.rs:354).    *)
(***************************************************************************)
EXTENDS Naturals

CONSTANTS
    Thread,     \* all threads of all processes
    Pid,        \* the processes
    PidOf,      \* PidOf[t]: the process of thread t
    Mode,       \* Mode[d]: how the signal handler of process d acts
    Resource,   \* the paths that are locked
    Value,      \* the contents of resources and lock files
    Empty,      \* the content of a file nobody wrote to
    NoThread,   \* the creator of a lock file that does not exist
    MaxWaits    \* bound on the waits of the backoff (see Backoff)

HandlerMode == {"None", "Delete", "DeleteAndRestoreDefault"}

ASSUME LockFileAssumption ==
    /\ PidOf \in [Thread -> Pid]
    /\ Mode \in [Pid -> HandlerMode]
    /\ Empty \in Value
    /\ NoThread \notin Thread
    /\ MaxWaits \in Nat

VARIABLES
    lock,       \* lock[r]: the thread that created r.lock, or NoThread
    resource,   \* resource[r]: the content of r
    pc,         \* pc[t]: where thread t is
    target,     \* target[t]: the resource t locks
    kind,       \* kind[t]: "File", "Marker", or "ClosedFile" (Marker made from a File)
    entry,      \* entry[t]: registry slot of t's handle: "absent", "none" or "some"
    draft,      \* draft[t]: the content of the lock file created by t
    waits,      \* waits[t]: waits the backoff of t still allows
    handler,    \* handler[d]: the signal handler of process d
    missed,     \* history: processes whose handler found the registry locked
    due         \* history: threads whose lock file was registered, and not being
                \* operated on, when the handler of their process started

vars == <<lock, resource, pc, target, kind, entry, draft, waits,
          handler, missed, due>>

disk    == <<lock, resource>>
history == <<missed, due>>

Location == {"idle", "trying", "created", "held", "inMut", "closing",
             "persisting", "dropping", "dead"}
Kind     == {"File", "Marker", "ClosedFile"}
Slot     == {"absent", "none", "some"}

Threads(d) == {t \in Thread : PidOf[t] = d}

\* The one type invariant.
TypeOK ==
    /\ lock \in [Resource -> Thread \cup {NoThread}]
    /\ resource \in [Resource -> Value]
    /\ pc \in [Thread -> Location]
    /\ target \in [Thread -> Resource]
    /\ kind \in [Thread -> Kind]
    /\ entry \in [Thread -> Slot]
    /\ draft \in [Thread -> Value]
    /\ waits \in [Thread -> 0..MaxWaits]
    /\ handler \in [Pid -> {"none", "sweeping", "swept"}]
    /\ missed \in SUBSET Pid
    /\ due \in SUBSET Thread

Init ==
    /\ lock = [r \in Resource |-> NoThread]
    /\ resource = [r \in Resource |-> Empty]
    /\ pc = [t \in Thread |-> "idle"]
    /\ target \in {[t \in Thread |-> r] : r \in Resource}
    /\ kind = [t \in Thread |-> "File"]
    /\ entry = [t \in Thread |-> "absent"]
    /\ draft = [t \in Thread |-> Empty]
    /\ waits = [t \in Thread |-> 0]
    /\ handler = [d \in Pid |-> "none"]
    /\ missed = {}
    /\ due = {}

Goto(t, l) == pc' = [pc EXCEPT ![t] = l]

\* The handle is consumed, and with it all that was known of the lock file.
Leave(t) ==
    /\ Goto(t, "idle")
    /\ kind' = [kind EXCEPT ![t] = "File"]
    /\ draft' = [draft EXCEPT ![t] = Empty]
    /\ waits' = [waits EXCEPT ![t] = 0]
Stay(t) == UNCHANGED <<kind, draft, waits>>

(***************************************************************************)
(* The registry is a map under one mutex.  insert and remove wait for it,  *)
(* and the handler keeps it while it walks over the entries.               *)
(***************************************************************************)
RegistryFree(t) == handler[PidOf[t]] # "sweeping"
insert(t) == RegistryFree(t) /\ entry' = [entry EXCEPT ![t] = "some"]
remove(t) == RegistryFree(t) /\ entry' = [entry EXCEPT ![t] = "absent"]
Registered(t) == entry[t] = "some"

-----------------------------------------------------------------------------
(***************************************************************************)
(* Acquisition.  lock_with_mode tries once, or once per wait of a backoff  *)
(* and then once more; `waits` is what the backoff yields for the given    *)
(* duration.  Creating the file is atomic and fails if it exists.          *)
(***************************************************************************)
acquire(t, r, k, n) ==
    /\ pc[t] = "idle"
    /\ k \in {"File", "Marker"}
    /\ target' = [target EXCEPT ![t] = r]
    /\ kind' = [kind EXCEPT ![t] = k]
    /\ waits' = [waits EXCEPT ![t] = n]
    /\ Goto(t, "trying")
    /\ UNCHANGED <<disk, entry, draft, handler, history>>

\* Mutation of create_lock: the file is opened without O_EXCL.
create_lock_not_exclusive(t) ==
    /\ pc[t] = "trying"
    /\ lock' = [lock EXCEPT ![target[t]] = t]
    /\ waits' = [waits EXCEPT ![t] = 0]
    /\ Goto(t, "created")
    /\ due' = due \ {t}
    /\ UNCHANGED <<resource, target, kind, entry, draft, handler, missed>>

\* tempfile_in(): the lock file exists from here on, but is not registered.
create_lock(t) ==
    /\ pc[t] = "trying"
    /\ lock[target[t]] = NoThread
    /\ lock' = [lock EXCEPT ![target[t]] = t]
    /\ waits' = [waits EXCEPT ![t] = 0]
    /\ Goto(t, "created")
    /\ due' = due \ {t}
    /\ UNCHANGED <<resource, target, kind, entry, draft, handler, missed>>

\* Mutation of retry_lock: the backoff is asked for one wait too many.
retry_lock_off_by_one(t) ==
    /\ pc[t] = "trying"
    /\ lock[target[t]] # NoThread
    /\ waits' = [waits EXCEPT ![t] = @ - 1]
    /\ UNCHANGED <<disk, pc, target, kind, entry, draft, handler, history>>

\* AlreadyExists: sleep and try again while the backoff yields waits, then
\* give up as the resource is "permanently locked".
retry_lock(t) ==
    /\ pc[t] = "trying"
    /\ lock[target[t]] # NoThread
    /\ \/ /\ waits[t] > 0
          /\ waits' = [waits EXCEPT ![t] = @ - 1]
          /\ UNCHANGED <<pc, kind, draft>>
       \/ /\ waits[t] = 0
          /\ Leave(t)
    /\ UNCHANGED <<disk, target, entry, handler, history>>

\* Any other IO error ends the acquisition.
fail_lock(t) ==
    /\ pc[t] = "trying"
    /\ Leave(t)
    /\ UNCHANGED <<disk, target, entry, handler, history>>

register(t) ==
    /\ pc[t] = "created"
    /\ insert(t)
    /\ Goto(t, "held") /\ Stay(t)
    /\ UNCHANGED <<disk, target, handler, history>>

-----------------------------------------------------------------------------
(***************************************************************************)
(* Operations on a handle.  Each removes the tempfile from the registry,   *)
(* works on it, and puts it back.  If the handler took it ("none"), or an  *)
(* earlier operation noticed that ("absent"), there is nothing to work on. *)
(***************************************************************************)
with_mut_remove(t) ==
    /\ pc[t] = "held" /\ kind[t] = "File"
    /\ remove(t)
    /\ IF Registered(t) THEN Goto(t, "inMut")
                        ELSE UNCHANGED pc
    /\ Stay(t)
    /\ UNCHANGED <<disk, target, handler, history>>

with_mut_insert(t, v) ==
    /\ pc[t] = "inMut"
    /\ draft' = [draft EXCEPT ![t] = v]
    /\ insert(t)
    /\ Goto(t, "held")
    /\ UNCHANGED <<disk, target, kind, waits, handler, history>>

close_remove(t) ==
    /\ pc[t] = "held" /\ kind[t] = "File"
    /\ remove(t)
    /\ IF Registered(t) THEN Goto(t, "closing") /\ Stay(t)
                        ELSE Leave(t)
    /\ UNCHANGED <<disk, target, handler, history>>

close_insert(t) ==
    /\ pc[t] = "closing"
    /\ insert(t)
    /\ kind' = [kind EXCEPT ![t] = "ClosedFile"]
    /\ Goto(t, "held")
    /\ UNCHANGED <<disk, target, draft, waits, handler, history>>

\* commit() refuses a Marker that was never a File, and leaves all as it is.
\* Otherwise persist() reports success even if the handler took the file.
persist_remove(t) ==
    /\ pc[t] = "held" /\ kind[t] # "Marker"
    /\ remove(t)
    /\ IF Registered(t) THEN Goto(t, "persisting") /\ Stay(t)
                        ELSE Leave(t)
    /\ UNCHANGED <<disk, target, handler, history>>

\* rename(2) moves whatever is at the path of the lock.
persist_rename(t) ==
    /\ pc[t] = "persisting"
    /\ lock[target[t]] # NoThread
    /\ resource' = [resource EXCEPT ![target[t]] = draft[lock[target[t]]]]
    /\ lock' = [lock EXCEPT ![target[t]] = NoThread]
    /\ Leave(t)
    /\ UNCHANGED <<target, entry, handler, history>>

\* The rename may fail (the resource is a directory): the handle is given back.
persist_failed(t) ==
    /\ pc[t] = "persisting"
    /\ insert(t)
    /\ Goto(t, "held") /\ Stay(t)
    /\ UNCHANGED <<disk, target, handler, history>>

drop_remove(t) ==
    /\ pc[t] = "held"
    /\ remove(t)
    /\ IF Registered(t) THEN Goto(t, "dropping") /\ Stay(t) ELSE Leave(t)
    /\ UNCHANGED <<disk, target, handler, history>>

\* The tempfile is deleted by its path as it goes out of scope.
drop_impl(t) ==
    /\ pc[t] = "dropping"
    /\ lock' = [lock EXCEPT ![target[t]] = NoThread]
    /\ Leave(t)
    /\ UNCHANGED <<resource, target, entry, handler, history>>

-----------------------------------------------------------------------------
(***************************************************************************)
(* Signals.  A termination signal runs the handler of the process while    *)
(* its other threads go on.  The handler only try_lock()s the registry: a  *)
(* thread that is just inserting or removing makes it skip the cleanup.    *)
(***************************************************************************)
Alive(d) == \E t \in Threads(d) : pc[t] # "dead"
Handles(d) == Alive(d) /\ Mode[d] # "None" /\ handler[d] = "none"
InRegistry(d) == {t \in Threads(d) : Registered(t)}
UsesRegistry(t) == pc[t] \in {"created", "held", "inMut", "closing", "persisting"}

signal_sweeps(d) ==
    /\ Handles(d)
    /\ handler' = [handler EXCEPT ![d] = "sweeping"]
    /\ due' = due \cup InRegistry(d)
    /\ UNCHANGED <<disk, pc, target, kind, entry, draft, waits, missed>>

signal_misses(d, t) ==
    /\ Handles(d)
    /\ t \in Threads(d) /\ UsesRegistry(t)
    /\ handler' = [handler EXCEPT ![d] = "swept"]
    /\ missed' = missed \cup {d}
    /\ due' = (due \cup InRegistry(d)) \ {t}
    /\ UNCHANGED <<disk, pc, target, kind, entry, draft, waits>>

\* Mutation of drop_without_deallocation: the file is forgotten, not removed.
drop_without_removal(d, t) ==
    /\ handler[d] = "sweeping"
    /\ t \in Threads(d) /\ Registered(t)
    /\ entry' = [entry EXCEPT ![t] = "none"]
    /\ UNCHANGED <<disk, pc, target, kind, draft, waits, handler, history>>

\* Mutation of drop_without_deallocation: as_ref() in place of take().
drop_without_take(d, t) ==
    /\ handler[d] = "sweeping"
    /\ t \in Threads(d) /\ Registered(t)
    /\ lock' = [lock EXCEPT ![target[t]] = NoThread]
    /\ handler' = [handler EXCEPT ![d] = "swept"]
    /\ UNCHANGED <<resource, pc, target, kind, entry, draft, waits, history>>

\* take() one entry that this process created and remove its file by path.
drop_without_deallocation(d, t) ==
    /\ handler[d] = "sweeping"
    /\ t \in Threads(d) /\ Registered(t)
    /\ entry' = [entry EXCEPT ![t] = "none"]
    /\ lock' = [lock EXCEPT ![target[t]] = NoThread]
    /\ UNCHANGED <<resource, pc, target, kind, draft, waits, handler, history>>

sweep_done(d) ==
    /\ handler[d] = "sweeping"
    /\ \A t \in Threads(d) : ~Registered(t)
    /\ handler' = [handler EXCEPT ![d] = "swept"]
    /\ UNCHANGED <<disk, pc, target, kind, entry, draft, waits, history>>

\* No destructor runs in a process that ends; its memory is gone.
End(d) ==
    /\ pc' = [t \in Thread |-> IF PidOf[t] = d THEN "dead" ELSE pc[t]]
    /\ entry' = [t \in Thread |-> IF PidOf[t] = d THEN "absent" ELSE entry[t]]
    /\ handler' = [handler EXCEPT ![d] = "none"]
    /\ UNCHANGED <<disk, target, kind, draft, waits, missed>>

\* emulate_default_handler() ends the process in the default mode.
handler_returns(d) ==
    /\ handler[d] = "swept"
    /\ \/ Mode[d] = "DeleteAndRestoreDefault" /\ End(d) /\ UNCHANGED due
       \/ /\ Mode[d] = "Delete"
          /\ handler' = [handler EXCEPT ![d] = "none"]
          /\ UNCHANGED <<disk, pc, target, kind, entry, draft, waits, history>>

\* SIGKILL, or a termination signal in a process without handler.
kill(d) ==
    /\ Alive(d)
    /\ End(d)
    /\ due' = due \ Threads(d)

-----------------------------------------------------------------------------
ThreadStep(t) ==
    \/ \E r \in Resource, k \in Kind, n \in 0..MaxWaits : acquire(t, r, k, n)
    \/ create_lock(t) \/ retry_lock(t) \/ fail_lock(t) \/ register(t)
    \/ with_mut_remove(t) \/ \E v \in Value : with_mut_insert(t, v)
    \/ close_remove(t) \/ close_insert(t)
    \/ persist_remove(t) \/ persist_rename(t) \/ persist_failed(t)
    \/ drop_remove(t) \/ drop_impl(t)

ProcessStep(d) ==
    \/ signal_sweeps(d) \/ sweep_done(d) \/ handler_returns(d) \/ kill(d)
    \/ \E t \in Thread : signal_misses(d, t) \/ drop_without_deallocation(d, t)

Next == (\E t \in Thread : ThreadStep(t)) \/ (\E d \in Pid : ProcessStep(d))

Spec == Init /\ [][Next]_vars

-----------------------------------------------------------------------------
\* Thread t relies on the lock file at its target being the one it created.
OwnsFile(t) ==
    \/ pc[t] \in {"created", "inMut", "closing", "persisting", "dropping"}
    \/ Registered(t)

(***************************************************************************)
(* Whoever is about to write, rename or delete a lock file by its path     *)
(* finds the file it created there, so two threads never own the same lock *)
(* and nobody removes the lock of another, whatever handlers delete and    *)
(* whichever process dies in between (handle.rs, registry.rs).             *)
(***************************************************************************)
OwnerHasLock == \A t \in Thread : OwnsFile(t) => lock[target[t]] = t

(***************************************************************************)
(* The content of a resource only changes when a thread that owns its lock *)
(* renames the lock file over it, to what that thread has written.         *)
(***************************************************************************)
OnlyOwnerOverwrites ==
    [][\A r \in Resource : resource'[r] # resource[r] =>
          \E t \in Thread : /\ pc[t] = "persisting" /\ target[t] = r /\ lock[r] = t
                            /\ resource'[r] = draft[t]]_vars

(***************************************************************************)
(* A process that ended through its handler leaves none of the lock files  *)
(* behind that were registered when the signal came, unless the handler    *)
(* found the registry locked (gix-tempfile lib.rs:21-25, registry.rs:9).   *)
(***************************************************************************)
HandlerCleansUp ==
    \A t \in Thread : pc[t] = "dead" /\ t \in due /\ PidOf[t] \notin missed =>
        \A r \in Resource : lock[r] # t

(***************************************************************************)
(* The lock file is the lock: with its creator as the holder, this system  *)
(* implements the abstract lock.                                           *)
(***************************************************************************)
Abstract == INSTANCE AtomicLock WITH
    Client <- Thread, NoClient <- NoThread, holder <- lock

ImplementsAtomicLock == Abstract!Spec
=============================================================================
