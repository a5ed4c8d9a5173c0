----------------------------- MODULE AtomicLock -----------------------------
(***************************************************************************)
(* What gix-lock promises to its users, without files, registries, signals *)
(* or retries: every resource has at most one holder, and only the holder  *)
(* replaces the content of the resource, in one step which also releases   *)
(* the lock ("Locks are acquired atomically, then written to, to finally   *)
(* atomically overwrite the actual resource", gix-lock/src/lib.rs:3-4).    *)
(***************************************************************************)
CONSTANTS
    Client,     \* whoever may hold a lock
    Resource,   \* the paths that are locked
    Value,      \* the contents a resource can have
    NoClient    \* the holder of a free lock

VARIABLES
    holder,     \* holder[r]: the client that has the lock of r
    resource    \* resource[r]: the content of r

vars == <<holder, resource>>

Init ==
    /\ holder = [r \in Resource |-> NoClient]
    /\ resource \in [Resource -> Value]

Acquire(c, r) ==
    /\ holder[r] = NoClient
    /\ holder' = [holder EXCEPT ![r] = c]
    /\ UNCHANGED resource

Release(c, r) ==
    /\ holder[r] = c
    /\ holder' = [holder EXCEPT ![r] = NoClient]
    /\ UNCHANGED resource

Overwrite(c, r, v) ==
    /\ holder[r] = c
    /\ holder' = [holder EXCEPT ![r] = NoClient]
    /\ resource' = [resource EXCEPT ![r] = v]

Next ==
    \E c \in Client, r \in Resource :
        \/ Acquire(c, r)
        \/ Release(c, r)
        \/ \E v \in Value : Overwrite(c, r, v)

Spec == Init /\ [][Next]_vars
=============================================================================
