---------------------------- MODULE MC_LockFile ----------------------------
(***************************************************************************)
(* Two threads of one process and one of another, and one resource.        *)
(***************************************************************************)
EXTENDS LockFile, TLC

CONSTANTS a1, a2, b1, PidA, PidB, r1

MCThread == {a1, a2, b1}
MCPid    == {PidA, PidB}
MCPidOf  == [t \in MCThread |-> IF t = b1 THEN PidB ELSE PidA]

\* A handler that ends its process, and one that deletes tempfiles and lets
\* the process go on.
MCMode == [d \in MCPid |-> IF d = PidB THEN "Delete" ELSE "DeleteAndRestoreDefault"]

\* The threads of one process are interchangeable.
MCSymmetry == Permutations({a1, a2})
=============================================================================
