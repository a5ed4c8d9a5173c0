SPECIFICATION Spec
CONSTANTS
    a1 = a1
    a2 = a2
    b1 = b1
    r1 = r1
    PidA = PidA
    PidB = PidB
    Thread <- MCThread
    Pid <- MCPid
    PidOf <- MCPidOf
    Mode <- MCMode
    Resource = {r1}
    Value = {v0, v1}
    Empty = v0
    NoThread = NoThread
    MaxWaits = 1
SYMMETRY MCSymmetry
INVARIANTS TypeOK OwnerHasLock HandlerCleansUp
PROPERTIES OnlyOwnerOverwrites ImplementsAtomicLock
\* Every process may be killed, after which nothing happens.
CHECK_DEADLOCK FALSE
