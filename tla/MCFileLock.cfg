SPECIFICATION Spec
CONSTANTS
    p1 = p1
    p2 = p2
    p3 = p3
    NoProc = NoProc
    LockTimeout = 1
    StaleDuration = 2
    Procs <- ThreeProcs
SYMMETRY Symmetry
INVARIANTS
    TypeOK
    ExclusiveUntilBroken
    NoLockLeak
PROPERTIES
    ImplementsBreakableLock
    BreakHasReason
