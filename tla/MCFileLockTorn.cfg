SPECIFICATION Spec
CONSTANTS
    p1 = p1
    p2 = p2
    p3 = p3
    NoProc = NoProc
    LockTimeout = 1
    StaleDuration = 2
    Procs <- TwoProcs
PROPERTIES
    OnlyOverdueBroken
