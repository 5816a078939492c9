SPECIFICATION Spec
CONSTANTS
    p1 = p1
    p2 = p2
    p3 = p3
    dA = dA
    dB = dB
    h1 = h1
    h2 = h2
    h3 = h3
    NoProc = NoProc
    Empty = Empty
    Garbled = Garbled
    Unreadable = Unreadable
    Procs <- TwoProcs
    Dirs <- TwoDirs
    Batches <- MCBatches
INVARIANT StopAllResets
