SPECIFICATION Spec
CONSTANTS
    p1 = p1
    p2 = p2
    dA = dA
    dB = dB
    dC = dC
    o1 = o1
    o2 = o2
    o3 = o3
    HTTP = HTTP
    None = None
    NoPort = NoPort
    MinPort = 1
    MaxPort = 2
    ServicesOf <- MCServicesOf
    Procs <- TwoProcs
    Dirs <- RivalDirs
    OverrideIds <- TwoOverrides
    Subcommands <- AllSubs
    OneAtATime = FALSE
    Noted <- ConcurrentNoted
SYMMETRY Symmetry
INVARIANTS
    TypeOK
    RegisteredHaveOverride
    OverrideOfOwnProject

    
