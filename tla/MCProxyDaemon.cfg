SPECIFICATION FairSpec
CONSTANTS
    p1 = p1
    p2 = p2
    d1 = d1
    d2 = d2
    d3 = d3
    None = None
    Procs <- TwoProcs
    Daemons <- TwoDaemons
INVARIANTS
    TypeOK
    ListenerMatchesRoutes
PROPERTIES
    ClosesForReason
    CommandReturns
    SignalledEnds
    IdleProxyCloses
