SPECIFICATION Spec
CONSTANTS
    JoinedFlags <- MCJoinedFlags
    OtherFlags <- MCOtherFlags
    Env <- MCEnv
    ServiceSubdomain <- MCServiceSubdomain
    Inputs <- MCInputs
    NameOrder <- MCNameOrder
    OverridePath = "override.yml"
    ProxyPort = 1355
    FirstPort = 40000
    Documented <- MCDocumented
CHECK_DEADLOCK FALSE
INVARIANTS
    TypeOK
    ArgumentsArrive
    PortsAsDocumented
    ServicesReachable
    LabelsLeadToServices
    OverrideComplete
