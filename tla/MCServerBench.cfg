SPECIFICATION Spec
CONSTANTS
    c1 = c1
    c2 = c2
    n1 = n1
    other = other
    Configs <- MCConfigs
    NgramConfigs <- MCNgramConfigs
    Reps = 2
    Wanted <- MCWanted
    None = None
    Torn = Torn
    MaxSessions = 2
    MaxInterrupts = 1
    MaxFaults = 1
INVARIANTS TypeOK OwnServer ServerLogs ServersLeft Accounted
PROPERTIES SessionEnds
CHECK_DEADLOCK FALSE
