SPECIFICATION Spec
CONSTANTS
    p1 = p1
    p2 = p2
    m1 = m1
    m2 = m2
    c1 = c1
    t1 = t1
    t2 = t2
    Points <- MCPoints
    Models <- MCModels
    Configs <- MCConfigs
    Prompts <- MCPrompts
    Reps = 2
    None = None
    Torn = Torn
    MaxSessions = 2
    MaxInterrupts = 2
    MaxFaults = 2
INVARIANTS ParityMeans
CHECK_DEADLOCK FALSE
