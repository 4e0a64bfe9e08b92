SPECIFICATION FairSpec
CONSTANTS
    one = one
    two = two
    Presets = {one, two}
    Repeats <- Arms1And2
    None = None
    MaxArms = 3
INVARIANTS
    TypeOK
    ChildrenAccounted
    OnlyStoppedSignalled
    VramExclusive
PROPERTIES
    ImplementsArmLog
    StopEnds
    QuitEnds
CHECK_DEADLOCK FALSE
