SPECIFICATION FairSpec
CONSTANTS
    one = one
    two = two
    Presets = {one, two}
    Repeats <- Arms1And2
    None = None
    MaxArms = 2
PROPERTIES
    QueueLocked
CHECK_DEADLOCK FALSE
