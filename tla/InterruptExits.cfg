SPECIFICATION FairSpec
CONSTANTS
    Blocks = 4
    Garbage = Garbage
    Zero = Zero
    Idle = Idle
    Variants <- Runners
PROPERTIES
    InterruptExits
CHECK_DEADLOCK FALSE
