SPECIFICATION FairSpec
CONSTANTS
    Blocks = 6
    Garbage = Garbage
    Zero = Zero
    Idle = Idle
    Variants <- Runners
INVARIANTS
    TypeOK
    SlotsExclusive
    ReaderClosedLast
PROPERTIES
    ImplementsInOrder
    EventuallyExits
CHECK_DEADLOCK FALSE
