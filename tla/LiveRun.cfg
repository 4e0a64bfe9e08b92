SPECIFICATION Spec
CONSTANTS
    MaxLines = 2
    PipeSize = 1
    MaxInterrupts = 2
INVARIANTS TypeOK NothingLost ChildNotLeft
PROPERTIES Ends
CHECK_DEADLOCK FALSE
