SPECIFICATION Spec
CONSTANTS
    Experts = {e1, e2, e3, e4}
    None = None
    Cap = 2
    MaxUsed = 3
    MaxTokens = 2
    MaxRequests = 6
INVARIANTS
    TypeOK
    CacheConsistent
    ExactLru
    KernelReadsRequested
PROPERTIES
    ImplementsUncached
CHECK_DEADLOCK FALSE
