SPECIFICATION Spec
CONSTANTS
    TraceSets <- MCTraceSets
    Capacities <- MCCapacities
INVARIANTS LruCurve AnalysesAgree OracleBounds PartialWithinOneFile
CHECK_DEADLOCK FALSE
