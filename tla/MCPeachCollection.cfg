CONSTANTS
    Threads = {t1, t2, t3}
    MaxRecords = 4
SYMMETRY Symmetry
SPECIFICATION Spec
CHECK_DEADLOCK FALSE
INVARIANTS
    TypeOK
    IdsFollowRealTime
    DuplicateNeedsOverlap
PROPERTIES
    FailureNeedsConflict
    AcknowledgedStay
