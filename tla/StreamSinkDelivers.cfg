CONSTANTS
    Capacity = 3
    MaxBytes = 5
    MayFall = TRUE
SPECIFICATION Spec
INVARIANTS
    CommitDelivers
CHECK_DEADLOCK FALSE
