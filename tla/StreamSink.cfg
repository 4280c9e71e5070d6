CONSTANTS
    Capacity = 3
    MaxBytes = 5
    MayFall = TRUE
SPECIFICATION Spec
INVARIANTS
    Inv
PROPERTIES
    ImplementsPipe
CHECK_DEADLOCK FALSE
