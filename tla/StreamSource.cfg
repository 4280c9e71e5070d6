CONSTANTS
    Capacity = 4
    MaxBytes = 8
    Places = {0, 20}
SPECIFICATION ViewsSpec
INVARIANTS
    Inv
    EmptyMeansDry
    ViewsStayValid
PROPERTIES
    ImplementsPipe
CHECK_DEADLOCK FALSE
