CONSTANTS
    MaxLen = 3
    SizeMax = 7
    Dwords = 2
    Capacity = 2
SPECIFICATION StreamsSpec
INVARIANTS
    ExactlyNeverOvershoots
    ReturnsForAReason
    ShortOnlyAtEnd
    Inv
PROPERTIES
    CallReturns
    ImplementsPipe
CHECK_DEADLOCK FALSE
