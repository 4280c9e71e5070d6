CONSTANTS
    BioSize = 2
    OutCapacity = 2
    MayFall = TRUE
    InChunk = 2
    MaxOut = 4
    MaxIn = 3
    MaxCall = 1
SPECIFICATION Spec
INVARIANTS
    EngineInv
    OutputInOrder
    InputInOrder
    NoWaitWhileOutputUnsent
    SuccessIsSent
    ShutdownSendsClose
    NoSilentStall
PROPERTIES
    CallReturns
    DrivesItsBuffers
