CONSTANTS
    BioSize = 2
    OutCapacity = 4
    MayFall = FALSE
    InChunk = 2
    MaxOut = 3
    MaxIn = 2
    MaxCall = 1
SPECIFICATION Spec
INVARIANTS
    SuccessIsCompletion
