CONSTANTS
    Platforms = {"posix"}
    MaxFile = 4
    Others = {FALSE}
SPECIFICATION Spec
PROPERTIES
    WriteAloneNeverCreates
CHECK_DEADLOCK FALSE
