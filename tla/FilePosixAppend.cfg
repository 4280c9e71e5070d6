CONSTANTS
    Platforms = {"posix"}
    MaxFile = 4
    Others = {FALSE}
SPECIFICATION Spec
PROPERTIES
    AppendNeverOverwrites
CHECK_DEADLOCK FALSE
