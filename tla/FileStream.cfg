CONSTANTS
    Platforms = {"posix", "windows"}
    MaxFile = 3
    Others = {TRUE, FALSE}
SPECIFICATION Spec
INVARIANTS
    FileInv
    FlagsSettle
    PlatformsAgree
PROPERTIES
    TruncatesOnlyAsAsked
    CreatesOnlyAsAsked
    AppendsAloneOnWindows
CHECK_DEADLOCK FALSE
