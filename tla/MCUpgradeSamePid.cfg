CONSTANTS
    MaxVersion = 2
    Bad <- MCNone
    Hangs <- MCNone
    Keep = 3
    MaxBoots = 1
    MultiThread = FALSE
    StageInDrain = FALSE
    ShortWindow = FALSE
    SamePid = TRUE
    MaxCrashes = 1
SPECIFICATION FairSpec
CHECK_DEADLOCK FALSE
PROPERTIES
    ComesUp
