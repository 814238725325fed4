CONSTANTS
    MaxVersion = 2
    Bad <- MCAllBad
    Hangs <- MCNone
    Keep = 3
    MaxBoots = 3
    MultiThread = FALSE
    StageInDrain = FALSE
    ShortWindow = FALSE
    SamePid = FALSE
    MaxCrashes = 1
SPECIFICATION FairSpec
CHECK_DEADLOCK FALSE
PROPERTIES
    BadVersionRolledBack
