CONSTANTS
    MaxVersion = 5
    Bad <- MCAllBad
    Hangs <- MCNone
    Keep = 3
    MaxBoots = 1
    MultiThread = FALSE
    StageInDrain = FALSE
    ShortWindow = FALSE
    SamePid = FALSE
    MaxCrashes = 0
SPECIFICATION Spec
CHECK_DEADLOCK FALSE
INVARIANTS
    RolledBackMeansReverted
