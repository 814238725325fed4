CONSTANTS
    MaxVersion = 3
    Bad <- MCNone
    Hangs <- MCNone
    Keep = 3
    MaxBoots = 3
    MultiThread = TRUE
    StageInDrain = FALSE
    ShortWindow = FALSE
    SamePid = FALSE
    MaxCrashes = 0
SPECIFICATION Spec
CHECK_DEADLOCK FALSE
PROPERTIES
    SequenceNeverFalls
