CONSTANTS
    MaxVersion = 7
    Bad <- MCBad
    Hangs <- MCHangs
    Keep = 3
    MaxBoots = 3
    MultiThread = FALSE
    StageInDrain = TRUE
    ShortWindow = TRUE
    SamePid = FALSE
    MaxCrashes = 2
SPECIFICATION FairSpec
CHECK_DEADLOCK FALSE
INVARIANTS
    TypeOK
    RollbackTargetKept
    NeverSettlesOnBad
    LinkedVersionPresent
PROPERTIES
    SequenceNeverFalls
    DyingVersionRolledBack
    ComesUp
