CONSTANTS
    Urls = 3
    Answering <- MCAnswering
    Steps <- MCSteps
    MaxCrashes = 2
SPECIFICATION FairSpec
INVARIANTS
    TypeOK
    LinkStateTruthful
    PairAccountedFor
    NotRefusedOnceRegistered
PROPERTIES
    BackoffHolds
    ComesBack
