CONSTANTS
    MaxAddrs = 4
    Stagger = 2
    DialTimeout = 9
SPECIFICATION FairSpec
INVARIANTS
    OrderAlternates
    NobodyHeldBack
    FailsOnlyWhenAllFailed
PROPERTIES
    DialEnds
