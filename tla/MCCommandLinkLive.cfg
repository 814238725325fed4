CONSTANTS
    MaxSessions = 2
    MaxCmds = 1
    QueueSize = 1
    QueueBytes = 2
    OutboundSize = 1
    Cost <- MCCost
    GetConfig <- MCGetConfig
SPECIFICATION FairSpec
PROPERTIES
    ShutdownCompletes
    WorkersRetire
    AckGetsQueued
