CONSTANTS
    MaxSessions = 2
    MaxCmds = 3
    QueueSize = 2
    QueueBytes = 2
    OutboundSize = 1
    Cost <- MCCost
    GetConfig <- MCGetConfig
SPECIFICATION Spec
INVARIANTS
    TypeOK
    OneAtATime
    LateStartsBounded
    AnswerAccounting
    OneFrameLostPerSession
    BudgetExact
    NoCommandCutOff
PROPERTIES
    StartOrder
