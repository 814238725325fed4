CONSTANTS
    Floor = 3
    Pings = 4
    Kept = 3
    MaxGap = 8
    WriteStall = 8
    ChanSize = 1
    Budget = 1
    Periods <- MCPeriods
    Delay = 1
    MaxFrames = 2
    MaxUpsets = 1
SPECIFICATION Spec
INVARIANTS
    TypeOK
    LiveNotTakenForDead
    DeadNoticed
    OneStallForgotten
    BudgetExact
    CloseComesLast
