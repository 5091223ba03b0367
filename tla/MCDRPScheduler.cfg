SPECIFICATION FairSpec
CONSTANTS
    Receivers = {1, 2}
    c1 = c1
    c2 = c2
    c3 = c3
    Compounds = {c1, c2, c3}
    Dest <- MCDest
    FT <- MCFT
    QueueSize = 2
    Sifs = 3
    GuardDuration = 4
    CloseLead = 2
    TimerLead = 1
    MinAccess = 6
    MaxAccess = 60
    txopLimit = 30
    Configs <- TwoConfigs
    Gaps = {20, 45}
    Lengths = {20}
    Steps = {7}
INVARIANTS NothingUndefined OneAccess TXOPInPCA FrameFits EachOnce
PROPERTIES AccessEnds TakeTurns LeavesOnlyWhenDone
