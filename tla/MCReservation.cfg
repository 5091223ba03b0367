CONSTANTS
    SlotpSF = 6
    BPDuration = 8
    Truncated = 0
    SlotDuration = 4
    GuardDuration = 1
    FTDuration <- MCFTDuration
    DivideSFintoAreas = 2
    PEROffset = 0
    averageOverSFs = 2
    WindowSize = 2
    MinSamples = 2
    MaxPER = 40
    RandomUse = {FALSE, TRUE}
    MaxRate = 3
    MaxChanges = 4
SPECIFICATION FairSpec
INVARIANTS
    NothingUsableLeft
    LoweredOncePerFailure
PROPERTIES
    NewSlotsAreFree
    Followed
    Provided
