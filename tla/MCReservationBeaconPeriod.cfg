CONSTANTS
    SlotpSF = 8
    BPDuration = 12
    Truncated = 1
    SlotDuration = 4
    GuardDuration = 1
    FTDuration <- MCFTDuration
    DivideSFintoAreas = 2
    PEROffset = 0
    averageOverSFs = 2
    WindowSize = 2
    MinSamples = 2
    MaxPER = 40
    RandomUse = {FALSE, TRUE}
    MaxRate = 3
    MaxChanges = 2
SPECIFICATION Spec
INVARIANT
    NothingInBeaconPeriod
