SPECIFICATION FairSpec
CONSTANTS
    SlotDuration = 2
    AifsDuration = 2
    EifsDuration = 3
    CwMin = 1
    CwMax = 3
    MaxTransmissions = 3
INVARIANTS QuietBeforeTransmission AllSlotsCounted CountdownNeverLost
PROPERTIES WaitingIsServed OneGrantPerCountdown
