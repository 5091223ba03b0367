SPECIFICATION Spec
CONSTANTS
    Stations = {a, b}
    NoStation = NoStation
    NoFrame = NoFrame
    FrameDurations = {0, 2}
    Rests = {0, 2}
    Sinrs = {1, 2, 3}
    DetectionThreshold = 1
    IdleCapture = 1
    SlcCapture = 2
    SlgCapture = 2
    FinalDelivery = 1
    PreambleDuration = 1
    TxrxTurnaroundDelay = 1
    SifsDuration = 1
INVARIANTS ForeignNAVKept
