SPECIFICATION FairSpec
CONSTANTS
    Stations = {a, b, c}
    NoStation = NoStation
    FrameDurations = {0, 1, 3}
    Sinrs = {0, 1, 2, 3, 4}
    DetectionThreshold = 1
    IdleCapture = 1
    SlcCapture = 2
    SlgCapture = 3
    FinalDelivery = 1
    SignalRxErrorAlthoughNotSynchronized = FALSE
INVARIANTS AssertionsHold SynchronizedUntilDelivered
PROPERTIES FallsIdle
