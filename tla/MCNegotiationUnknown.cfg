CONSTANTS
    Slots = {m1, m2, m3, m4}
    Links <- MCLinks
    NumStations = 4
    MaxLostBeacons = 1
    MaxDemand = 2
    MaxTotal = 3
    MaxLosses = 1
SPECIFICATION Spec
INVARIANT UnknownMerge
