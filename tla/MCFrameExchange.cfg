SPECIFICATION FairSpec
CONSTANTS
    Stations = {1, 2, 3}
    NoStation = 0
    Neighbours <- Row
    Traffic <- MCTraffic
    SifsDuration = 1
    PreambleDuration = 1
    PsduDuration = 2
    AckDuration = 2
    Aifs = 2
INVARIANTS AckedWasDelivered AckFindsItsFrame OneTransmission
PROPERTIES ExchangeUndisturbed AllAcknowledged
