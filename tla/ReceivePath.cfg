SPECIFICATION Spec
CONSTANTS
    ClockPeriod = 2
    MaxTime = 4
    Connections = {1, 2}
    MaxPackets = 2
INVARIANTS
    TypeOK
    DirectionFaithful
    ClassTellsDelivery
    DataAttributed
    ClockExact
PROPERTIES
    IntervalExact
    StampsNeverDecrease
