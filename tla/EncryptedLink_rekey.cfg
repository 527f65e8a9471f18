SPECIFICATION Spec
CONSTANTS
    CounterWindow = 2
    CounterLimit = 4
    Ltks <- MCKnownLtk
    MaxConnections = 1
    MaxSessions = 2
    MaxCounter = 2
    Retransmissions = FALSE
PROPERTY
    CapturedExchangeYieldsKey
CHECK_DEADLOCK FALSE
