SPECIFICATION Spec
CONSTANTS
    CounterWindow = 2
    CounterLimit = 4
    Ltks <- MCLtks
    MaxConnections = 2
    MaxSessions = 2
    MaxCounter = 2
    Retransmissions = TRUE
INVARIANT
    TypeOK
PROPERTIES
    IntactCaptureDecrypts
    NewCountersIncrease
    RetransmissionMeansSeen
CHECK_DEADLOCK FALSE
