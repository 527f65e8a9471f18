SPECIFICATION Spec
CONSTANTS
    ConnectInds <- MCConnectInds
    MaxTime = 200
    CounterPeriod = 8
    MaxOrdinal = 40
    Times <- MCTimes
    Guards <- MCGuards
    ble_csa2_prn_e <- PrnE
INVARIANTS
    TypeOK
    OnTheLinksChannel
    TimesExact
    WindowExact
    AcceptedIsSchedulable
