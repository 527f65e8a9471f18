SPECIFICATION Spec
CONSTANT Workers = 6
INVARIANTS
    TypeOK
    ShownNotTooOld
PROPERTIES
    WorkerLeft
    ShowsRecovery
