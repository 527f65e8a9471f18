SPECIFICATION Spec
CONSTANTS
    MaxDevices = 3
    MaxDrains = 2
    MaxReadErrors = 2
    ChannelOptions = {0, 37}
INVARIANTS
    TypeOK
    RunsOnlyWithRadios
    ChannelCoverage
    CleanExitWasAsked
    PromptStop
    GivenUpWhenPersistent
    QuietExit
PROPERTIES
    EveryStepNearer
    StopCompletes
    EveryRadioServed
