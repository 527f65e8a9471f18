SPECIFICATION Spec
CONSTANTS
    FrameMagic = 85
    TypeData = 16
    TypeStatus = 1
    MaxFramePayload = 4
    MinDataPayload = 2
    ChannelAt = 0
    MarkerAt = 1
    BulkTransferSize = 10
    Emittable <- MCFrames
    MaxEmitted = 3
    PartialTransfers = FALSE
INVARIANTS
    TypeOK
    CarryFits
    AllFramesDecoded
    ErrorsCountedOnce
PROPERTY
    ImplementsChannel
