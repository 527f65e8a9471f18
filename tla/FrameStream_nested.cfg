SPECIFICATION Spec
CONSTANTS
    FrameMagic = 85
    TypeData = 16
    TypeStatus = 1
    MaxFramePayload = 4
    MinDataPayload = 2
    ChannelAt = 0
    MarkerAt = 1
    BulkTransferSize = 16
    Emittable <- MCNested
    MaxEmitted = 2
    PartialTransfers = FALSE
INVARIANT
    AllFramesDecoded
