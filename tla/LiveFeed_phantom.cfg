SPECIFICATION Spec
CONSTANTS
    a = a
    b = b
    n = n
    x = x
    NoName = NoName
    Packets <- AirWithData
    MaxAge = 0
    MaxStep = 1
    Window = 4
    MaxFeed = 6
INVARIANT OnlyAdvertisers
