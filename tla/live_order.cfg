SPECIFICATION LiveFairSpec
CONSTANTS
    p1 = p1
    p2 = p2
    s1 = s1
    k1 = k1
    Fulfilment = "pickup"
    Publishers <- MCPublishers
    Streams <- MCStreams
    Polls <- MCPolls
    SubBuffer = 1
    Wire = 1
    MayFail = TRUE
INVARIANTS
    LiveTypeOK
    ScreenIsCurrent
PROPERTIES
    EndIsSeen
    DepartureIsNoticed
