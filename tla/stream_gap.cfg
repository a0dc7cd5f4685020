SPECIFICATION LiveSpec
CONSTANTS
    p1 = p1
    p2 = p2
    s1 = s1
    k1 = k1
    Fulfilment = "pickup"
    Publishers <- MCOnePublisher
    Streams <- MCStreams
    Polls <- MCPolls
    SubBuffer = 16
    Wire = 1
    MayFail = FALSE
INVARIANTS
    GapIsCovered
