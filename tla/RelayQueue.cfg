CONSTANTS
    a = a
    b = b
    c = c
    p1 = p1
    p2 = p2
    p3 = p3
    p4 = p4
    p5 = p5
    p6 = p6
    Node <- MCNode
    Packet <- MCPacket
    In <- MCIn
    Out <- MCOut
    IsDfMode = TRUE
    ForwardTimer = ForwardTimer
    NoTimer = NoTimer
SPECIFICATION FairSpec
INVARIANTS
    TypeOK
    NeverBothDirections
    QueueMatchesBuffer
    ForwardBufferHasTimer
    ExactlyOnce
    DecodableByNextHops
PROPERTIES
    KeepsPromise
CHECK_DEADLOCK FALSE
