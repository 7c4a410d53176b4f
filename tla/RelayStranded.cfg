CONSTANTS
    a = a
    b = b
    c = c
    p1 = p1
    p2 = p2
    p3 = p3
    p4 = p4
    p5 = p5
    p6 = p6
    Node <- PairNode
    Packet <- PairPacket
    In <- PairIn
    Out <- PairOut
    IsDfMode = TRUE
    ForwardTimer = ForwardTimer
    NoTimer = NoTimer
SPECIFICATION FairSpec
PROPERTIES
    WaitingPacketIsSent
CHECK_DEADLOCK FALSE
