CONSTANTS
    n0 = n0
    n1 = n1
    r1 = r1
    r2 = r2
    MaxSequence = 2
    Rate = 1
    StopGroups <- MCStopGroups
    IsDfMode = TRUE
    ForwardTimer = ForwardTimer
    NoTimer = NoTimer
SPECIFICATION Spec
INVARIANTS
    TypeOK
    RelaysAreHandedFreshPackets
    PacketInOnePlace
    CountsTwiceOnlyIfOverheard
    ReceiverKnowsTheOther
PROPERTIES
    StoppedClientsSendNothing
    TimersRunDown
CHECK_DEADLOCK FALSE
