CONSTANTS
    n0 = n0
    n1 = n1
    r1 = r1
    r2 = r2
    r3 = r3
    r4 = r4
    Relay <- DiamondRelays
    Client <- Clients
    Peers <- DiamondPeers
    Partner <- Pair
    Settings <- ScriptSettings
    Setting <- DiamondSetting
    Installed <- FlowsThroughR1
    Lossy = TRUE
    None = None
SPECIFICATION Spec
INVARIANTS
    TypeOK
    RepliesKnowTheWayBack
    RoutesAreComplete
    OneReplyPerFlood
    HoldBackWithinLimit
    DelaysFavourCoding
PROPERTIES
    RoutesAreStable
CHECK_DEADLOCK FALSE
