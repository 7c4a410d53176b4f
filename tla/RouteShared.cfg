CONSTANTS
    n0 = n0
    n1 = n1
    r1 = r1
    r2 = r2
    r3 = r3
    r4 = r4
    Relay <- SharedRelays
    Client <- Clients
    Peers <- SharedPeers
    Partner <- Pair
    Settings <- ScriptSettings
    Setting <- SharedSetting
    Installed <- FlowsThroughR2
    Lossy = FALSE
    None = None
SPECIFICATION FairSpec
INVARIANTS
    RequestsCarrySimplePaths
    RememberedDelayIsEarliest
PROPERTIES
    FloodsYieldRoutes
CHECK_DEADLOCK FALSE
