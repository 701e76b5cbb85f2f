SPECIFICATION Spec
CONSTANTS
    ShortID = {1}
    RouteMask <- MCRouteMask
    Configs <- MCConfigs
    FEC = 2
    PingEvery = 3
    Timeout = 6
    ReadWait = 10
    LostAfter = 10
    Window = 30
    RingSize = 5
    Delay = 1
    MaxOpen = 7
    MaxPings = 6
    MaxConns = 2
INVARIANTS TypeOK OneRead LossBound PathRecovers
PROPERTY Patient
CHECK_DEADLOCK FALSE
