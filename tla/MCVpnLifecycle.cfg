CONSTANTS
    Opener = Opener
    Stoppers = {s1}
    Closer = Closer
    Nobody = Nobody
    Loops <- TrafficLoops
    MaxGen = 2
    MaxMoves = 0
    Gateways = {g1}
    TenNet = {}
    NoGateway = NoGateway
    KillSwitch = FALSE
SPECIFICATION Spec
INVARIANTS TypeOK RunningIsWhole Manned OnePinger StatusHonest
CHECK_DEADLOCK FALSE
