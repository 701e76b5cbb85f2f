CONSTANTS
    Opener = Opener
    Stoppers = {}
    Closer = Closer
    Nobody = Nobody
    Loops <- RouteLoops
    MaxGen = 1
    MaxMoves = 2
    Gateways = {g1, g2, g3}
    TenNet = {g3}
    NoGateway = NoGateway
    KillSwitch = FALSE
SPECIFICATION FairSpec
INVARIANTS FieldIsRoute RoutesGivenBack
PROPERTIES ServerRouteFollows
CHECK_DEADLOCK FALSE
