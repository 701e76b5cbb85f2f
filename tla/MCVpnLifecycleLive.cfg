CONSTANTS
    Opener = Opener
    Stoppers = {}
    Closer = Closer
    Nobody = Nobody
    Loops <- RouteLoops
    MaxGen = 2
    MaxMoves = 0
    Gateways = {g1}
    TenNet = {}
    NoGateway = NoGateway
    KillSwitch = TRUE
SPECIFICATION FairSpec
INVARIANTS Manned RoutesGivenBack
PROPERTIES StopReturns DeadLinkHandled
CHECK_DEADLOCK FALSE
