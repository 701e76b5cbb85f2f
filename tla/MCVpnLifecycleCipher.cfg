CONSTANTS
    Opener = Opener
    Stoppers = {s1}
    Closer = Closer
    Nobody = Nobody
    Loops <- WriterLoops
    MaxGen = 2
    MaxMoves = 0
    Gateways = {g1}
    TenNet = {}
    NoGateway = NoGateway
    KillSwitch = TRUE
SPECIFICATION Spec
INVARIANTS CipherPerGoroutine
CHECK_DEADLOCK FALSE
