CONSTANTS
    Ids = {1, 2}
    IPs = {"x", "y"}
    Admins = {a1, a2}
    Config <- MCConfig
    Torn = Torn
    Nobody = Nobody
    NoPeer = NoPeer
    NoRequest = NoRequest
    MaxOps = 4
    MaxFails = 1
SYMMETRY Symmetry
SPECIFICATION Spec
INVARIANTS Indexed DiskMatches AckIsDurable TypeOK
CHECK_DEADLOCK FALSE
