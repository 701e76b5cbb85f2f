CONSTANTS
    Peers = {1}
    Packets <- MCPackets
    BitsOf <- MCBitsOf
    Writers = {w1, w2}
    Handlers = {h1}
    NoWriter = NoWriter
    NoThread = NoThread
    NoJob = NoJob
    QCap = 2
    BloomCapacity = 2
    MaxBatch = 1
    MaxArrivals = 2
    MaxPosts = 1
    MaxDown = 1
    MaxTicks = 1
SPECIFICATION FairSpec
INVARIANTS TypeOK CipherMutex EchoToSender
PROPERTIES FreshAtCheck GuardSpec Serves FullIsReset
CHECK_DEADLOCK FALSE
