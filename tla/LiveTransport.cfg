CONSTANTS
    b1 = b1
    b2 = b2
    b3 = b3
    Bridge <- MCBridge
    NoBridge = NoBridge
    Cap = 2
    MaxChunks = 4
    MaxSetups = 3
    MaxTold = 2
    None = None
    Attempts = 2
    QueueSize = 2
    MaxMore = 1
SPECIFICATION TransportSpec
CHECK_DEADLOCK FALSE
INVARIANTS RelayTypeOK ListensWhileUp LeaksExplained
INVARIANTS ConnectionTypeOK SetupFirst LeftExplained
PROPERTIES EndsWithSession EndsTogether
