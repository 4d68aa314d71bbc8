CONSTANTS
    b1 = b1
    b2 = b2
    b3 = b3
    Bridge <- MCBridge
    NoBridge = NoBridge
    Cap = 2
    MaxChunks = 4
    MaxSetups = 3
    MaxTold = 2
SPECIFICATION RelaySpec
CHECK_DEADLOCK FALSE
PROPERTIES EarlyAudioFlushed
