CONSTANTS
    MaxChunks = 1
    LocalInFlight = 1
    QueueCap = 1
    RetryLimit = 1
    ReceiveLimit = 1
    MaxOthers = 1
    Faults <- NoFaults
SPECIFICATION FairSpec
PROPERTIES
    BlockedWindowReopens
CHECK_DEADLOCK FALSE
