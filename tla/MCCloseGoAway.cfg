CONSTANTS
    a = a
    b = b
    Peers <- MCPeers
    Calls <- GoAwayThenClose
    Timers <- AllTimers
    Transfers <- NoneBusy
SPECIFICATION FairSpec
PROPERTIES
    NilMeansClosing
CHECK_DEADLOCK FALSE
