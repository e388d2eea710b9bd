CONSTANTS
    a = a
    b = b
    Peers <- MCPeers
    Calls <- BothClose
    Timers <- NoTimers
    Transfers <- NoneBusy
SPECIFICATION Spec
INVARIANTS
    CloseConverges
CHECK_DEADLOCK FALSE
