CONSTANTS
    a = a
    b = b
    Peers <- MCPeers
    Calls <- MixedCalls
    Timers <- WaitTimers
    Transfers <- OneBusy
SPECIFICATION FairSpec
INVARIANTS
    TypeOK
    OkMeansAcked
PROPERTIES
    ClosedStaysClosed
    CloseReturns
    CloseSettles
    RunsEnd
CHECK_DEADLOCK FALSE
