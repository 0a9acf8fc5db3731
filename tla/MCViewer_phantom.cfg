SPECIFICATION ViewerSpec
CONSTANTS
    Conn = {1, 2}
    Command <- UserCommands
    Length = 3
    Backlog = 2
    SockBuf = 2
    MaxSend <- SendSix
    MaxHistory = 512
    Faults <- NoFaults
INVARIANT NoPhantomTicks
CHECK_DEADLOCK FALSE
