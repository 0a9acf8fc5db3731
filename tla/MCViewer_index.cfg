SPECIFICATION ViewerSpec
CONSTANTS
    Conn = {1, 2}
    Command <- UserCommands
    Length = 3
    Backlog = 2
    SockBuf = 2
    MaxSend <- SendThree
    MaxHistory = 2
    Faults <- NoFaults
INVARIANT IndexIsTick
CHECK_DEADLOCK FALSE
