SPECIFICATION Spec
CONSTANTS
    Conn = {1, 2}
    Command <- AllCommands
    Length = 2
    Backlog = 2
    SockBuf = 1
    MaxSend <- TwoAndOne
    Faults <- AllFaults
INVARIANTS OneLineEach SessionsExclusive
PROPERTIES AllAnswered WaitingServed
CHECK_DEADLOCK FALSE
