----------------------------- MODULE MCTcpServer -----------------------------
EXTENDS TcpServer

AllCommands == {"step", "status", "reset", "bogus"}
AllFaults == {"setup", "accept", "reset"}
TwoAndOne == [c \in Conn |-> IF c = 1 THEN 2 ELSE 1]
=============================================================================
