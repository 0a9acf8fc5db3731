------------------------------ MODULE MCViewer ------------------------------
EXTENDS Viewer

UserCommands == {"step", "reset"}
CrashFaults == {"setup", "accept", "launch", "crash"}
NoFaults == {}
SendThree == [c \in Conn |-> 3]
SendSix == [c \in Conn |-> 6]
=============================================================================
