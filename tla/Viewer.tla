------------------------------- MODULE Viewer -------------------------------
(***************************************************************************)
(* The viewer (SimController and SimClient in apps/viewer/src) with the     *)
(* server it launches, connects to, steps, resets and replaces.            *)
(*                                                                         *)
(* Launch n starts a process of its own port, modelled by TcpServer, and   *)
(* the connection to it is n: a process of an earlier launch is asked for  *)
(* in vain.  (The port is drawn from 40000; that it were drawn twice is    *)
(* left out.)  The handlers of the viewer run one at a time in its event   *)
(* loop: each is an action.  The user may do what the QML lets him: the    *)
(* buttons of Header.qml, unless the launch overlay covers them, and the   *)
(* button of the overlay.                                                  *)
(*                                                                         *)
(* A snapshot is its run and its tick.  The fields that the controller     *)
(* copies from one are overwritten together, so that `shown' stands for    *)
(* all of them; what a history keeps of a snapshot stands for all of it.   *)
(***************************************************************************)
EXTENDS TcpServer

CONSTANT MaxHistory     \* kMaxHistory, 512 in the code

ASSUME ConnAssumption == Conn \subseteq Nat \ {0}
ASSUME HistoryAssumption == MaxHistory \in Nat \ {0}

VARIABLES
    launches,       \* launches so far; the number of the current process
    needsLaunch,    \* m_needsLaunch: the overlay is shown
    launching,      \* m_launching
    timer,          \* the 300 ms timer of launchBinary is running
    connected,      \* m_connected
    net,            \* state of the QTcpSocket
    sock,           \* its connection, the last one it was asked for
    buffer,         \* m_buffer: the pieces read since the last newline
    shown,          \* the last snapshot (NoSnapshot: m_hasSnapshot is false)
    prev,           \* the snapshot whose events are m_prevEvents
    history,        \* history[h]: a snapshot for each recorded tick
    crashed,        \* the current process died by itself
    overtaken       \* the user cleared the screen with replies on their way;
                    \* neither of these two is in the code

launchVars == <<launches, needsLaunch, launching, timer>>
linkVars == <<connected, net, sock>>
screenVars == <<shown, prev, history>>
viewerVars == <<launchVars, linkVars, buffer, screenVars, crashed, overtaken>>
vars == <<serverVars, viewerVars>>

NoSnapshot == [run |-> 0, tick |-> 0]

\* The seven capped lists.
History == {"gantt", "cpu", "util", "turnaround", "throughput", "events", "raw"}
NoHistory == [h \in History |-> <<>>]

ViewerInit ==
    /\ InitAs("exited")
    /\ launches = 0
    /\ needsLaunch = TRUE
    /\ launching = FALSE
    /\ timer = FALSE
    /\ connected = FALSE
    /\ net = "unconnected"
    /\ sock = 0
    /\ buffer = <<>>
    /\ shown = NoSnapshot
    /\ prev = NoSnapshot
    /\ history = NoHistory
    /\ crashed = FALSE
    /\ overtaken = FALSE

-----------------------------------------------------------------------------
(* What the handlers share *)

\* Slips: a field of the last snapshot stays, or the tick is set to "none".
ClearStateKeepsPrev ==
    /\ shown' = NoSnapshot
    /\ history' = NoHistory
    /\ UNCHANGED prev

ClearStateKeepsTick ==
    /\ prev' = NoSnapshot
    /\ history' = NoHistory
    /\ UNCHANGED shown

ClearState ==
    /\ shown' = NoSnapshot
    /\ prev' = NoSnapshot
    /\ history' = NoHistory

\* Slip: the error is reported and nothing else.
ClientErrorSilent == UNCHANGED needsLaunch

\* onClientError: an error brings the overlay up, unless a launch is under way or
\* the viewer is connected.
ClientError == needsLaunch' = (needsLaunch \/ (~launching /\ ~connected))

AppendCapped(h, s) ==
    LET all == Append(h, s)
    IN  IF Len(all) > MaxHistory THEN Tail(all) ELSE all

\* Slip: the lines of the statistics grow with every snapshot.
OnSnapshotStatsAlways(s) ==
    LET newTick == shown = NoSnapshot \/ s.tick # shown.tick
    IN  /\ shown' = s
        /\ prev' = IF newTick THEN shown ELSE prev
        /\ history' = [h \in History |->
               IF (newTick /\ s.tick > 0) \/ h \in {"util", "turnaround", "throughput"}
               THEN AppendCapped(history[h], s) ELSE history[h]]

\* Each list is appended to, and cut, by a call of its own.
Recorded(s) == [h \in History |-> AppendCapped(history[h], s)]

\* onSnapshot.  Whether a snapshot is new is decided by its tick alone.
OnSnapshot(s) ==
    LET newTick == shown = NoSnapshot \/ s.tick # shown.tick
    IN  /\ shown' = s
        /\ prev' = IF newTick THEN shown ELSE prev
        /\ history' = IF newTick /\ s.tick > 0 THEN Recorded(s) ELSE history

\* A line {"error": ...} is an object like any other: its tick reads as 0.
Parsed(p) == IF p.what = "error" THEN [p.sim EXCEPT !.tick = 0] ELSE p.sim

\* SimClient::sendLine; a socket that is closed refuses the bytes.
SendLine(cmd) ==
    /\ cmd \in Command
    /\ IF net = "unconnected" THEN UNCHANGED serverVars ELSE Written(sock, cmd)

-----------------------------------------------------------------------------
(* The user *)

\* Every command has been answered.
Settled == sock \in Conn => taken[sock] = 2 * Len(sent[sock])

\* What clears the screen, whether or not it overtakes a reply.
Clear ==
    /\ ClearState
    /\ overtaken' = (overtaken \/ ~Settled)

CanRun == connected /\ ~Done(shown)
CanReconfig == connected \/ Done(shown)

UserStep ==
    /\ CanRun
    /\ ~needsLaunch
    /\ SendLine("step")
    /\ UNCHANGED viewerVars

\* Slip: a reset takes the viewer for disconnected.
UserResetDisconnects ==
    /\ CanReconfig
    /\ ~needsLaunch
    /\ Clear
    /\ SendLine("reset")
    /\ connected' = FALSE
    /\ UNCHANGED <<launchVars, net, sock, buffer, crashed>>

UserReset ==
    /\ CanReconfig
    /\ ~needsLaunch
    /\ Clear
    /\ SendLine("reset")
    /\ UNCHANGED <<launchVars, linkVars, buffer, crashed>>

\* The process is terminated, and waited for, within the handler.
UserReconfigure ==
    /\ CanReconfig
    /\ ~needsLaunch
    /\ Clear
    /\ up' = "exited"
    /\ EndProcess
    /\ launching' = FALSE
    /\ needsLaunch' = TRUE
    /\ UNCHANGED <<launches, timer, linkVars, buffer, crashed>>

\* launchBinary, once the binary is found.  The process before is terminated.
UserLaunch ==
    /\ needsLaunch
    /\ ~launching
    /\ launches + 1 \in Conn
    /\ launches' = launches + 1
    /\ Clear
    /\ EndProcess
    /\ \/ /\ up' = "starting"
          /\ launching' = TRUE
          /\ timer' = TRUE
       \/ /\ "launch" \in Faults
          /\ up' = "exited"
          /\ launching' = FALSE
          /\ UNCHANGED timer
    /\ crashed' = FALSE
    /\ UNCHANGED <<needsLaunch, linkVars, buffer>>

-----------------------------------------------------------------------------
(* The event loop *)

\* The events of the connection before, which was closed with its process, are
\* delivered long before the timer.
Timeout ==
    /\ timer
    /\ net = "unconnected"
    /\ timer' = FALSE
    /\ needsLaunch' = FALSE
    /\ launching' = FALSE
    /\ net' = "connecting"
    /\ sock' = launches
    /\ UNCHANGED <<serverVars, launches, connected, buffer, screenVars, crashed, overtaken>>

OnConnected ==
    /\ net = "connecting"
    /\ sock = launches
    /\ Connect(sock)
    /\ net' = "connected"
    /\ connected' = TRUE
    /\ needsLaunch' = FALSE
    /\ UNCHANGED <<launches, launching, timer, sock, buffer, screenVars, crashed, overtaken>>

\* Nobody listens: the process is not there yet, or not any more.
OnRefused ==
    /\ net = "connecting"
    /\ up # "listening" \/ sock # launches
    /\ net' = "unconnected"
    /\ ClientError
    /\ UNCHANGED <<serverVars, launches, launching, timer, connected, sock, buffer,
                   screenVars, crashed, overtaken>>

\* onReadyRead, one piece at a time.
NextPiece == wrote[sock][taken[sock] + 1]

Readable ==
    /\ net = "connected"
    /\ Receive(sock)

ReadBody ==
    /\ Readable
    /\ NextPiece # Newline
    /\ buffer' = Append(buffer, NextPiece)
    /\ UNCHANGED <<launchVars, linkVars, screenVars, crashed, overtaken>>

ReadLine ==
    /\ Readable
    /\ NextPiece = Newline
    /\ Len(buffer) = 1
    /\ buffer' = <<>>
    /\ OnSnapshot(Parsed(buffer[1]))
    /\ UNCHANGED <<launchVars, linkVars, crashed, overtaken>>

\* Two objects on one line do not parse.
ReadGarbledLine ==
    /\ Readable
    /\ NextPiece = Newline
    /\ Len(buffer) > 1
    /\ buffer' = <<>>
    /\ ClientError
    /\ UNCHANGED <<launches, launching, timer, linkVars, screenVars, crashed, overtaken>>

\* The end of the stream, behind its last byte: the error is reported while
\* m_connected still holds, then the disconnection.
OnDisconnected ==
    /\ net = "connected"
    /\ stage[sock] = "over"
    /\ taken[sock] = Len(wrote[sock])
    /\ Close(sock)
    /\ ClientError
    /\ net' = "unconnected"
    /\ connected' = FALSE
    /\ UNCHANGED <<launches, launching, timer, sock, buffer, screenVars, crashed, overtaken>>

EventLoop ==
    \/ Timeout
    \/ OnConnected
    \/ OnRefused
    \/ ReadBody
    \/ ReadLine
    \/ ReadGarbledLine
    \/ OnDisconnected

-----------------------------------------------------------------------------

\* The process ends by itself: accept fails, or something outside ends it.
Crash ==
    /\ \/ AcceptFails
       \/ /\ "crash" \in Faults
          /\ up # "exited"
          /\ up' = "exited"
          /\ EndProcess
    /\ crashed' = TRUE
    /\ UNCHANGED <<launchVars, linkVars, buffer, screenVars, overtaken>>

ServerRuns == Serve /\ UNCHANGED viewerVars

User == UserStep \/ UserReset \/ UserReconfigure \/ UserLaunch

ViewerNext == User \/ EventLoop \/ ServerRuns \/ Crash

\* The event loop and the process run when they can; the user need not act.
ViewerSpec ==
    /\ ViewerInit
    /\ [][ViewerNext]_vars
    /\ WF_vars(EventLoop)
    /\ WF_vars(ServerRuns)

-----------------------------------------------------------------------------
(* Properties *)

\* All histories have the same ticks, the last ones of the run on the screen,
\* without gap or repetition, up to the tick on the screen, and from its first
\* tick as long as they are not full: if no reset, reconfigure or launch overtook
\* a reply.  (What the panels take the place in a full list for is IndexIsTick.)
HistoryIsRun ==
    LET n == IF shown.tick < MaxHistory THEN shown.tick ELSE MaxHistory
    IN  ~overtaken => \A h \in History :
            history[h] = [i \in 1 .. n |-> [shown EXCEPT !.tick = @ - n + i]]

\* prevEvents, from which the UI highlights a preempted process one tick later,
\* are those of the tick before the one on the screen (SimController.h:20-22).
PrevIsTickBefore ==
    ~overtaken =>
    /\ shown.tick > 1 => prev = [shown EXCEPT !.tick = @ - 1]
    /\ shown.tick <= 1 => prev \in {NoSnapshot, [shown EXCEPT !.tick = 0]}

\* With every command answered the screen shows where the simulation is; a viewer
\* that shows nothing is connected to a simulation that has not started
\* (LaunchTalksToAFreshSimulationEndToEnd in test_sim_controller.cpp).
ScreenIsCurrent ==
    ~overtaken /\ connected /\ Settled /\ stage[sock] # "over" =>
        /\ shown.tick = sim.tick
        /\ shown # NoSnapshot => shown = sim

\* The user can always do something, or the viewer is about to: unless the server
\* died by itself there is a connection, one on its way, an overlay to launch
\* from, or the timer of a launch; a run that is finished does not count, as
\* without a connection its reset goes nowhere.
NotStranded ==
    /\ launching <=> timer
    /\ ~crashed => connected \/ needsLaunch \/ net = "connecting"

\* A launch ends in a connection or back at the overlay.
LaunchResolves == launching ~> (connected \/ (needsLaunch /\ ~launching))

\* Every command sent is answered, or the viewer notices that its server is gone.
CommandsEnd ==
    \A c \in Conn : \A n \in 1 .. MaxSend[c] :
        (open[c] /\ Len(sent[c]) >= n) ~> (taken[c] >= 2 * n \/ ~open[c])

\* The comment of onSnapshot (SimController.cpp:251-253): what was processed must
\* not append to the histories, or they grow phantom ticks; their ticks ascend.
NoPhantomTicks ==
    \A h \in History : \A i, j \in DOMAIN history[h] :
        i < j => history[h][i].tick < history[h][j].tick

\* InspectorPanel.qml:19-20, "Stepping back browses the recorded history; index =
\* tick - 1", and ProcessDetail.qml:16: the panels show the place in the list as
\* the tick (the first place is 1 here).
IndexIsTick ==
    ~overtaken => \A h \in {"raw", "events"} : \A i \in DOMAIN history[h] :
        history[h][i].tick = i

\* SimClient.h:8, "Emits snapshotReceived for each complete JSON line from the
\* server": a newline that is read delivers the object written before it.
EachLineEmitted ==
    [][net = "connected" /\ Receive(sock) /\ NextPiece = Newline =>
           shown' = Parsed(wrote[sock][taken[sock]])]_vars

=============================================================================
