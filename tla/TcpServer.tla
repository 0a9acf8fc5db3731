------------------------------ MODULE TcpServer ------------------------------
(***************************************************************************)
(* The command server of apps/common/emit_tcp.c and the connections to it. *)
(* One thread accepts a client, reads its command lines and writes a line   *)
(* of reply to each until the client is gone, then accepts the next one;   *)
(* the simulation outlives them.                                           *)
(*                                                                         *)
(* Of the simulation only its clock matters here: sim_step advances it     *)
(* until the run is done, at tick Length (a run is reproducible from its   *)
(* configuration, so that every reset runs the same length), and a reset   *)
(* makes a new run.                                                        *)
(*                                                                         *)
(* A reply is written by two calls, its body and its newline, and a write  *)
(* may be short: what a client has read may end anywhere.  The model has   *)
(* the two pieces; a longer split of the body is no different to a reader  *)
(* who waits for the newline.                                              *)
(***************************************************************************)
EXTENDS Integers, Sequences

CONSTANTS
    Conn,       \* connections; each is used once
    Command,    \* lines a client sends
    Length,     \* ticks until sim_is_done
    Backlog,    \* connections that wait to be accepted
    SockBuf,    \* pieces that a client may leave unread before a write blocks
    MaxSend,    \* bound: lines sent on each connection
    Faults      \* failures the environment may show

ASSUME LengthAssumption == Length \in Nat \ {0}
ASSUME BufferAssumption == Backlog \in Nat /\ SockBuf \in Nat /\ MaxSend \in [Conn -> Nat]
ASSUME CommandAssumption == Command \subseteq {"step", "status", "reset", "bogus"}
ASSUME FaultAssumption == Faults \subseteq {"setup", "accept", "reset", "launch", "crash"}

VARIABLES
    up,         \* the process: "starting", "listening" or "exited"
    sim,        \* [run, tick]; the number of the run is not in the code
    stage,      \* stage[c]: "unused", "queued", "served" or "over", for the server
    open,       \* open[c]: the client has connected and not closed
    backlog,    \* connections accepted by the kernel, not by the server
    out,        \* pieces of the current reply, still to be written
    sent,       \* sent[c]: every line the client has written
    read,       \* read[c]: how many of them the server has read
    wrote,      \* wrote[c]: every piece the server has written
    taken       \* taken[c]: how many of them the client has read

simVars == <<up, sim>>
serverVars == <<up, sim, stage, open, backlog, out, sent, read, wrote, taken>>

Run == [run : Nat, tick : 0 .. Length]

Piece == [what : {"snapshot", "error", "newline"}, sim : Run]
Newline == [what |-> "newline", sim |-> [run |-> 0, tick |-> 0]]

Done(s) == s.tick >= Length
Fresh(s) == [run |-> s.run + 1, tick |-> 0]
Stepped(s) == IF Done(s) THEN s ELSE [s EXCEPT !.tick = @ + 1]

\* Slip: the newline is forgotten.
ReplyUnterminated(what, s) == <<[what |-> what, sim |-> s]>>

\* send_snapshot and send_error.  An error line carries no simulation; the field
\* records the one that was there, for the properties.
Reply(what, s) == <<[what |-> what, sim |-> s], Newline>>

Served(c) == stage[c] = "served"
Busy == \E c \in Conn : Served(c)

InitAs(u) ==
    /\ up = u
    /\ sim = [run |-> 0, tick |-> 0]
    /\ stage = [c \in Conn |-> "unused"]
    /\ open = [c \in Conn |-> FALSE]
    /\ backlog = <<>>
    /\ out = <<>>
    /\ sent = [c \in Conn |-> <<>>]
    /\ read = [c \in Conn |-> 0]
    /\ wrote = [c \in Conn |-> <<>>]
    /\ taken = [c \in Conn |-> 0]

Init == InitAs("starting")

-----------------------------------------------------------------------------
(* Clients *)

\* The kernel completes a connection when there is room in the backlog.
Connect(c) ==
    /\ up = "listening"
    /\ stage[c] = "unused"
    /\ Len(backlog) < Backlog
    /\ stage' = [stage EXCEPT ![c] = "queued"]
    /\ open' = [open EXCEPT ![c] = TRUE]
    /\ backlog' = Append(backlog, c)
    /\ UNCHANGED <<up, sim, out, sent, read, wrote, taken>>

\* Bytes are buffered on their way, those of a connection still being made too.
Written(c, cmd) ==
    /\ Len(sent[c]) < MaxSend[c]
    /\ sent' = [sent EXCEPT ![c] = Append(@, cmd)]
    /\ UNCHANGED <<up, sim, stage, open, backlog, out, read, wrote, taken>>

Send(c, cmd) == open[c] /\ Written(c, cmd)

Receive(c) ==
    /\ open[c]
    /\ taken[c] < Len(wrote[c])
    /\ taken' = [taken EXCEPT ![c] = @ + 1]
    /\ UNCHANGED <<up, sim, stage, open, backlog, out, sent, read, wrote>>

Close(c) ==
    /\ open[c]
    /\ open' = [open EXCEPT ![c] = FALSE]
    /\ UNCHANGED <<up, sim, stage, backlog, out, sent, read, wrote, taken>>

-----------------------------------------------------------------------------
(* The server *)

\* The end of the process, however it comes about: its sockets are closed, and
\* what it has written can still be read.
EndProcess ==
    /\ stage' = [c \in Conn |-> IF stage[c] \in {"queued", "served"} THEN "over" ELSE stage[c]]
    /\ backlog' = <<>>
    /\ out' = <<>>
    /\ UNCHANGED <<sim, open, sent, read, wrote, taken>>

Start ==
    /\ up = "starting"
    /\ \/ /\ up' = "listening"
          /\ sim' = Fresh(sim)
       \/ /\ "setup" \in Faults
          /\ up' = "exited"
          /\ UNCHANGED sim
    /\ UNCHANGED <<stage, open, backlog, out, sent, read, wrote, taken>>

\* Slip: no loop around accept.
AcceptOnce ==
    /\ up = "listening"
    /\ ~Busy
    /\ \A c \in Conn : stage[c] # "over"
    /\ backlog # <<>>
    /\ stage' = [stage EXCEPT ![Head(backlog)] = "served"]
    /\ backlog' = Tail(backlog)
    /\ UNCHANGED <<up, sim, open, out, sent, read, wrote, taken>>

Accept ==
    /\ up = "listening"
    /\ ~Busy
    /\ backlog # <<>>
    /\ stage' = [stage EXCEPT ![Head(backlog)] = "served"]
    /\ backlog' = Tail(backlog)
    /\ UNCHANGED <<up, sim, open, out, sent, read, wrote, taken>>

\* Any failure of accept ends the server.
AcceptFails ==
    /\ "accept" \in Faults
    /\ up = "listening"
    /\ ~Busy
    /\ up' = "exited"
    /\ EndProcess

\* The server is in recv_line, for a line that is there.
NextLine(c, cmd) ==
    /\ Served(c)
    /\ out = <<>>
    /\ read[c] < Len(sent[c])
    /\ sent[c][read[c] + 1] = cmd
    /\ read' = [read EXCEPT ![c] = @ + 1]

\* Slip: a step after the end of the run has no reply.
HandleStepSilent(c) ==
    /\ NextLine(c, "step")
    /\ sim' = Stepped(sim)
    /\ out' = IF Done(sim) THEN <<>> ELSE Reply("snapshot", sim')
    /\ UNCHANGED <<up, stage, open, backlog, sent, wrote, taken>>

HandleStep(c) ==
    /\ NextLine(c, "step")
    /\ sim' = Stepped(sim)
    /\ out' = Reply("snapshot", sim')
    /\ UNCHANGED <<up, stage, open, backlog, sent, wrote, taken>>

HandleStatus(c) ==
    /\ NextLine(c, "status")
    /\ out' = Reply("snapshot", sim)
    /\ UNCHANGED <<up, sim, stage, open, backlog, sent, wrote, taken>>

\* Slip: the snapshot is sent before the simulation is replaced.
HandleResetLate(c) ==
    /\ NextLine(c, "reset")
    /\ sim' = Fresh(sim)
    /\ out' = Reply("snapshot", sim)
    /\ UNCHANGED <<up, stage, open, backlog, sent, wrote, taken>>

\* Slip: the reset is not answered.
HandleResetSilent(c) ==
    /\ NextLine(c, "reset")
    /\ sim' = Fresh(sim)
    /\ UNCHANGED <<up, stage, open, backlog, out, sent, wrote, taken>>

\* If sim_create fails the old simulation stays.
HandleReset(c) ==
    /\ NextLine(c, "reset")
    /\ \/ /\ sim' = Fresh(sim)
          /\ out' = Reply("snapshot", sim')
       \/ /\ "reset" \in Faults
          /\ out' = Reply("error", sim)
          /\ UNCHANGED sim
    /\ UNCHANGED <<up, stage, open, backlog, sent, wrote, taken>>

HandleInvalid(c) ==
    /\ NextLine(c, "bogus")
    /\ out' = Reply("error", sim)
    /\ UNCHANGED <<up, sim, stage, open, backlog, sent, wrote, taken>>

Handle(c) == HandleStep(c) \/ HandleStatus(c) \/ HandleReset(c) \/ HandleInvalid(c)

Write(c) ==
    /\ Served(c)
    /\ out # <<>>
    /\ open[c]
    /\ Len(wrote[c]) - taken[c] < SockBuf
    /\ wrote' = [wrote EXCEPT ![c] = Append(@, Head(out))]
    /\ out' = Tail(out)
    /\ UNCHANGED <<up, sim, stage, open, backlog, sent, read, taken>>

HangUp(c) ==
    /\ stage' = [stage EXCEPT ![c] = "over"]
    /\ out' = <<>>
    /\ UNCHANGED <<up, sim, open, backlog, sent, read, wrote, taken>>

\* To a client that is gone the first write may still seem to succeed; one that
\* fails ends the session.
WriteToNobody(c) ==
    /\ Served(c)
    /\ out # <<>>
    /\ ~open[c]
    /\ \/ HangUp(c)
       \/ /\ out' = Tail(out)
          /\ UNCHANGED <<up, sim, stage, open, backlog, sent, read, wrote, taken>>

\* recv_line returns -1: after the last line of a client that closed, or at once
\* when the connection was reset.
EndOfInput(c) ==
    /\ Served(c)
    /\ out = <<>>
    /\ ~open[c]
    /\ HangUp(c)

Serve ==
    \/ Start
    \/ Accept
    \/ \E c \in Conn : Handle(c) \/ Write(c) \/ WriteToNobody(c) \/ EndOfInput(c)

ServerStep == Serve \/ AcceptFails

ClientStep(c) ==
    \/ Connect(c)
    \/ \E cmd \in Command : Send(c, cmd)
    \/ Receive(c)
    \/ Close(c)

Next == ServerStep \/ \E c \in Conn : ClientStep(c)

\* The server is a process that runs whenever it can, and a client reads what is
\* there for it; nobody has to connect, to send or to close, and nothing has to
\* fail.
Spec ==
    /\ Init
    /\ [][Next]_serverVars
    /\ WF_serverVars(Serve)
    /\ \A c \in Conn : WF_serverVars(Receive(c))

-----------------------------------------------------------------------------
(* Properties *)

TypeInvariant ==
    /\ up \in {"starting", "listening", "exited"}
    /\ sim \in Run
    /\ stage \in [Conn -> {"unused", "queued", "served", "over"}]
    /\ open \in [Conn -> BOOLEAN]
    /\ backlog \in Seq(Conn)
    /\ out \in Seq(Piece)
    /\ sent \in [Conn -> Seq(Command)]
    /\ read \in [Conn -> Nat]
    /\ wrote \in [Conn -> Seq(Piece)]
    /\ taken \in [Conn -> Nat]

\* What was written for a connection, with what is on its way.
Output(c) == wrote[c] \o IF Served(c) THEN out ELSE <<>>

\* A client gets one line for each command, in order and never two run together:
\* after every line that was read the output is a body and a newline in turn,
\* as long as the client is there (emit_tcp.h: "one command per line, and
\* receives one JSON line per command").
OneLineEach ==
    \A c \in Conn :
        Served(c) /\ open[c] =>
            /\ Len(Output(c)) = 2 * read[c]
            /\ \A i \in DOMAIN Output(c) : Output(c)[i] = Newline <=> i % 2 = 0

\* The reply to cmd when the simulation was s before it.
Answers(cmd, s, p) ==
    CASE cmd = "step" -> p = [what |-> "snapshot", sim |-> Stepped(s)]
      [] cmd = "status" -> p = [what |-> "snapshot", sim |-> s]
      [] cmd = "reset" -> \/ p = [what |-> "snapshot", sim |-> Fresh(s)]
                          \/ p = [what |-> "error", sim |-> s]
      [] OTHER -> p = [what |-> "error", sim |-> s]

\* A session has the simulation for itself: each reply follows from the one
\* before it and from its own command, whoever else is connected, waits or has
\* left (serve_client handles one client until it disconnects).
SessionsExclusive ==
    \A c \in Conn : \A k \in 2 .. read[c] :
        open[c] /\ 2 * k - 1 <= Len(Output(c)) =>
            Answers(sent[c][k], Output(c)[2 * k - 3].sim, Output(c)[2 * k - 1])

\* Every command of a client that is served, reads and stays is answered.
AllAnswered ==
    \A c \in Conn : \A n \in 1 .. MaxSend[c] :
        (Served(c) /\ Len(sent[c]) >= n) ~> (taken[c] >= 2 * n \/ ~open[c])

\* Whoever waits is served in the end, or refused by the end of the server, if no
\* client stays for ever: one that leaves, be it in the middle of a reply, does
\* not hold the server.
WaitingServed ==
    ([]<>(\A c \in Conn : ~(Served(c) /\ open[c]))) =>
        \A c \in Conn : stage[c] = "queued" ~> stage[c] # "queued"

=============================================================================
