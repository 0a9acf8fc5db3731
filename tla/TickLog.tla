------------------------------ MODULE TickLog -------------------------------
(***************************************************************************)
(* What sim_step tells its observers about the tick that just ran, on top  *)
(* of Simulation: the bounded event log (struct SimEvent, add_event) and   *)
(* the last_* fields, and the two views built from them, snapshot_to_json  *)
(* (apps/common/snapshot.c) and print_tick_trace (apps/rr-feedback/        *)
(* display.c).  Every action is an action of Simulation with its events.   *)
(***************************************************************************)
EXTENDS Simulation, SequencesExt

CONSTANT MaxEvents      \* SIM_MAX_EVENTS

ASSUME MaxEventsAssumption == MaxEvents \in Nat

VARIABLES
    events,     \* the log of the last tick
    last        \* which process left the CPU on the last tick, and how

logVars == <<events, last>>
allVars == <<vars, events, last>>

-----------------------------------------------------------------------------
(* Slips, as in Simulation.                                                *)

\* Every return from I/O logged as a return to hi.
IoReturnToHi(p, d) == [type |-> "io_return", pid |-> p, device |-> d, lane |-> "hi"]

\* No branch for a completed process.
SnapshotCpuNoCompleted ==
    IF running # NULL
    THEN [pid |-> running, used |-> quantumUsed, max |-> QuantumOf(running),
          ghost |-> "none"]
    ELSE IF last.kind \in {"preempted", "io_start"}
    THEN [pid |-> last.pid, used |-> last.used, max |-> scn.quantum[last.priority],
          ghost |-> last.kind]
    ELSE [pid |-> NULL]

\* The skip of an io_start ghost forgotten.
SnapshotQueueIoGhostTwice(l) ==
    IF l = "lo" /\ last.kind = "preempted"
    THEN Keep(queue[l], Pid \ {last.pid}) ELSE queue[l]

-----------------------------------------------------------------------------
(* The event log.                                                          *)

\* add_event: what does not fit is dropped.
AddEvents(log, new) ==
    LET room == MaxEvents - Len(log)
    IN  log \o SubSeq(new, 1, IF Len(new) < room THEN Len(new) ELSE room)

\* The sequence f of events, one per element of q.
EventsOf(q, f(_)) == [i \in DOMAIN q |-> f(q[i])]

Arrived(p) == [type |-> "arrived", pid |-> p]
Scheduled(p, l) == [type |-> "scheduled", pid |-> p, lane |-> l]
IoReturn(p, d) == [type |-> "io_return", pid |-> p, device |-> d, lane |-> ReturnLane(d)]
IoTick(p, d) == [type |-> "io_tick", pid |-> p, device |-> d, remaining |-> ioRemaining[p] - 1]
IoStart(p, d, n) == [type |-> "io_start", pid |-> p, device |-> d, remaining |-> n]
Preempted(p, used, max) == [type |-> "preempted", pid |-> p, used |-> used, max |-> max]
Completed(p) == [type |-> "completed", pid |-> p]

\* The events of phases 1 to 4, in the order of the code.
ReturnEvents(d) == EventsOf(Finished(d), LAMBDA p : IoReturn(p, d))
ServiceEvents(d) ==
    EventsOf(Keep(InService(d), Served(d)), LAMBDA p : IoTick(p, d))
EventsBefore(b) ==
    EventsOf(Ascending(Arriving), Arrived)
    \o ReturnEvents("disk") \o ReturnEvents("tape") \o ReturnEvents("printer")
    \o (IF b.dispatched THEN <<Scheduled(b.cpu, b.from)>> ELSE <<>>)
    \o ServiceEvents("disk") \o ServiceEvents("tape") \o ServiceEvents("printer")

Log(b, e) == events' = AddEvents(<<>>, EventsBefore(b) \o e)

-----------------------------------------------------------------------------
(* The steps of Simulation with what they record.                          *)

\* last_preempted, last_completed and last_io_started are cleared by every
\* step and at most one is set again; last keeps the one that is set, with
\* the quantum it had used and its priority before any demotion.  (The device
\* of last_io_started is that of the event io_start.)
NoLast == [kind |-> "none", pid |-> NULL]
Left(b, kind, used) ==
    [kind |-> kind, pid |-> b.cpu, priority |-> priority[b.cpu], used |-> used]

LoggedIdle(b) == IdleTick(b) /\ Log(b, <<>>) /\ last' = NoLast
LoggedRun(b) == RunTick(b) /\ Log(b, <<>>) /\ last' = NoLast

LoggedIo(b) ==
    /\ ScriptedIoTick(b) \/ RandomIoTick(b)
    /\ \E d \in Device :
          /\ b.cpu \in Members(queue'[d])
          /\ Log(b, <<IoStart(b.cpu, d, ioRemaining'[b.cpu])>>)
    /\ last' = Left(b, "io_start", b.quantumUsed)

LoggedComplete(b) ==
    /\ CompleteTick(b)
    /\ Log(b, <<Completed(b.cpu)>>)
    /\ last' = Left(b, "completed", b.quantumUsed + 1)

LoggedPreempt(b) ==
    /\ PreemptTick(b)
    /\ Log(b, <<Preempted(b.cpu, b.quantumUsed + 1, QuantumOf(b.cpu))>>)
    /\ last' = Left(b, "preempted", b.quantumUsed + 1)

LogInit == Init /\ events = <<>> /\ last = NoLast
LogStep ==
    \E b \in {AtPhase5} :
        \/ LoggedIdle(b)
        \/ LoggedRun(b)
        \/ LoggedIo(b)
        \/ LoggedComplete(b)
        \/ LoggedPreempt(b)
LogSpec == LogInit /\ [][LogStep]_allVars

-----------------------------------------------------------------------------
(* The log, replayed on the places the processes were in.                  *)

\* Where everything is: the queues, the CPU and what is done or pending.
Places == [queue |-> queue, cpu |-> running]

Without(q, p) == Keep(q, Pid \ {p})

\* What an event says happened to the places.
Replay(at, e) ==
    LET lane(l) == Append(at.queue[l], e.pid)
    IN  CASE e.type = "arrived" -> [at EXCEPT !.queue["hi"] = lane("hi")]
          [] e.type = "io_return" ->
                [at EXCEPT !.queue[e.device] = Without(@, e.pid),
                           !.queue[e.lane] = lane(e.lane)]
          [] e.type = "scheduled" ->
                [at EXCEPT !.queue[e.lane] = Without(@, e.pid), !.cpu = e.pid]
          [] e.type = "io_start" ->
                [at EXCEPT !.queue[e.device] = lane(e.device), !.cpu = NULL]
          [] e.type = "preempted" ->
                [at EXCEPT !.queue["lo"] = lane("lo"), !.cpu = NULL]
          [] e.type = "completed" -> [at EXCEPT !.cpu = NULL]
          [] OTHER -> at

\* "events[] array encoding all transitions" (apps/viewer/src/SimController.h):
\* the log of a tick, applied to the places before it, gives the places after
\* it.  An observer needs nothing else to follow the simulation.
LogExplainsStep ==
    [][Places' = FoldLeft(Replay, Places, events')]_allVars

-----------------------------------------------------------------------------
(* The views.                                                              *)

QuantumFor(prio) == scn.quantum[prio]

\* snapshot_to_json, member "cpu": the running process, or the one that left
\* the CPU on this tick, as a ghost; NULL when the tick was idle.
SnapshotCpu ==
    IF running # NULL
    THEN [pid |-> running, used |-> quantumUsed, max |-> QuantumOf(running),
          ghost |-> "none"]
    ELSE IF last.kind # "none"
    THEN [pid |-> last.pid, used |-> last.used, max |-> QuantumFor(last.priority),
          ghost |-> last.kind]
    ELSE [pid |-> NULL]

\* The member "queues": a process shown as a preempted or io_start ghost is
\* left out of the queue it has just entered.
SnapshotQueue(l) ==
    IF \/ l = "lo" /\ last.kind = "preempted"
       \/ l \in Device /\ last.kind = "io_start"
    THEN Keep(queue[l], Pid \ {last.pid}) ELSE queue[l]

\* The member "finished".
SnapshotFinished == {p \in Pid : status[p] = "DONE"}

\* print_tick_trace, line "CPU": there is no branch for last_completed.
TraceCpu ==
    IF running # NULL THEN running
    ELSE IF last.kind \in {"preempted", "io_start"} THEN last.pid
    ELSE NULL

\* The places of a snapshot in which process p is shown.
ShownIn(p) ==
    {l \in Lane : p \in Members(SnapshotQueue(l))}
    \cup (IF SnapshotCpu.pid = p THEN {"cpu"} ELSE {})
    \cup (IF p \in SnapshotFinished THEN {"finished"} ELSE {})

\* A snapshot shows every process that has arrived in one place, and once:
\* the ghost of a completed process is the one that is shown twice, on the CPU
\* and as finished.  A ghost that were not left out of its queue, or a skip
\* taken for another queue, would show a process twice or not at all.
ShownOnce ==
    \A p \in Pid :
        /\ p \in pending <=> ShownIn(p) = {}
        /\ Cardinality(ShownIn(p)) > 1 =>
               /\ ShownIn(p) = {"cpu", "finished"}
               /\ SnapshotCpu.ghost = "completed"
        /\ \A l \in Lane : Cardinality({i \in DOMAIN SnapshotQueue(l) :
                                          SnapshotQueue(l)[i] = p}) <= 1

\* The process a snapshot shows on the CPU, other than as a ghost that left for
\* I/O, is the one that consumed the tick.
SnapshotShowsWhoRan(p) ==
    cpuTicks'[p] = cpuTicks[p] + 1 <=>
        SnapshotCpu'.pid = p /\ SnapshotCpu'.ghost # "io_start"

\* The trace of the command line shows who was on the CPU, whether it consumed
\* the tick or left for I/O, with one exception: a tick on which a process
\* completes looks idle, though "displays must not show idle" then (comment of
\* last_completed, simulation.h:49-50).
TraceShowsWhoStayed(p) ==
    TraceCpu' = p <=>
        \/ cpuTicks'[p] # cpuTicks[p] /\ status'[p] # "DONE"
        \/ ioCount'[p] # ioCount[p]

\* Both views of the CPU are truthful; in particular none shows anybody on a tick
\* that nobody consumed or left.
CpuShownRan == [][\A p \in Pid : SnapshotShowsWhoRan(p) /\ TraceShowsWhoStayed(p)]_allVars
=============================================================================
