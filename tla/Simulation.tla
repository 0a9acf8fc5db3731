----------------------------- MODULE Simulation -----------------------------
(***************************************************************************)
(* The scheduling core of cutesim: struct Simulation and sim_step          *)
(* (src/simulation.c), with the process record (process.c) and the queues  *)
(* (queue.c) it works on.                                                  *)
(*                                                                         *)
(* sim_step is one call that nothing can observe half done, so each action *)
(* below is the whole call.  The phases of the code are state functions    *)
(* that read each other in the order of the code (arrivals, returns from   *)
(* I/O, dispatch, device service); the actions are the outcomes of its     *)
(* phase 5.  The event log and the last_* fields, which sim_step writes    *)
(* and never reads, are added by TickLog.                                  *)
(*                                                                         *)
(* The pseudo-random generator is abstracted to its range: a roll or a     *)
(* sampled duration is any value rng_roll or rng_range can return.         *)
(***************************************************************************)
EXTENDS Records, FiniteSets, QueueOrder

CONSTANTS
    N,          \* number of processes handed to sim_add_process
    Scenarios,  \* the workloads and configurations the runs start from
    MaxTick     \* number of sim_step calls the driver makes at most

\* Process identifiers.  Every caller numbers pid and creation_seq together.
Pid == 1..N
NULL == 0

\* The queues of struct Simulation: two of ready processes, one per device.
Lane == {"hi", "lo"} \cup Device
Status == {"READY", "RUNNING", "BLOCKED", "DONE"}
Priority == {"HIGH", "LOW"}

\* SimConfig, as far as sim_step reads it, with the workload added to it.
Scenario ==
    [quantum  : [Priority -> Int],
     pIo      : Int, 
     pDisk    : Int,
     pTape    : Int,
     mode     : [Device -> {"concurrent", "queue"}],
     duration : [Device -> Duration],
     arrival  : [Pid -> Int],
     burst    : [Pid -> Int],
     script   : [Pid -> Seq(ScriptedIO)]]

ASSUME NAssumption == N \in Nat
ASSUME MaxTickAssumption == MaxTick \in Nat
ASSUME ScenariosAssumption ==
    \A s \in Scenarios :
        /\ s \in Scenario
        /\ \A p \in Pid : ValidScript(s.script[p], s.burst[p])

VARIABLES
    scn,            \* the scenario being run; never changes
    tick,
    pending,        \* processes that have not arrived
    queue,          \* queue[l] is the queue l, head first
    running,
    quantumUsed,
    status, priority, cpuTicks, ioCount, ioRemaining, scriptPos,
    ioTicks,        \* per device; the code's io_ticks is their sum
    firstCpuTick, completionTick

procVars == <<status, priority, cpuTicks, ioCount, ioRemaining, scriptPos,
              ioTicks, firstCpuTick, completionTick>>
vars == <<scn, tick, pending, queue, running, quantumUsed, procVars>>

-----------------------------------------------------------------------------
(* The state after sim_create, process_create and sim_add_process.         *)

ProcessInit ==
    /\ status = [p \in Pid |-> "READY"]
    /\ priority = [p \in Pid |-> "HIGH"]
    /\ cpuTicks = [p \in Pid |-> 0]
    /\ ioCount = [p \in Pid |-> 0]
    /\ ioRemaining = [p \in Pid |-> 0]
    /\ scriptPos = [p \in Pid |-> 0]
    /\ ioTicks = [p \in Pid |-> [d \in Device |-> 0]]
    /\ firstCpuTick = [p \in Pid |-> -1]
    /\ completionTick = [p \in Pid |-> -1]

Init ==
    /\ scn \in Scenarios
    /\ tick = 0
    /\ pending = Pid
    /\ queue = [l \in Lane |-> <<>>]
    /\ running = NULL
    /\ quantumUsed = 0
    /\ ProcessInit

\* process_set_status: a transition that is not allowed leaves the status
\* alone (must_set_status asserts that this never happens).
Allowed ==
    {<<"READY", "RUNNING">>, <<"RUNNING", "READY">>, <<"RUNNING", "BLOCKED">>,
     <<"RUNNING", "DONE">>, <<"BLOCKED", "READY">>}
SetStatus(from, to) == IF <<from, to>> \in Allowed THEN to ELSE from

-----------------------------------------------------------------------------
(* Slips: what the code could say by a small mistake.  No action uses      *)
(* them; each takes the place of the definition it resembles to show that  *)
(* a property would notice (README, "Mutations").                          *)

\* The arrival test one tick early, one that expects the next tick, and one
\* that also lets in what should have arrived before.
EarlyArriving == {p \in pending : scn.arrival[p] <= tick + 1}
MissedArriving == {p \in pending : scn.arrival[p] = tick + 1}
LateArriving == {p \in pending : scn.arrival[p] <= tick}

\* The finished processes are copied to the ready queue and not unlinked.
NothingUnlinked(d) == queue[d]

\* Only the hi queue is looked at.
HiOnly(hi, lo) == IF hi # <<>> THEN "hi" ELSE "none"

\* A dispatch that does not reset quantum_used.
QuantumKept(dispatched) == quantumUsed

\* Devices ticked before the finished processes leave; no break after the
\* head in queue mode; a break before it.
ServedBeforeReturn(d) ==
    IF scn.mode[d] = "concurrent" \/ queue[d] = <<>>
    THEN Members(queue[d]) ELSE {Head(queue[d])}
ServedAll(d) == Members(Keep(queue[d], {p \in Pid : ioRemaining[p] > 0}))
ServedNobody(d) ==
    IF scn.mode[d] = "concurrent"
    THEN Members(Keep(queue[d], {p \in Pid : ioRemaining[p] > 0})) ELSE {}

\* The script tested after the tick is counted.
ScriptDueAfter(p) ==
    /\ scriptPos[p] < Len(scn.script[p])
    /\ scn.script[p][scriptPos[p] + 1].serviceTick = cpuTicks[p] + 1

\* s->running kept by a process that leaves for I/O.
BlockKeepsCpu(b, d, n) ==
    /\ ioRemaining' = [b.ioRemaining EXCEPT ![b.cpu] = n]
    /\ ioCount' = [ioCount EXCEPT ![b.cpu] = @ + 1]
    /\ status' = [b.status EXCEPT ![b.cpu] = SetStatus(@, "BLOCKED")]
    /\ queue' = [b.queue EXCEPT ![d] = Append(@, b.cpu)]
    /\ running' = b.cpu
    /\ quantumUsed' = b.quantumUsed
    /\ UNCHANGED <<priority, cpuTicks, completionTick>>

\* The service counted down instead of up.
ConsumeDown(b) ==
    /\ cpuTicks' = [cpuTicks EXCEPT ![b.cpu] = @ - 1]
    /\ ioRemaining' = b.ioRemaining
    /\ UNCHANGED <<ioCount, scriptPos>>

\* The burst and the quantum compared before the tick is counted.
BurstOverLate(p) == scn.burst[p] > 0 /\ cpuTicks[p] >= scn.burst[p]
QuantumOverLate(b) == b.quantumUsed >= scn.quantum[priority[b.cpu]]

-----------------------------------------------------------------------------
(* Phases 1 to 4.                                                          *)

\* Phase 1: the arrivals of this tick.
Arriving == {p \in pending : scn.arrival[p] = tick}

\* Phase 2: the processes whose I/O ended on an earlier tick leave device d,
\* in queue order, for the ready queue the feedback rule names.
Finished(d) == Keep(queue[d], {p \in Pid : ioRemaining[p] <= 0})
InService(d) == Keep(queue[d], {p \in Pid : ioRemaining[p] > 0})
Promoted == UNION {Members(Finished(d)) : d \in Device}

ReturnLane(d) == IF d = "disk" THEN "lo" ELSE "hi"

\* What the devices hand back to lane l, the devices in code order.
Returning(l) ==
    LET From(d) == IF ReturnLane(d) = l THEN Finished(d) ELSE <<>>
    IN  From("disk") \o From("tape") \o From("printer")

\* The ready queue l when phase 2 is over.
Ready(l) ==
    queue[l] \o (IF l = "hi" THEN Ascending(Arriving) ELSE <<>>) \o Returning(l)

\* Phase 3: where the next process comes from when the CPU is free.
SourceLane(hi, lo) ==
    IF hi # <<>> THEN "hi" ELSE IF lo # <<>> THEN "lo" ELSE "none"

\* quantum_used is reset by a dispatch.
QuantumAtStart(dispatched) == IF dispatched THEN 0 ELSE quantumUsed

\* Phase 4: a device serves all its processes or only the head.
Served(d) ==
    LET q == InService(d)
    IN  IF scn.mode[d] = "concurrent" \/ q = <<>> THEN Members(q) ELSE {Head(q)}

\* The state on which phase 5 decides.  Phase 3 dispatches the head of hi, or
\* of lo when hi is empty, if the CPU is free.
AtPhase5 ==
    LET hi == Ready("hi")
        lo == Ready("lo")
        from == SourceLane(hi, lo)
        dispatched == running = NULL /\ from # "none"
        cpu == IF dispatched THEN Head(IF from = "hi" THEN hi ELSE lo) ELSE running
        promoted == Promoted
        served == UNION {Served(d) : d \in Device}
        woken == [p \in Pid |-> IF p \in promoted THEN SetStatus(status[p], "READY")
                                                  ELSE status[p]]
    IN  [cpu |-> cpu,
         dispatched |-> dispatched,
         from |-> from,
         quantumUsed |-> QuantumAtStart(dispatched),
         queue |-> [l \in Lane |->
                      CASE l = "hi" -> IF dispatched /\ from = "hi" THEN Tail(hi) ELSE hi
                        [] l = "lo" -> IF dispatched /\ from = "lo" THEN Tail(lo) ELSE lo
                        [] OTHER -> InService(l)],
         status |-> IF dispatched
                    THEN [woken EXCEPT ![cpu] = SetStatus(@, "RUNNING")]
                    ELSE woken,
         ioRemaining |-> [p \in Pid |-> IF p \in served THEN ioRemaining[p] - 1
                                                        ELSE ioRemaining[p]]]

-----------------------------------------------------------------------------
(* Phase 5: what happens to the process on the CPU.  The parameter b is    *)
(* AtPhase5 in every use.                                                  *)

\* What every outcome shares: the rest of phases 1 to 4, and phase 6.
TickEffects(b) ==
    /\ tick < MaxTick
    /\ tick' = tick + 1
    /\ pending' = pending \ Arriving
    /\ ioTicks' = [p \in Pid |-> [d \in Device |->
                      IF p \in Served(d) THEN ioTicks[p][d] + 1
                                         ELSE ioTicks[p][d]]]
    /\ firstCpuTick' = IF b.dispatched /\ firstCpuTick[b.cpu] < 0
                       THEN [firstCpuTick EXCEPT ![b.cpu] = tick]
                       ELSE firstCpuTick
    /\ UNCHANGED scn

\* The script entry process p fires next; scriptPos counts those fired.
NextEntry(p) == scn.script[p][scriptPos[p] + 1]
ScriptDue(p) ==
    /\ scriptPos[p] < Len(scn.script[p])
    /\ NextEntry(p).serviceTick = cpuTicks[p]

\* select_device: the device a roll r of 0..99 falls on.
SelectDevice(r) ==
    IF r < scn.pDisk THEN "disk"
    ELSE IF r < scn.pDisk + scn.pTape THEN "tape" ELSE "printer"

\* rng_roll with p_io: never at 0 or less, always at 100 or more.
CanStartRandomIo == scn.pIo > 0
CanSkipRandomIo == scn.pIo < 100

\* The process on the CPU leaves it for device d, for n ticks of service.
Block(b, d, n) ==
    /\ ioRemaining' = [b.ioRemaining EXCEPT ![b.cpu] = n]
    /\ ioCount' = [ioCount EXCEPT ![b.cpu] = @ + 1]
    /\ status' = [b.status EXCEPT ![b.cpu] = SetStatus(@, "BLOCKED")]
    /\ queue' = [b.queue EXCEPT ![d] = Append(@, b.cpu)]
    /\ running' = NULL
    /\ quantumUsed' = b.quantumUsed
    /\ UNCHANGED <<priority, cpuTicks, completionTick>>

\* The process on the CPU consumes the tick.
Consume(b) ==
    /\ cpuTicks' = [cpuTicks EXCEPT ![b.cpu] = @ + 1]
    /\ ioRemaining' = b.ioRemaining
    /\ UNCHANGED <<ioCount, scriptPos>>

QuantumOf(p) == scn.quantum[priority[p]]
BurstOver(p) == scn.burst[p] > 0 /\ cpuTicks[p] + 1 >= scn.burst[p]
QuantumOver(b) == b.quantumUsed + 1 >= QuantumOf(b.cpu)

\* Nobody to run.
IdleTick(b) ==
    /\ b.cpu = NULL
    /\ TickEffects(b)
    /\ queue' = b.queue
    /\ status' = b.status
    /\ ioRemaining' = b.ioRemaining
    /\ UNCHANGED <<running, quantumUsed, priority, cpuTicks, ioCount, scriptPos,
                   completionTick>>

\* 5a: the scripted I/O that is due starts; the tick is not consumed.
ScriptedIoTick(b) ==
    /\ b.cpu # NULL
    /\ ScriptDue(b.cpu)
    /\ TickEffects(b)
    /\ LET e == NextEntry(b.cpu)
           dur == IF e.hasDuration THEN e.duration ELSE scn.duration[e.device]
       IN  \E n \in SampleDuration(dur) : Block(b, e.device, n)
    /\ scriptPos' = [scriptPos EXCEPT ![b.cpu] = @ + 1]

\* 5b: the roll starts an I/O on a random device; the tick is not consumed.
RandomIoTick(b) ==
    /\ b.cpu # NULL
    /\ ~ScriptDue(b.cpu)
    /\ CanStartRandomIo
    /\ TickEffects(b)
    /\ \E d \in {SelectDevice(r) : r \in 0..99} :
           \E n \in SampleDuration(scn.duration[d]) : Block(b, d, n)
    /\ UNCHANGED scriptPos

\* 5c is reached: no I/O started on this tick.
CpuGranted(b) ==
    /\ b.cpu # NULL
    /\ ~ScriptDue(b.cpu)
    /\ CanSkipRandomIo

\* 5c: the tick completes the burst.
CompleteTick(b) ==
    /\ CpuGranted(b)
    /\ BurstOver(b.cpu)
    /\ TickEffects(b)
    /\ Consume(b)
    /\ completionTick' = [completionTick EXCEPT ![b.cpu] = tick]
    /\ status' = [b.status EXCEPT ![b.cpu] = SetStatus(@, "DONE")]
    /\ queue' = b.queue
    /\ running' = NULL
    /\ quantumUsed' = 0
    /\ UNCHANGED priority

\* 5c: the tick exhausts the quantum of the process's priority.
PreemptTick(b) ==
    /\ CpuGranted(b)
    /\ ~BurstOver(b.cpu)
    /\ QuantumOver(b)
    /\ TickEffects(b)
    /\ Consume(b)
    /\ status' = [b.status EXCEPT ![b.cpu] = SetStatus(@, "READY")]
    /\ priority' = [priority EXCEPT ![b.cpu] = "LOW"]
    /\ queue' = [b.queue EXCEPT !["lo"] = Append(@, b.cpu)]
    /\ running' = NULL
    /\ quantumUsed' = 0
    /\ UNCHANGED completionTick

\* 5c: the process keeps the CPU.
RunTick(b) ==
    /\ CpuGranted(b)
    /\ ~BurstOver(b.cpu)
    /\ ~QuantumOver(b)
    /\ TickEffects(b)
    /\ Consume(b)
    /\ status' = b.status
    /\ queue' = b.queue
    /\ running' = b.cpu
    /\ quantumUsed' = b.quantumUsed + 1
    /\ UNCHANGED <<priority, completionTick>>

Step ==
    \E b \in {AtPhase5} :
        \/ IdleTick(b)
        \/ ScriptedIoTick(b)
        \/ RandomIoTick(b)
        \/ CompleteTick(b)
        \/ PreemptTick(b)
        \/ RunTick(b)

\* sim_run: a given number of steps, whether or not everything is done.
Next == Step
Spec == Init /\ [][Next]_vars

\* sim_is_done.
IsDone == pending = {} /\ \A p \in Pid : status[p] = "DONE"

-----------------------------------------------------------------------------
(* What must hold after every step.                                        *)

\* Every variable has its type: queues hold processes, counters count up from
\* zero, and no status or priority is left unset by process_create.
TypeOK ==
    /\ scn \in Scenario
    /\ tick \in 0..MaxTick
    /\ pending \subseteq Pid
    /\ queue \in [Lane -> Seq(Pid)]
    /\ running \in Pid \cup {NULL}
    /\ quantumUsed \in Nat
    /\ status \in [Pid -> Status]
    /\ priority \in [Pid -> Priority]
    /\ cpuTicks \in [Pid -> Nat]
    /\ ioCount \in [Pid -> Nat]
    /\ ioRemaining \in [Pid -> Int]
    /\ scriptPos \in [Pid -> Nat]
    /\ ioTicks \in [Pid -> [Device -> Nat]]
    /\ firstCpuTick \in [Pid -> Int]
    /\ completionTick \in [Pid -> Int]

\* A process occurs at most once in all the queues together.
QueuedOnce ==
    \A l, m \in Lane : \A i \in DOMAIN queue[l], j \in DOMAIN queue[m] :
        queue[l][i] = queue[m][j] => l = m /\ i = j

\* Where a process is and what its status says agree.
StatusFitsPlace ==
    /\ \A p \in Pid : status[p] = "RUNNING" <=> running = p
    /\ \A p \in Pid : status[p] = "BLOCKED" <=>
                          \E d \in Device : p \in Members(queue[d])
    /\ \A p \in Pid : status[p] = "READY" <=>
                          \/ p \in pending
                          \/ p \in Members(queue["hi"])
                          \/ p \in Members(queue["lo"])
    /\ \A p \in pending : \A l \in Lane : p \notin Members(queue[l])

\* No step loses a process, puts it in two places, or leaves it with a status
\* that contradicts its place: pending, a ready queue, a device queue, the
\* CPU, or none of them once it is done.  The swap-removal of arrivals, the
\* unlinking from device queues and the hand-over through s->running all keep
\* it, and with it the assert of must_set_status never fails.
OnePlace == QueuedOnce /\ StatusFitsPlace

\* A scripted I/O is never missed: an entry that has not fired lies at or
\* ahead of the CPU service of its process, one that has fired lies at or
\* behind it, and a process completes only when its whole script has fired.
\* The test of the code is an equality, so an entry once passed is lost.
NoScriptedIoMissed ==
    \A p \in Pid :
        /\ \A j \in DOMAIN scn.script[p] :
               IF j <= scriptPos[p]
               THEN scn.script[p][j].serviceTick <= cpuTicks[p]
               ELSE scn.script[p][j].serviceTick >= cpuTicks[p]
        /\ scriptPos[p] <= ioCount[p]
        /\ status[p] = "DONE" => scriptPos[p] = Len(scn.script[p])

\* A process with a burst is done exactly when it has received it, not a
\* tick early or late, and its completion tick is recorded then and only then.
BurstExact ==
    \A p \in Pid :
        /\ scn.burst[p] > 0 => cpuTicks[p] <= scn.burst[p]
        /\ status[p] = "DONE" <=> scn.burst[p] > 0 /\ cpuTicks[p] = scn.burst[p]
        /\ status[p] = "DONE" <=> completionTick[p] >= 0

\* io_ticks of the process record.
IoTicks(p) == ioTicks[p]["disk"] + ioTicks[p]["tape"] + ioTicks[p]["printer"]

\* The time since its arrival covers everything a process is credited with:
\* a tick never counts twice, as CPU and as device service, or as a service
\* and as the start of an I/O.  The turnaround and waiting times of
\* statistics.c are differences of these numbers.
TimeAccounted ==
    \A p \in Pid :
        IF p \in pending THEN cpuTicks[p] + IoTicks(p) + ioCount[p] = 0
        ELSE cpuTicks[p] + IoTicks(p) + ioCount[p] <=
             (IF status[p] = "DONE" THEN completionTick[p] + 1 ELSE tick)
                - scn.arrival[p]

-----------------------------------------------------------------------------
(* What a step may not do.                                                 *)

\* What process p has been credited with so far.
Credit(p) == cpuTicks[p] + IoTicks(p) + ioCount[p]

\* "One service per tick" (comment of phase 4): in one step a process gets at
\* most one of a CPU tick, a device tick and the start of an I/O, and at most
\* one process is given the CPU.
OneServicePerTick ==
    [][/\ \A p \in Pid : Credit(p)' <= Credit(p) + 1
       /\ \A p, q \in Pid :
             cpuTicks'[p] # cpuTicks[p] /\ cpuTicks'[q] # cpuTicks[q] => p = q
      ]_vars

\* The CPU is work conserving: a step that neither runs a process nor starts
\* an I/O leaves no process ready.
WorkConserving ==
    [][cpuTicks' = cpuTicks /\ ioCount' = ioCount =>
           running' = NULL /\ queue'["hi"] = <<>> /\ queue'["lo"] = <<>>]_vars

\* Once everything has arrived, no tick is wasted until everything is done:
\* each one gives some process a service or starts its I/O.  This is why
\* sim_run_until_done ends on a finite workload.
EveryTickProgresses ==
    [][pending' = {} /\ ~IsDone => \E p \in Pid : Credit(p)' > Credit(p)]_vars

\* A device queue served one process at a time, with I/O of one tick or more.
ServedInOrder(d) ==
    /\ scn.mode[d] = "queue"
    /\ scn.duration[d].min > 0
    /\ \A p \in Pid : \A j \in DOMAIN scn.script[p] :
           scn.script[p][j].hasDuration => scn.script[p][j].duration.min > 0

\* First come, first served: only the head of a ready queue, or of a device
\* queue that serves one process at a time, leaves it.
OnlyHeadLeaves ==
    [][\A l \in Lane : \A i \in DOMAIN queue[l] :
           i > 1 /\ (l \in Device => ServedInOrder(l))
              => queue[l][i] \in Members(queue'[l])]_vars

\* Whether a workload ends is known before it starts.
CanComplete(p) == scn.burst[p] > 0 /\ scn.arrival[p] >= 0
Finite == scn.pIo <= 0 /\ \A p \in Pid : CanComplete(p)
Endless == \E p \in Pid : ~CanComplete(p) \/ scn.pIo >= 100

\* With finite bursts, arrivals at tick 0 or later and no random I/O every
\* process completes, and sim_run_until_done returns.
FiniteEnds == Finite => <>IsDone

\* With a process that has no burst, or that should have arrived before the
\* first tick (an arrival is matched by equality: it stays pending and never
\* slips in later), or with an I/O on every tick, everything is never done:
\* sim_run_until_done does not return.
EndlessNeverDone == Endless => ~IsDone
=============================================================================
