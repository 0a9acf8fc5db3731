-------------------------- MODULE SimulationProofs --------------------------
(***************************************************************************)
(* Simulation's invariants, for every number of processes, every set of    *)
(* valid scenarios and every number of steps.                              *)
(*                                                                         *)
(* Every proof has the same two halves: what phases 1 to 4 make of the     *)
(* state, a lemma about AtPhase5, and what each outcome of phase 5 makes   *)
(* of that.                                                                *)
(***************************************************************************)
EXTENDS Simulation, QueueOrderProofs

USE DEF NULL

-----------------------------------------------------------------------------
(* Types.                                                                  *)

\* The scenario never changes, so it is one of Scenarios.
ScnOK == scn \in Scenarios

\* The outcomes of phase 5, as alternatives of Step.
LEMMA StepCases ==
    ASSUME Step
    PROVE  \/ IdleTick(AtPhase5) \/ ScriptedIoTick(AtPhase5)
           \/ RandomIoTick(AtPhase5) \/ CompleteTick(AtPhase5)
           \/ PreemptTick(AtPhase5) \/ RunTick(AtPhase5)
BY DEF Step

LEMMA ArrivingListed ==
    ASSUME TypeOK
    PROVE  /\ Ascending(Arriving) \in Seq(Pid)
           /\ Members(Ascending(Arriving)) = Arriving
           /\ NoRepeat(Ascending(Arriving))
<1>1. Arriving \subseteq Pid
  BY DEF Arriving, TypeOK
<1>2. IsFiniteSet(Pid)
  BY NAssumption, FS_Interval DEF Pid
<1>3. IsFiniteSet(Arriving)
  BY <1>1, <1>2, FS_Subset
<1>4. Arriving \in SUBSET Int
  BY <1>1, NAssumption DEF Pid
<1> DEFINE a == Ascending(Arriving)
<1>5. a \in Seq(Arriving) /\ Members(a) = Arriving /\ NoRepeat(a)
  BY <1>3, <1>4, AscendingLists
<1> HIDE DEF a
<1>6. a \in Seq(Pid)
  BY <1>1, <1>5
<1>7. QED
  BY <1>5, <1>6 DEF a

\* Phase 2 splits a device queue, keeping the order on both sides.
LEMMA DeviceSplit ==
    ASSUME TypeOK, NEW d \in Device
    PROVE  /\ Finished(d) \in Seq(Pid)
           /\ Members(Finished(d)) = {p \in Members(queue[d]) : ioRemaining[p] <= 0}
           /\ NoRepeat(queue[d]) => NoRepeat(Finished(d))
           /\ InService(d) \in Seq(Pid)
           /\ Members(InService(d)) = {p \in Members(queue[d]) : ioRemaining[p] > 0}
           /\ NoRepeat(queue[d]) => NoRepeat(InService(d))
<1>1. queue[d] \in Seq(Pid)
  BY DEF TypeOK, Lane
<1>2. Members(queue[d]) \subseteq Pid
  BY <1>1 DEF Members
<1>3. QED
  BY <1>1, <1>2, KeepSelects DEF Finished, InService

\* The order in which a ready queue is put together does not matter to its
\* type.
LEMMA ConcatType ==
    ASSUME NEW X, NEW q \in Seq(X), NEW r \in Seq(X)
    PROVE  q \o r \in Seq(X)
OBVIOUS

LEMMA ReadyLanes ==
    ASSUME TypeOK
    PROVE  /\ Ready("hi") = (queue["hi"] \o Ascending(Arriving))
                              \o (Finished("tape") \o Finished("printer"))
           /\ Ready("lo") = queue["lo"] \o Finished("disk")
<1>1. /\ Ready("hi") = queue["hi"] \o Ascending(Arriving)
                          \o (<<>> \o Finished("tape") \o Finished("printer"))
      /\ Ready("lo") = queue["lo"] \o <<>> \o (Finished("disk") \o <<>> \o <<>>)
  BY DEF Ready, Returning, ReturnLane
<1>2. /\ Finished("disk") \in Seq(Pid) /\ Finished("tape") \in Seq(Pid)
      /\ Finished("printer") \in Seq(Pid)
  BY DeviceSplit DEF Device
<1>3. queue["lo"] \in Seq(Pid)
  BY DEF TypeOK, Lane
<1>4. <<>> \o Finished("tape") = Finished("tape")
  BY <1>2
<1>5. queue["lo"] \o <<>> = queue["lo"]
  BY <1>3
<1>6. Finished("disk") \o <<>> \o <<>> = Finished("disk")
  BY <1>2
<1>7. QED
  BY <1>1, <1>4, <1>5, <1>6

LEMMA ReadyType ==
    ASSUME TypeOK
    PROVE  Ready("hi") \in Seq(Pid) /\ Ready("lo") \in Seq(Pid)
<1>1. queue["hi"] \in Seq(Pid) /\ queue["lo"] \in Seq(Pid)
  BY DEF TypeOK, Lane
<1>2. /\ Finished("disk") \in Seq(Pid) /\ Finished("tape") \in Seq(Pid)
      /\ Finished("printer") \in Seq(Pid)
  BY DeviceSplit DEF Device
<1>3. Ascending(Arriving) \in Seq(Pid)
  BY ArrivingListed
<1>4. queue["hi"] \o Ascending(Arriving) \in Seq(Pid)
  BY <1>1, <1>3, ConcatType
<1>5. Finished("tape") \o Finished("printer") \in Seq(Pid)
  BY <1>2, ConcatType
<1>6. QED
  BY <1>1, <1>2, <1>4, <1>5, ConcatType, ReadyLanes

\* The fields of AtPhase5, one by one.
Woken(p) == IF p \in Promoted THEN SetStatus(status[p], "READY") ELSE status[p]
NextReady == Head(IF Ready("hi") # <<>> THEN Ready("hi") ELSE Ready("lo"))

LEMMA Phase5Fields ==
    /\ AtPhase5.dispatched = (running = NULL /\ (Ready("hi") # <<>> \/ Ready("lo") # <<>>))
    /\ AtPhase5.cpu = IF AtPhase5.dispatched THEN NextReady ELSE running
    /\ AtPhase5.from = IF Ready("hi") # <<>> THEN "hi"
                       ELSE IF Ready("lo") # <<>> THEN "lo" ELSE "none"
    /\ AtPhase5.quantumUsed = IF AtPhase5.dispatched THEN 0 ELSE quantumUsed
    /\ AtPhase5.status = IF AtPhase5.dispatched
                         THEN [[p \in Pid |-> Woken(p)] EXCEPT
                                  ![AtPhase5.cpu] = SetStatus(@, "RUNNING")]
                         ELSE [p \in Pid |-> Woken(p)]
    /\ AtPhase5.ioRemaining =
         [p \in Pid |-> IF p \in UNION {Served(d) : d \in Device}
                        THEN ioRemaining[p] - 1 ELSE ioRemaining[p]]
    /\ AtPhase5.queue =
         [l \in Lane |->
            CASE l = "hi" -> IF AtPhase5.dispatched /\ AtPhase5.from = "hi"
                             THEN Tail(Ready("hi")) ELSE Ready("hi")
              [] l = "lo" -> IF AtPhase5.dispatched /\ AtPhase5.from = "lo"
                             THEN Tail(Ready("lo")) ELSE Ready("lo")
              [] OTHER -> InService(l)]
BY DEF AtPhase5, Woken, NextReady, SourceLane, QuantumAtStart

LEMMA SetStatusType ==
    ASSUME NEW from \in Status, NEW to \in Status
    PROVE  SetStatus(from, to) \in Status
BY DEF SetStatus

LEMMA Phase5Type ==
    ASSUME TypeOK
    PROVE  /\ AtPhase5.dispatched \in BOOLEAN
           /\ AtPhase5.dispatched => AtPhase5.cpu \in Pid
           /\ AtPhase5.cpu \in Pid \cup {NULL}
           /\ AtPhase5.quantumUsed \in Nat
           /\ AtPhase5.queue \in [Lane -> Seq(Pid)]
           /\ AtPhase5.status \in [Pid -> Status]
           /\ AtPhase5.ioRemaining \in [Pid -> Int]
<1> DEFINE hi == Ready("hi")
           lo == Ready("lo")
           b == AtPhase5
<1>1. hi \in Seq(Pid) /\ lo \in Seq(Pid)
  BY ReadyType
<1>2. b.dispatched \in BOOLEAN
  BY Phase5Fields
<1>3. b.dispatched => b.cpu \in Pid
  <2>1. ASSUME b.dispatched PROVE NextReady \in Pid
    <3>1. hi # <<>> \/ lo # <<>>
      BY <2>1, Phase5Fields
    <3> HIDE DEF hi, lo
    <3>2. hi # <<>> => Head(hi) \in Pid
      BY <1>1
    <3>3. lo # <<>> => Head(lo) \in Pid
      BY <1>1
    <3>4. QED
      BY <3>1, <3>2, <3>3 DEF NextReady, hi, lo
  <2>2. QED
    BY <2>1, Phase5Fields
<1>4. b.cpu \in Pid \cup {NULL}
  BY <1>3, Phase5Fields DEF TypeOK
<1>5. b.quantumUsed \in Nat
  BY Phase5Fields DEF TypeOK
<1>6. b.queue \in [Lane -> Seq(Pid)]
  <2>1. b.dispatched /\ b.from = "hi" => Tail(hi) \in Seq(Pid)
    <3>1. b.dispatched /\ b.from = "hi" => hi # <<>>
      BY Phase5Fields
    <3> HIDE DEF hi
    <3>2. QED
      BY <1>1, <3>1
  <2>2. b.dispatched /\ b.from = "lo" => Tail(lo) \in Seq(Pid)
    <3>1. b.dispatched /\ b.from = "lo" => lo # <<>>
      BY Phase5Fields
    <3> HIDE DEF lo
    <3>2. QED
      BY <1>1, <3>1
  <2>3. \A d \in Device : InService(d) \in Seq(Pid)
    BY DeviceSplit
  <2>4. Lane = {"hi", "lo"} \cup Device /\ "hi" \notin Device /\ "lo" \notin Device
    BY DEF Lane, Device
  <2>5. QED
    BY <1>1, <2>1, <2>2, <2>3, <2>4, Phase5Fields
<1>7. b.status \in [Pid -> Status]
  <2>1. \A p \in Pid : Woken(p) \in Status
    BY SetStatusType DEF Woken, TypeOK, Status
  <2>2. [p \in Pid |-> Woken(p)] \in [Pid -> Status]
    BY <2>1
  <2>3. \A st \in Status : SetStatus(st, "RUNNING") \in Status
    BY SetStatusType DEF Status
  <2>4. QED
    BY <1>3, <2>1, <2>2, <2>3, Phase5Fields
<1>8. b.ioRemaining \in [Pid -> Int]
  <2> DEFINE S == UNION {Served(d) : d \in Device}
  <2>1. b.ioRemaining = [p \in Pid |-> IF p \in S THEN ioRemaining[p] - 1
                                               ELSE ioRemaining[p]]
    BY Phase5Fields
  <2>2. \A p \in Pid : ioRemaining[p] \in Int
    BY DEF TypeOK
  <2> HIDE DEF S
  <2>3. QED
    BY <2>1, <2>2
<1>9. QED
  BY <1>2, <1>3, <1>4, <1>5, <1>6, <1>7, <1>8

\* The entry that fires is one of the script.
LEMMA DueEntryType ==
    ASSUME TypeOK, NEW p \in Pid, ScriptDue(p)
    PROVE  NextEntry(p) \in ScriptedIO /\ NextEntry(p).device \in Device
<1>1. scn.script[p] \in Seq(ScriptedIO)
  BY DEF TypeOK, Scenario
<1>2. scriptPos[p] \in Nat /\ scriptPos[p] < Len(scn.script[p])
  BY DEF ScriptDue, TypeOK
<1> DEFINE s == scn.script[p]
           k == scriptPos[p] + 1
<1> HIDE DEF s
<1>3. s \in Seq(ScriptedIO) /\ k \in 1..Len(s)
  BY <1>1, <1>2 DEF s
<1>4. s[k] \in ScriptedIO
  BY <1>3
<1>5. NextEntry(p) = s[k]
  BY DEF NextEntry, s
<1>6. QED
  BY <1>4, <1>5 DEF ScriptedIO

\* A sampled duration is a number of ticks.
LEMMA SampleType ==
    ASSUME NEW d \in Duration, NEW n \in SampleDuration(d)
    PROVE  n \in Int
BY DEF Duration, SampleDuration

\* What every outcome does to the types: everything outside phase 5.
LEMMA TickEffectsType ==
    ASSUME TypeOK, TickEffects(AtPhase5)
    PROVE  /\ scn' \in Scenario
           /\ tick' \in 0..MaxTick
           /\ pending' \subseteq Pid
           /\ ioTicks' \in [Pid -> [Device -> Nat]]
           /\ firstCpuTick' \in [Pid -> Int]
<1>1. scn' \in Scenario /\ pending' \subseteq Pid
  BY DEF TypeOK, TickEffects
<1>2. tick' \in 0..MaxTick
  BY MaxTickAssumption DEF TypeOK, TickEffects
<1>3. ioTicks' \in [Pid -> [Device -> Nat]]
  <2>1. \A p \in Pid, d \in Device : ioTicks[p][d] \in Nat
    BY DEF TypeOK
  <2>2. \A p \in Pid : [d \in Device |-> IF p \in Served(d) THEN ioTicks[p][d] + 1
                                                        ELSE ioTicks[p][d]]
                     \in [Device -> Nat]
    BY <2>1
  <2>3. QED
    BY <2>2 DEF TickEffects
<1>4. firstCpuTick' \in [Pid -> Int]
  <2>1. tick \in Int /\ firstCpuTick \in [Pid -> Int]
    BY DEF TypeOK
  <2>2. QED
    BY <2>1 DEF TickEffects
<1>5. QED
  BY <1>1, <1>2, <1>3, <1>4

\* A departure for I/O, scripted or random.
LEMMA BlockType ==
    ASSUME TypeOK, AtPhase5.cpu # NULL, NEW d \in Device, NEW n \in Int,
           Block(AtPhase5, d, n)
    PROVE  /\ queue' \in [Lane -> Seq(Pid)]
           /\ running' \in Pid \cup {NULL}
           /\ quantumUsed' \in Nat
           /\ status' \in [Pid -> Status]
           /\ priority' \in [Pid -> Priority]
           /\ cpuTicks' \in [Pid -> Nat]
           /\ ioCount' \in [Pid -> Nat]
           /\ ioRemaining' \in [Pid -> Int]
           /\ completionTick' \in [Pid -> Int]
<1> DEFINE b == AtPhase5
<1>1. b.cpu \in Pid
  BY Phase5Type
<1>2. d \in Lane
  BY DEF Lane
<1>3. queue' \in [Lane -> Seq(Pid)]
  <2>1. Append(b.queue[d], b.cpu) \in Seq(Pid)
    BY <1>1, <1>2, Phase5Type
  <2>2. QED
    BY <2>1, Phase5Type DEF Block
<1>4. status' \in [Pid -> Status]
  <2>1. SetStatus(b.status[b.cpu], "BLOCKED") \in Status
    BY <1>1, Phase5Type, SetStatusType DEF Status
  <2>2. QED
    BY <2>1, Phase5Type DEF Block
<1>5. ioRemaining' \in [Pid -> Int]
  <2>1. b.ioRemaining \in [Pid -> Int]
    BY Phase5Type
  <2> HIDE DEF b
  <2>2. ioRemaining' = [b.ioRemaining EXCEPT ![b.cpu] = n]
    BY DEF Block, b
  <2>3. QED
    BY <2>1, <2>2
<1>6. ioCount' \in [Pid -> Nat]
  BY <1>1 DEF Block, TypeOK
<1>7. running' \in Pid \cup {NULL} /\ quantumUsed' \in Nat
  BY Phase5Type DEF Block
<1>8. /\ priority' \in [Pid -> Priority]
      /\ cpuTicks' \in [Pid -> Nat]
      /\ completionTick' \in [Pid -> Int]
  BY DEF Block, TypeOK
<1>9. QED
  BY <1>3, <1>4, <1>5, <1>6, <1>7, <1>8

LEMMA StepType ==
    ASSUME TypeOK, Step
    PROVE  TypeOK'
<1> DEFINE b == AtPhase5
<1>1. TickEffects(b)
  BY StepCases DEF IdleTick, ScriptedIoTick, RandomIoTick, CompleteTick,
                   PreemptTick, RunTick
<1>2. /\ scn' \in Scenario
      /\ tick' \in 0..MaxTick
      /\ pending' \subseteq Pid
      /\ ioTicks' \in [Pid -> [Device -> Nat]]
      /\ firstCpuTick' \in [Pid -> Int]
  BY <1>1, TickEffectsType
<1>3. CASE IdleTick(b)
  BY <1>2, <1>3, Phase5Type DEF IdleTick, TypeOK
<1>4. CASE ScriptedIoTick(b)
  <2> DEFINE e == NextEntry(b.cpu)
             dur == IF e.hasDuration THEN e.duration ELSE scn.duration[e.device]
  <2>1. b.cpu \in Pid /\ ScriptDue(b.cpu)
    BY <1>4, Phase5Type DEF ScriptedIoTick
  <2>2. e \in ScriptedIO
    BY <2>1, DueEntryType
  <2>3. e.device \in Device
    BY <2>1, DueEntryType
  <2>4. dur \in Duration
    <3>1. e.duration \in Duration
      BY <2>2 DEF ScriptedIO
    <3>2. scn.duration[e.device] \in Duration
      BY <2>3 DEF TypeOK, Scenario
    <3> HIDE DEF e
    <3>3. QED
      BY <3>1, <3>2
  <2>5. PICK n \in SampleDuration(dur) : Block(b, e.device, n)
    BY <1>4 DEF ScriptedIoTick
  <2>6. n \in Int
    BY <2>4, SampleType
  <2>7. scriptPos' \in [Pid -> Nat]
    <3>1. scriptPos' = [scriptPos EXCEPT ![b.cpu] = @ + 1]
      BY <1>4 DEF ScriptedIoTick
    <3>2. scriptPos \in [Pid -> Nat]
      BY DEF TypeOK
    <3>3. QED
      BY <2>1, <3>1, <3>2
  <2>8. b.cpu # NULL
    BY <1>4 DEF ScriptedIoTick
  <2>9. quantumUsed' = b.quantumUsed /\ b.quantumUsed \in Nat
    BY <2>5, Phase5Type DEF Block
  <2> HIDE DEF e, b, dur
  <2>10. QED
    BY <1>2, <2>3, <2>5, <2>6, <2>7, <2>8, <2>9, BlockType DEF b, TypeOK
<1>5. CASE RandomIoTick(b)
  <2>1. PICK d \in {SelectDevice(r) : r \in 0..99} :
            \E n \in SampleDuration(scn.duration[d]) : Block(b, d, n)
    BY <1>5 DEF RandomIoTick
  <2>2. d \in Device
    BY DEF SelectDevice, Device
  <2>3. scn.duration[d] \in Duration
    BY <2>2 DEF TypeOK, Scenario
  <2>4. PICK n \in SampleDuration(scn.duration[d]) : Block(b, d, n)
    BY <2>1
  <2>5. n \in Int
    BY <2>3, SampleType
  <2>6. scriptPos' \in [Pid -> Nat] /\ b.cpu # NULL
    BY <1>5 DEF RandomIoTick, TypeOK
  <2> HIDE DEF b
  <2>7. QED
    BY <1>2, <2>2, <2>4, <2>5, <2>6, BlockType DEF b, TypeOK
<1>6. ASSUME CpuGranted(b), Consume(b)
      PROVE  /\ b.cpu \in Pid
             /\ cpuTicks' \in [Pid -> Nat]
             /\ ioCount' \in [Pid -> Nat]
             /\ ioRemaining' \in [Pid -> Int]
             /\ scriptPos' \in [Pid -> Nat]
  <2>1. b.cpu \in Pid /\ b.ioRemaining \in [Pid -> Int]
    BY <1>6, Phase5Type DEF CpuGranted
  <2>2. cpuTicks' \in [Pid -> Nat]
    <3>1. cpuTicks' = [cpuTicks EXCEPT ![b.cpu] = @ + 1]
      BY <1>6 DEF Consume
    <3>2. cpuTicks \in [Pid -> Nat]
      BY DEF TypeOK
    <3> HIDE DEF b
    <3>3. QED
      BY <2>1, <3>1, <3>2
  <2>3. QED
    BY <1>6, <2>1, <2>2 DEF Consume, TypeOK
<1>7. ASSUME NEW to \in Status, b.cpu \in Pid
      PROVE  [b.status EXCEPT ![b.cpu] = SetStatus(@, to)] \in [Pid -> Status]
  BY <1>7, Phase5Type, SetStatusType
<1>8. CASE CompleteTick(b)
  <2>1. status' \in [Pid -> Status]
    BY <1>6, <1>7, <1>8 DEF CompleteTick, Status
  <2>2. completionTick' \in [Pid -> Int]
    BY <1>6, <1>8 DEF CompleteTick, TypeOK
  <2>3. QED
    BY <1>2, <1>6, <1>8, <2>1, <2>2, Phase5Type DEF CompleteTick, TypeOK
<1>9. CASE PreemptTick(b)
  <2>1. status' \in [Pid -> Status]
    BY <1>6, <1>7, <1>9 DEF PreemptTick, Status
  <2>2. priority' \in [Pid -> Priority]
    BY <1>6, <1>9 DEF PreemptTick, TypeOK, Priority
  <2>3. queue' \in [Lane -> Seq(Pid)]
    <3>1. b.cpu \in Pid /\ b.queue["lo"] \in Seq(Pid)
      BY <1>6, <1>9, Phase5Type DEF PreemptTick, Lane
    <3>2. Append(b.queue["lo"], b.cpu) \in Seq(Pid)
      BY <3>1
    <3>3. queue' = [b.queue EXCEPT !["lo"] = Append(@, b.cpu)]
      BY <1>9 DEF PreemptTick
    <3>4. b.queue \in [Lane -> Seq(Pid)]
      BY Phase5Type
    <3> HIDE DEF b
    <3>5. QED
      BY <3>2, <3>3, <3>4
  <2>4. QED
    BY <1>2, <1>6, <1>9, <2>1, <2>2, <2>3 DEF PreemptTick, TypeOK
<1>10. CASE RunTick(b)
  <2>1. /\ status' \in [Pid -> Status]
        /\ queue' \in [Lane -> Seq(Pid)]
        /\ running' \in Pid \cup {NULL}
        /\ quantumUsed' \in Nat
    BY <1>6, <1>10, Phase5Type DEF RunTick
  <2>2. QED
    BY <1>2, <1>6, <1>10, <2>1 DEF RunTick, TypeOK
<1>11. QED
  BY <1>3, <1>4, <1>5, <1>8, <1>9, <1>10, StepCases

LEMMA InitType ==
    ASSUME Init
    PROVE  TypeOK
<1>1. scn \in Scenario
  BY ScenariosAssumption DEF Init
<1>2. queue \in [Lane -> Seq(Pid)]
  BY DEF Init
<1>3. tick \in 0..MaxTick
  BY MaxTickAssumption DEF Init
<1>4. status \in [Pid -> Status] /\ priority \in [Pid -> Priority]
  BY DEF Init, ProcessInit, Status, Priority
<1>5. ioTicks \in [Pid -> [Device -> Nat]]
  BY DEF Init, ProcessInit
<1>6. QED
  BY <1>1, <1>2, <1>3, <1>4, <1>5 DEF Init, ProcessInit, TypeOK

LEMMA StutterType ==
    ASSUME TypeOK, UNCHANGED vars
    PROVE  TypeOK'
BY DEF TypeOK, vars, procVars

\* Every variable keeps its type, whatever the scenario.
THEOREM TypeCorrect == Spec => []TypeOK
<1>1. Init => TypeOK
  BY InitType
<1>2. TypeOK /\ [Next]_vars => TypeOK'
  BY StepType, StutterType DEF Next
<1>3. QED
  BY <1>1, <1>2, PTL DEF Spec

-----------------------------------------------------------------------------
(* Places.                                                                 *)

\* No process is in two queues, or twice in one: QueuedOnce, lane by lane.
Apart(Q) ==
    /\ \A l \in Lane : NoRepeat(Q[l])
    /\ \A l, m \in Lane : l # m => Members(Q[l]) \cap Members(Q[m]) = {}

\* The statuses st agree with the places: the queues Q, the process run on the
\* CPU and the pending ones.
Fits(Q, run, pend, st) ==
    /\ \A p \in Pid : st[p] = "RUNNING" <=> run = p
    /\ \A p \in Pid : st[p] = "BLOCKED" <=> \E d \in Device : p \in Members(Q[d])
    /\ \A p \in Pid : st[p] = "READY" <=>
                          \/ p \in pend
                          \/ p \in Members(Q["hi"])
                          \/ p \in Members(Q["lo"])
    /\ \A p \in pend : \A l \in Lane : p \notin Members(Q[l])

LEMMA OnePlaceParts ==
    OnePlace <=> Apart(queue) /\ Fits(queue, running, pending, status)
<1>1. QueuedOnce => Apart(queue)
  BY DEF QueuedOnce, Apart, NoRepeat, Members
<1>2. Apart(queue) => QueuedOnce
  <2>1. ASSUME Apart(queue), NEW l \in Lane, NEW m \in Lane,
               NEW i \in DOMAIN queue[l], NEW j \in DOMAIN queue[m],
               queue[l][i] = queue[m][j]
        PROVE  l = m /\ i = j
    <3>1. l = m
      BY <2>1 DEF Apart, Members
    <3>2. QED
      BY <2>1, <3>1 DEF Apart, NoRepeat
  <2>2. QED
    BY <2>1 DEF QueuedOnce
<1>3. StatusFitsPlace <=> Fits(queue, running, pending, status)
  BY DEF StatusFitsPlace, Fits
<1>4. QED
  BY <1>1, <1>2, <1>3 DEF OnePlace

\* Phase 2 in sets: who is in the ready queues when it is over, and that
\* nobody is there twice.
LEMMA ReadyPlaces ==
    ASSUME TypeOK, OnePlace
    PROVE  /\ NoRepeat(Ready("hi"))
           /\ NoRepeat(Ready("lo"))
           /\ Members(Ready("hi")) = Members(queue["hi"]) \cup Arriving
                 \cup Members(Finished("tape")) \cup Members(Finished("printer"))
           /\ Members(Ready("lo")) = Members(queue["lo"]) \cup Members(Finished("disk"))
<1> DEFINE hi == queue["hi"]
           lo == queue["lo"]
           a == Ascending(Arriving)
           di == Finished("disk")
           ta == Finished("tape")
           pr == Finished("printer")
<1>1. /\ hi \in Seq(Pid) /\ lo \in Seq(Pid)
      /\ NoRepeat(hi) /\ NoRepeat(lo)
  BY OnePlaceParts DEF TypeOK, Lane, Apart
<1>2. a \in Seq(Pid) /\ NoRepeat(a) /\ Members(a) = Arriving
  BY ArrivingListed
<1>3. \A d \in Device :
         /\ Finished(d) \in Seq(Pid)
         /\ NoRepeat(Finished(d))
         /\ Members(Finished(d)) \subseteq Members(queue[d])
  <2>1. \A d \in Device : NoRepeat(queue[d])
    BY OnePlaceParts DEF Apart, Lane
  <2>2. QED
    BY <2>1, DeviceSplit
<1>4. /\ di \in Seq(Pid) /\ ta \in Seq(Pid) /\ pr \in Seq(Pid)
      /\ NoRepeat(di) /\ NoRepeat(ta) /\ NoRepeat(pr)
      /\ Members(di) \subseteq Members(queue["disk"])
      /\ Members(ta) \subseteq Members(queue["tape"])
      /\ Members(pr) \subseteq Members(queue["printer"])
  BY <1>3 DEF Device
<1>5. \A l, m \in Lane : l # m => Members(queue[l]) \cap Members(queue[m]) = {}
  BY OnePlaceParts DEF Apart
<1>6. \A l \in Lane : Members(queue[l]) \cap Arriving = {}
  BY OnePlaceParts DEF Fits, Arriving
<1>7. {"hi", "lo", "disk", "tape", "printer"} \subseteq Lane
  BY DEF Lane, Device
<1>8. Ready("hi") = (hi \o a) \o (ta \o pr) /\ Ready("lo") = lo \o di
  BY ReadyLanes
<1>9. Members(hi) \cap Members(a) = {}
  BY <1>2, <1>6, <1>7
<1>10. Members(ta) \cap Members(pr) = {}
  BY <1>4, <1>5, <1>7
<1>11. (Members(hi) \cup Members(a)) \cap (Members(ta) \cup Members(pr)) = {}
  BY <1>2, <1>4, <1>5, <1>6, <1>7
<1>12. Members(lo) \cap Members(di) = {}
  BY <1>4, <1>5, <1>7
<1> HIDE DEF hi, lo, a, di, ta, pr
<1>13. /\ hi \o a \in Seq(Pid)
       /\ NoRepeat(hi \o a)
       /\ Members(hi \o a) = Members(hi) \cup Members(a)
  BY <1>1, <1>2, <1>9, ConcatType, ConcatMembers, ConcatNoRepeat
<1>14. /\ ta \o pr \in Seq(Pid)
       /\ NoRepeat(ta \o pr)
       /\ Members(ta \o pr) = Members(ta) \cup Members(pr)
  BY <1>4, <1>10, ConcatType, ConcatMembers, ConcatNoRepeat
<1>15. /\ NoRepeat(Ready("hi"))
       /\ Members(Ready("hi")) = Members(hi \o a) \cup Members(ta \o pr)
  <2>1. Members(hi \o a) \cap Members(ta \o pr) = {}
    BY <1>11, <1>13, <1>14
  <2> DEFINE f == hi \o a
             g == ta \o pr
  <2>2. f \in Seq(Pid) /\ g \in Seq(Pid) /\ NoRepeat(f) /\ NoRepeat(g)
    BY <1>13, <1>14
  <2>3. Ready("hi") = f \o g
    BY <1>8
  <2> HIDE DEF f, g
  <2>4. NoRepeat(f \o g) /\ Members(f \o g) = Members(f) \cup Members(g)
    <3>1. Members(f) \cap Members(g) = {}
      BY <2>1 DEF f, g
    <3>2. QED
      BY <2>2, <3>1, ConcatMembers, ConcatNoRepeat
  <2>5. QED
    BY <2>3, <2>4 DEF f, g
<1>16. /\ NoRepeat(Ready("lo"))
       /\ Members(Ready("lo")) = Members(lo) \cup Members(di)
  <2>1. lo \in Seq(Pid) /\ di \in Seq(Pid) /\ NoRepeat(lo) /\ NoRepeat(di)
    BY <1>1, <1>4
  <2>2. NoRepeat(lo \o di)
    BY <1>12, <2>1, ConcatNoRepeat
  <2>3. Members(lo \o di) = Members(lo) \cup Members(di)
    BY <2>1, ConcatMembers
  <2>4. QED
    BY <1>8, <2>2, <2>3
<1>17. QED
  BY <1>2, <1>13, <1>14, <1>15, <1>16 DEF hi, lo, di, ta, pr

\* Phase 2 keeps every process in one place; the processes that return wake.
Queue2 == [l \in Lane |-> CASE l = "hi" -> Ready("hi")
                            [] l = "lo" -> Ready("lo")
                            [] OTHER -> InService(l)]
Status2 == [p \in Pid |-> Woken(p)]

LEMMA PromotedReturn ==
    ASSUME TypeOK, OnePlace
    PROVE  Promoted = Members(Finished("disk")) \cup Members(Finished("tape"))
                        \cup Members(Finished("printer"))
BY DEF Promoted, Device

LEMMA Phase2Places ==
    ASSUME TypeOK, OnePlace
    PROVE  /\ Queue2 \in [Lane -> Seq(Pid)]
           /\ Apart(Queue2)
           /\ Fits(Queue2, running, pending \ Arriving, Status2)
<1> DEFINE At(l) == Members(queue[l])
           Fin(d) == Members(Finished(d))
           In2(l) == Members(Queue2[l])
<1>1. /\ Queue2["hi"] = Ready("hi") /\ Queue2["lo"] = Ready("lo")
      /\ \A d \in Device : Queue2[d] = InService(d)
  BY DEF Queue2, Lane, Device
<1>2. \A l \in Lane : l = "hi" \/ l = "lo" \/ l \in Device
  BY DEF Lane
<1>3. {"hi", "lo"} \cup Device \subseteq Lane /\ "hi" \notin Device /\ "lo" \notin Device
  BY DEF Lane, Device
<1>4. \A d \in Device : /\ Fin(d) \cup In2(d) = At(d)
                        /\ Fin(d) \cap In2(d) = {}
                        /\ NoRepeat(Queue2[d])
                        /\ InService(d) \in Seq(Pid)
  <2>1. ASSUME NEW d \in Device
        PROVE  /\ Fin(d) = {p \in At(d) : ioRemaining[p] <= 0}
               /\ In2(d) = {p \in At(d) : ioRemaining[p] > 0}
               /\ NoRepeat(InService(d))
               /\ InService(d) \in Seq(Pid)
    <3>1. NoRepeat(queue[d])
      BY <1>3, OnePlaceParts DEF Apart
    <3>2. QED
      BY <1>1, <3>1, DeviceSplit
  <2>2. \A d \in Device : \A p \in At(d) : ioRemaining[p] \in Int
    BY <1>3 DEF TypeOK, Members
  <2>3. \A d \in Device : \A p \in At(d) : ioRemaining[p] <= 0 <=> ~(ioRemaining[p] > 0)
    BY <2>2
  <2> HIDE DEF At, Fin, In2
  <2>4. QED
    BY <1>1, <2>1, <2>3
<1>5. /\ In2("hi") = At("hi") \cup Arriving \cup Fin("tape") \cup Fin("printer")
      /\ In2("lo") = At("lo") \cup Fin("disk")
      /\ NoRepeat(Queue2["hi"]) /\ NoRepeat(Queue2["lo"])
  BY <1>1, ReadyPlaces
<1>6. \A l, m \in Lane : l # m => At(l) \cap At(m) = {}
  BY OnePlaceParts DEF Apart
<1>7. Arriving \subseteq pending /\ \A l \in Lane : At(l) \cap pending = {}
  BY OnePlaceParts DEF Fits, Arriving
<1>8. /\ \A p \in Pid : status[p] = "RUNNING" <=> running = p
      /\ \A p \in Pid : status[p] = "BLOCKED" <=> \E d \in Device : p \in At(d)
      /\ \A p \in Pid : status[p] = "READY" <=> p \in pending \/ p \in At("hi") \/ p \in At("lo")
  BY OnePlaceParts DEF Fits
<1>9. Queue2 \in [Lane -> Seq(Pid)]
  <2>1. \A l \in Lane : Queue2[l] \in Seq(Pid)
    BY <1>1, <1>2, <1>4, ReadyType
  <2>2. QED
    BY <2>1 DEF Queue2
<1>10. Promoted = Fin("disk") \cup Fin("tape") \cup Fin("printer")
  BY PromotedReturn
<1>11. Device = {"disk", "tape", "printer"}
  BY DEF Device
<1>12. pending \subseteq Pid /\ \A l \in Lane : At(l) \subseteq Pid
  BY DEF TypeOK, Members
<1>13. \A p \in Pid : Status2[p] = IF p \in Promoted THEN "READY" ELSE status[p]
  <2>1. \A p \in Promoted : status[p] = "BLOCKED"
    <3> HIDE DEF At, Fin, In2
    <3>1. QED
      BY <1>3, <1>4, <1>8, <1>10, <1>11, <1>12
  <2>2. SetStatus("BLOCKED", "READY") = "READY"
    BY DEF SetStatus, Allowed
  <2>3. QED
    BY <2>1, <2>2 DEF Status2, Woken
<1> HIDE DEF At, Fin, In2
<1>14. Apart(Queue2)
  <2>1. \A l \in Lane : NoRepeat(Queue2[l])
    BY <1>2, <1>4, <1>5
  <2>2. \A l, m \in Lane : l # m => In2(l) \cap In2(m) = {}
    <3>1. \A d \in Device : Fin(d) \subseteq At(d) /\ In2(d) \subseteq At(d)
      BY <1>4
    <3>2. In2("hi") \cap In2("lo") = {}
      BY <1>3, <1>5, <1>6, <1>7, <1>11, <3>1
    <3>3. \A d \in Device : In2("hi") \cap In2(d) = {}
      BY <1>3, <1>4, <1>5, <1>6, <1>7, <1>11, <3>1
    <3>4. \A d \in Device : In2("lo") \cap In2(d) = {}
      BY <1>3, <1>4, <1>5, <1>6, <1>11, <3>1
    <3>5. \A d, e \in Device : d # e => In2(d) \cap In2(e) = {}
      BY <1>3, <1>6, <3>1
    <3>6. QED
      BY <1>2, <3>2, <3>3, <3>4, <3>5
  <2>3. QED
    BY <2>1, <2>2 DEF Apart, In2
<1>15. Fits(Queue2, running, pending \ Arriving, Status2)
  <2>1. \A p \in Pid : Status2[p] = "RUNNING" <=> running = p
    <3>1. \A p \in Promoted : status[p] = "BLOCKED"
      BY <1>3, <1>4, <1>8, <1>10, <1>11, <1>12
    <3>2. QED
      BY <1>8, <1>13, <3>1
  <2>2. \A p \in Pid : Status2[p] = "BLOCKED" <=> \E d \in Device : p \in In2(d)
    <3>1. \A p \in Pid : (\E d \in Device : p \in In2(d))
                            <=> (\E d \in Device : p \in At(d)) /\ p \notin Promoted
      BY <1>3, <1>4, <1>6, <1>10, <1>11
    <3>2. QED
      BY <1>8, <1>13, <3>1
  <2>3. \A p \in Pid : Status2[p] = "READY" <=>
                          p \in pending \ Arriving \/ p \in In2("hi") \/ p \in In2("lo")
    <3>1. \A p \in Pid : p \in pending \ Arriving \/ p \in In2("hi") \/ p \in In2("lo")
             <=> p \in pending \/ p \in At("hi") \/ p \in At("lo") \/ p \in Promoted
      BY <1>5, <1>7, <1>10
    <3>2. QED
      BY <1>8, <1>13, <3>1
  <2>4. \A p \in pending \ Arriving : \A l \in Lane : p \notin In2(l)
    <3>1. \A d \in Device : Fin(d) \subseteq At(d) /\ In2(d) \subseteq At(d)
      BY <1>4
    <3>2. QED
      BY <1>2, <1>3, <1>5, <1>7, <1>11, <3>1
  <2>5. QED
    BY <2>1, <2>2, <2>3, <2>4 DEF Fits, In2
<1>16. QED
  BY <1>9, <1>14, <1>15

\* Phase 3: the head of a ready queue takes the free CPU.
LEMMA DispatchPlaces ==
    ASSUME NEW Q \in [Lane -> Seq(Pid)], NEW pend, NEW st \in [Pid -> Status],
           Apart(Q), Fits(Q, NULL, pend, st),
           NEW l \in {"hi", "lo"}, Q[l] # <<>>
    PROVE  /\ Apart([Q EXCEPT ![l] = Tail(@)])
           /\ Head(Q[l]) \in Pid
           /\ st[Head(Q[l])] = "READY"
           /\ Fits([Q EXCEPT ![l] = Tail(@)], Head(Q[l]), pend,
                   [st EXCEPT ![Head(Q[l])] = "RUNNING"])
<1> DEFINE h == Head(Q[l])
           R == [Q EXCEPT ![l] = Tail(@)]
           s == [st EXCEPT ![h] = "RUNNING"]
<1>1. l \in Lane /\ l \notin Device /\ {"hi", "lo"} \cup Device \subseteq Lane
  BY DEF Lane, Device
<1>2. /\ h \in Members(Q[l])
      /\ NoRepeat(Tail(Q[l]))
      /\ Members(Tail(Q[l])) = Members(Q[l]) \ {h}
  BY <1>1, TailNoRepeat DEF Apart
<1>3. h \in Pid
  BY <1>1, <1>2 DEF Members
<1>4. /\ R[l] = Tail(Q[l])
      /\ \A m \in Lane : m # l => R[m] = Q[m]
  BY <1>1
<1>5. \A m \in Lane : Members(R[m]) = Members(Q[m]) \ {h}
  <2>1. \A m \in Lane : m # l => h \notin Members(Q[m])
    BY <1>1, <1>2 DEF Apart
  <2>2. QED
    BY <1>2, <1>4, <2>1
<1>6. Apart(R)
  <2> HIDE DEF R
  <2>1. QED
    BY <1>2, <1>4, <1>5 DEF Apart
<1>7. st[h] = "READY"
  BY <1>2, <1>3 DEF Fits
<1>8. s[h] = "RUNNING" /\ \A p \in Pid : p # h => s[p] = st[p]
  BY <1>3
<1>9. h # NULL /\ \A p \in Pid : p # NULL
  BY <1>3, NAssumption DEF Pid
<1>10. h \notin pend
  BY <1>1, <1>2 DEF Fits
<1>11. \A d \in Device : h \notin Members(Q[d])
  BY <1>1, <1>2 DEF Apart
<1>12. Fits(R, h, pend, s)
  <2> HIDE DEF R, h, s
  <2>1. \A p \in Pid : s[p] = "RUNNING" <=> h = p
    BY <1>8, <1>9 DEF Fits
  <2>2. \A p \in Pid : s[p] = "BLOCKED" <=> \E d \in Device : p \in Members(R[d])
    <3>1. \A d \in Device : Members(R[d]) = Members(Q[d])
      <4>1. \A d \in Device : d \in Lane
        BY DEF Lane
      <4>2. QED
        BY <1>5, <1>11, <4>1
    <3>2. \A p \in Pid : s[p] = "BLOCKED" <=> st[p] = "BLOCKED"
      BY <1>7, <1>8
    <3>3. QED
      BY <3>1, <3>2 DEF Fits
  <2>3. \A p \in Pid : s[p] = "READY" <=>
           p \in pend \/ p \in Members(R["hi"]) \/ p \in Members(R["lo"])
    BY <1>1, <1>5, <1>8, <1>10 DEF Fits
  <2>4. \A p \in pend : \A m \in Lane : p \notin Members(R[m])
    BY <1>5 DEF Fits
  <2>5. QED
    BY <2>1, <2>2, <2>3, <2>4 DEF Fits
<1>13. QED
  BY <1>3, <1>6, <1>7, <1>12

\* The process on the CPU leaves it for queue l.
LEMMA LeavePlaces ==
    ASSUME NEW Q \in [Lane -> Seq(Pid)], NEW pend, NEW st \in [Pid -> Status],
           NEW run \in Pid, Apart(Q), Fits(Q, run, pend, st),
           NEW l \in Lane,
           NEW to, to = IF l \in Device THEN "BLOCKED" ELSE "READY"
    PROVE  /\ Apart([Q EXCEPT ![l] = Append(@, run)])
           /\ Fits([Q EXCEPT ![l] = Append(@, run)], NULL, pend,
                   [st EXCEPT ![run] = to])
<1> DEFINE R == [Q EXCEPT ![l] = Append(@, run)]
           s == [st EXCEPT ![run] = to]
<1>1. st[run] = "RUNNING"
  BY DEF Fits
<1>2. {"hi", "lo"} \cup Device \subseteq Lane /\ "hi" \notin Device /\ "lo" \notin Device
  BY DEF Lane, Device
<1>3. run \notin pend /\ \A m \in Lane : run \notin Members(Q[m])
  <2>1. \A m \in Lane : m = "hi" \/ m = "lo" \/ m \in Device
    BY DEF Lane
  <2>2. QED
    BY <1>1, <2>1 DEF Fits
<1>4. /\ NoRepeat(Append(Q[l], run))
      /\ Members(Append(Q[l], run)) = Members(Q[l]) \cup {run}
  BY <1>3, AppendNoRepeat DEF Apart
<1>5. /\ R[l] = Append(Q[l], run)
      /\ \A m \in Lane : m # l => R[m] = Q[m]
  OBVIOUS
<1>6. /\ Members(R[l]) = Members(Q[l]) \cup {run}
      /\ \A m \in Lane : m # l => Members(R[m]) = Members(Q[m])
  BY <1>4, <1>5
<1> HIDE DEF R
<1>7. \A m \in Lane : \A p : p # run => (p \in Members(R[m]) <=> p \in Members(Q[m]))
  BY <1>6
<1>8. \A m \in Lane : run \in Members(R[m]) <=> m = l
  BY <1>3, <1>6
<1>9. Apart(R)
  <2>1. \A m \in Lane : NoRepeat(R[m])
    BY <1>4, <1>5 DEF Apart
  <2>2. ASSUME NEW k \in Lane, NEW m \in Lane, k # m,
               NEW p \in Members(R[k]) \cap Members(R[m])
        PROVE  FALSE
    <3>1. p # run
      BY <1>8, <2>2
    <3>2. p \in Members(Q[k]) /\ p \in Members(Q[m])
      BY <1>7, <2>2, <3>1
    <3>3. QED
      BY <2>2, <3>2 DEF Apart
  <2>3. QED
    BY <2>1, <2>2 DEF Apart
<1>10. s[run] = to /\ \A p \in Pid : p # run => s[p] = st[p]
  OBVIOUS
<1>11. to # "RUNNING" /\ \A p \in Pid : p # NULL
  BY NAssumption DEF Pid
<1>12. l = "hi" \/ l = "lo" \/ l \in Device
  BY DEF Lane
<1>13. Fits(R, NULL, pend, s)
  <2> HIDE DEF s
  <2>1. \A p \in Pid : s[p] = "RUNNING" <=> NULL = p
    BY <1>10, <1>11 DEF Fits
  <2>2. \A p \in Pid : s[p] = "BLOCKED" <=> \E d \in Device : p \in Members(R[d])
    <3>1. ASSUME NEW p \in Pid, p # run
          PROVE  s[p] = "BLOCKED" <=> \E d \in Device : p \in Members(R[d])
      <4>1. s[p] = st[p]
        BY <1>10, <3>1
      <4>2. \A d \in Device : p \in Members(R[d]) <=> p \in Members(Q[d])
        BY <1>2, <1>7, <3>1
      <4>3. QED
        BY <4>1, <4>2 DEF Fits
    <3>2. s[run] = "BLOCKED" <=> \E d \in Device : run \in Members(R[d])
      BY <1>2, <1>10, <1>8
    <3>3. QED
      BY <3>1, <3>2
  <2>3. \A p \in Pid : s[p] = "READY" <=>
           p \in pend \/ p \in Members(R["hi"]) \/ p \in Members(R["lo"])
    <3>1. ASSUME NEW p \in Pid, p # run
          PROVE  s[p] = "READY" <=>
                    p \in pend \/ p \in Members(R["hi"]) \/ p \in Members(R["lo"])
      <4>1. s[p] = st[p]
        BY <1>10, <3>1
      <4>2. /\ p \in Members(R["hi"]) <=> p \in Members(Q["hi"])
            /\ p \in Members(R["lo"]) <=> p \in Members(Q["lo"])
        BY <1>2, <1>7, <3>1
      <4>3. QED
        BY <4>1, <4>2 DEF Fits
    <3>2. s[run] = "READY" <=> run \in Members(R["hi"]) \/ run \in Members(R["lo"])
      BY <1>2, <1>10, <1>12, <1>8
    <3>3. QED
      BY <1>3, <3>1, <3>2
  <2>4. \A p \in pend : \A m \in Lane : p \notin Members(R[m])
    <3>1. ASSUME NEW p \in pend, NEW m \in Lane PROVE p \notin Members(R[m])
      <4>1. p \notin Members(Q[m]) /\ p # run
        BY <1>3 DEF Fits
      <4>2. QED
        BY <1>7, <4>1
    <3>2. QED
      BY <3>1
  <2>5. QED
    BY <2>1, <2>2, <2>3, <2>4 DEF Fits
<1>14. QED
  BY <1>9, <1>13 DEF R

\* The process on the CPU is done.
LEMMA DonePlaces ==
    ASSUME NEW Q \in [Lane -> Seq(Pid)], NEW pend, NEW st \in [Pid -> Status],
           NEW run \in Pid, Fits(Q, run, pend, st)
    PROVE  Fits(Q, NULL, pend, [st EXCEPT ![run] = "DONE"])
<1> DEFINE s == [st EXCEPT ![run] = "DONE"]
<1>1. st[run] = "RUNNING"
  BY DEF Fits
<1>2. s[run] = "DONE" /\ \A p \in Pid : p # run => s[p] = st[p]
  OBVIOUS
<1>3. \A p \in Pid : p # NULL
  BY NAssumption DEF Pid
<1> HIDE DEF s
<1>4. Fits(Q, NULL, pend, s)
  BY <1>1, <1>2, <1>3 DEF Fits
<1>5. QED
  BY <1>4 DEF s

\* Phases 1 to 4 keep every process in one place.
LEMMA Phase5Places ==
    ASSUME TypeOK, OnePlace
    PROVE  /\ Apart(AtPhase5.queue)
           /\ Fits(AtPhase5.queue, AtPhase5.cpu, pending \ Arriving, AtPhase5.status)
<1> DEFINE b == AtPhase5
           pend == pending \ Arriving
<1>1. /\ Queue2 \in [Lane -> Seq(Pid)]
      /\ Apart(Queue2)
      /\ Fits(Queue2, running, pend, Status2)
  BY Phase2Places
<1>2. /\ Queue2["hi"] = Ready("hi") /\ Queue2["lo"] = Ready("lo")
      /\ "hi" # "lo" /\ "hi" \in Lane /\ "lo" \in Lane
  BY DEF Queue2, Lane, Device
<1>3. Status2 \in [Pid -> Status]
  BY SetStatusType DEF Status2, Woken, TypeOK, Status
<1>4. CASE ~b.dispatched
  <2>1. b.cpu = running /\ b.status = Status2 /\ b.queue = Queue2
    BY <1>4, Phase5Fields DEF Status2, Queue2
  <2>2. QED
    BY <1>1, <2>1
<1>5. CASE b.dispatched
  <2>1. running = NULL /\ (Ready("hi") # <<>> \/ Ready("lo") # <<>>)
    BY <1>5, Phase5Fields
  <2> DEFINE l == IF Ready("hi") # <<>> THEN "hi" ELSE "lo"
             h == Head(Queue2[l])
  <2>2. l \in {"hi", "lo"} /\ Queue2[l] # <<>> /\ l = b.from
    BY <1>2, <2>1, Phase5Fields
  <2>3. b.cpu = h
    BY <1>2, <1>5, Phase5Fields DEF NextReady
  <2>4. b.queue = [Queue2 EXCEPT ![l] = Tail(@)]
    <3>1. b.queue = [k \in Lane |->
                       CASE k = "hi" -> IF b.from = "hi" THEN Tail(Ready("hi")) ELSE Ready("hi")
                         [] k = "lo" -> IF b.from = "lo" THEN Tail(Ready("lo")) ELSE Ready("lo")
                         [] OTHER -> InService(k)]
      BY <1>5, Phase5Fields
    <3>2. CASE l = "hi"
      BY <1>2, <2>2, <3>1, <3>2 DEF Queue2
    <3>3. CASE l = "lo"
      BY <1>2, <2>2, <3>1, <3>3 DEF Queue2
    <3>4. QED
      BY <3>2, <3>3
  <2> HIDE DEF l, h
  <2>5. /\ Apart([Queue2 EXCEPT ![l] = Tail(@)])
        /\ Status2[h] = "READY" /\ h \in Pid
        /\ Fits([Queue2 EXCEPT ![l] = Tail(@)], h, pend, [Status2 EXCEPT ![h] = "RUNNING"])
    BY <1>1, <1>3, <2>1, <2>2, DispatchPlaces DEF h
  <2>6. b.status = [Status2 EXCEPT ![h] = "RUNNING"]
    <3>1. b.status = [Status2 EXCEPT ![h] = SetStatus(@, "RUNNING")]
      BY <1>5, <2>3, Phase5Fields DEF Status2
    <3>2. SetStatus(Status2[h], "RUNNING") = "RUNNING"
      BY <2>5 DEF SetStatus, Allowed
    <3>3. QED
      BY <2>5, <3>1, <3>2
  <2>7. QED
    BY <2>3, <2>4, <2>5, <2>6
<1>6. b.dispatched \in BOOLEAN
  BY Phase5Fields
<1>7. QED
  BY <1>4, <1>5, <1>6

\* The transition asked for is one that process_set_status allows, whatever
\* process has the CPU.
LEMMA SetStatusAllowed ==
    ASSUME TypeOK, OnePlace, AtPhase5.cpu # NULL,
           NEW to \in {"READY", "BLOCKED", "DONE"}
    PROVE  /\ AtPhase5.cpu \in Pid
           /\ [AtPhase5.status EXCEPT ![AtPhase5.cpu] = SetStatus(@, to)]
                = [AtPhase5.status EXCEPT ![AtPhase5.cpu] = to]
<1> DEFINE b == AtPhase5
<1>1. b.cpu \in Pid
  BY Phase5Type
<1>2. b.status[b.cpu] = "RUNNING"
  BY <1>1, Phase5Places DEF Fits
<1>3. SetStatus("RUNNING", to) = to
  BY DEF SetStatus, Allowed
<1>4. QED
  BY <1>1, <1>2, <1>3

LEMMA BlockPlaces ==
    ASSUME TypeOK, OnePlace, AtPhase5.cpu # NULL, pending' = pending \ Arriving,
           NEW d \in Device, NEW n, Block(AtPhase5, d, n)
    PROVE  Apart(queue') /\ Fits(queue', running', pending', status')
<1> DEFINE b == AtPhase5
<1>1. /\ queue' = [b.queue EXCEPT ![d] = Append(@, b.cpu)]
      /\ running' = NULL
      /\ status' = [b.status EXCEPT ![b.cpu] = SetStatus(@, "BLOCKED")]
  BY DEF Block
<1>2. b.cpu \in Pid /\ status' = [b.status EXCEPT ![b.cpu] = "BLOCKED"]
  BY <1>1, SetStatusAllowed
<1>3. d \in Lane
  BY DEF Lane
<1>4. /\ b.queue \in [Lane -> Seq(Pid)]
      /\ b.status \in [Pid -> Status]
      /\ Apart(b.queue)
      /\ Fits(b.queue, b.cpu, pending', b.status)
  BY Phase5Type, Phase5Places
<1> DEFINE Q == b.queue
           st == b.status
           run == b.cpu
           pend == pending'
           to == "BLOCKED"
<1>5. /\ Q \in [Lane -> Seq(Pid)] /\ st \in [Pid -> Status] /\ run \in Pid
      /\ Apart(Q) /\ Fits(Q, run, pend, st)
      /\ to = IF d \in Device THEN "BLOCKED" ELSE "READY"
      /\ queue' = [Q EXCEPT ![d] = Append(@, run)]
      /\ status' = [st EXCEPT ![run] = to]
  BY <1>1, <1>2, <1>4
<1> HIDE DEF b, Q, st, run, pend, to
<1>6. /\ Apart([Q EXCEPT ![d] = Append(@, run)])
      /\ Fits([Q EXCEPT ![d] = Append(@, run)], NULL, pend, [st EXCEPT ![run] = to])
  BY <1>3, <1>5, LeavePlaces
<1>7. QED
  BY <1>1, <1>5, <1>6 DEF pend

LEMMA StepPlaces ==
    ASSUME TypeOK, OnePlace, Step
    PROVE  OnePlace'
<1> DEFINE b == AtPhase5
<1>1. TickEffects(b)
  BY StepCases DEF IdleTick, ScriptedIoTick, RandomIoTick, CompleteTick,
                   PreemptTick, RunTick
<1>2. pending' = pending \ Arriving
  BY <1>1 DEF TickEffects
<1>3. /\ b.queue \in [Lane -> Seq(Pid)]
      /\ b.status \in [Pid -> Status]
      /\ Apart(b.queue)
      /\ Fits(b.queue, b.cpu, pending', b.status)
  BY <1>2, Phase5Type, Phase5Places
<1>4. SUFFICES Apart(queue') /\ Fits(queue', running', pending', status')
  <2>1. ASSUME Apart(queue'), Fits(queue', running', pending', status')
        PROVE  OnePlace'
    <3>1. QueuedOnce'
      <4>1. ASSUME NEW l \in Lane, NEW m \in Lane,
                   NEW i \in DOMAIN queue'[l], NEW j \in DOMAIN queue'[m],
                   queue'[l][i] = queue'[m][j]
            PROVE  l = m /\ i = j
        <5>1. l = m
          BY <2>1, <4>1 DEF Apart, Members
        <5>2. QED
          BY <2>1, <4>1, <5>1 DEF Apart, NoRepeat
      <4>2. QED
        BY <4>1 DEF QueuedOnce
    <3>2. StatusFitsPlace'
      BY <2>1 DEF StatusFitsPlace, Fits
    <3>3. QED
      BY <3>1, <3>2 DEF OnePlace
  <2>2. QED
    BY <2>1
<1>5. CASE IdleTick(b)
  <2>1. running = NULL /\ b.cpu = NULL
    <3>1. b.cpu = NULL
      BY <1>5 DEF IdleTick
    <3>2. NULL \notin Pid
      BY NAssumption DEF Pid
    <3>3. QED
      BY <3>1, <3>2, Phase5Fields, Phase5Type
  <2>2. queue' = b.queue /\ status' = b.status /\ running' = NULL
    BY <1>5, <2>1 DEF IdleTick
  <2>3. QED
    BY <1>3, <2>1, <2>2
<1>6. CASE ScriptedIoTick(b)
  <2> DEFINE e == NextEntry(b.cpu)
  <2>1. b.cpu \in Pid /\ b.cpu # NULL /\ ScriptDue(b.cpu)
    BY <1>6, Phase5Type DEF ScriptedIoTick
  <2>2. e.device \in Device
    BY <2>1, DueEntryType
  <2>3. PICK n : Block(b, e.device, n)
    BY <1>6 DEF ScriptedIoTick
  <2> HIDE DEF e
  <2>4. QED
    BY <1>2, <2>1, <2>2, <2>3, BlockPlaces
<1>7. CASE RandomIoTick(b)
  <2>1. PICK r \in 0..99 : \E n : Block(b, SelectDevice(r), n)
    BY <1>7 DEF RandomIoTick
  <2>2. SelectDevice(r) \in Device
    BY DEF SelectDevice, Device
  <2>3. b.cpu # NULL
    BY <1>7 DEF RandomIoTick
  <2>4. PICK n : Block(b, SelectDevice(r), n)
    BY <2>1
  <2>5. QED
    BY <1>2, <2>2, <2>3, <2>4, BlockPlaces
<1>8. CASE CompleteTick(b)
  <2>1. b.cpu # NULL
    BY <1>8 DEF CompleteTick, CpuGranted
  <2>2. /\ b.cpu \in Pid
        /\ status' = [b.status EXCEPT ![b.cpu] = "DONE"]
        /\ queue' = b.queue
        /\ running' = NULL
    BY <1>8, <2>1, SetStatusAllowed DEF CompleteTick
  <2> HIDE DEF b
  <2>3. QED
    BY <1>3, <2>2, DonePlaces
<1>9. CASE PreemptTick(b)
  <2>1. b.cpu # NULL
    BY <1>9 DEF PreemptTick, CpuGranted
  <2>2. /\ b.cpu \in Pid
        /\ status' = [b.status EXCEPT ![b.cpu] = "READY"]
        /\ queue' = [b.queue EXCEPT !["lo"] = Append(@, b.cpu)]
        /\ running' = NULL
    BY <1>9, <2>1, SetStatusAllowed DEF PreemptTick
  <2>3. "lo" \in Lane /\ "lo" \notin Device
    BY DEF Lane, Device
  <2> HIDE DEF b
  <2>4. QED
    BY <1>3, <2>2, <2>3, LeavePlaces
<1>10. CASE RunTick(b)
  <2>1. status' = b.status /\ queue' = b.queue /\ running' = b.cpu
    BY <1>10 DEF RunTick
  <2>2. QED
    BY <1>3, <2>1
<1>11. QED
  BY <1>5, <1>6, <1>7, <1>8, <1>9, <1>10, StepCases

LEMMA InitPlaces ==
    ASSUME Init
    PROVE  OnePlace
<1>1. \A l \in Lane : queue[l] = <<>> /\ Members(queue[l]) = {}
  BY DEF Init, Members
<1>2. Apart(queue)
  BY <1>1 DEF Apart, NoRepeat
<1>3. \A p \in Pid : p # NULL
  BY NAssumption DEF Pid
<1>4. Fits(queue, running, pending, status)
  <2>1. {"hi", "lo"} \cup Device \subseteq Lane
    BY DEF Lane
  <2>2. QED
    BY <1>1, <1>3, <2>1 DEF Fits, Init, ProcessInit
<1>5. QED
  BY <1>2, <1>4, OnePlaceParts

LEMMA StutterPlaces ==
    ASSUME OnePlace, UNCHANGED vars
    PROVE  OnePlace'
BY DEF OnePlace, QueuedOnce, StatusFitsPlace, vars, procVars

\* No step loses a process, doubles it, or lets its status and its place
\* disagree; the invariant is inductive together with the types.
THEOREM PlacesCorrect == Spec => []OnePlace
<1>1. Init => OnePlace
  BY InitPlaces
<1>2. TypeOK /\ OnePlace /\ [Next]_vars => OnePlace'
  BY StepPlaces, StutterPlaces DEF Next
<1>3. QED
  BY <1>1, <1>2, TypeCorrect, PTL DEF Spec

-----------------------------------------------------------------------------
(***************************************************************************)
(* What the processes are given: scripts, bursts, time and turns.  Given   *)
(* the types and the places, a step is one of three things to the process  *)
(* on the CPU: nothing, the start of an I/O, or a tick.  The invariants    *)
(* are proved from that.                                                   *)
(***************************************************************************)

(* The three effects.                                                      *)

NobodyRuns(c) ==
    /\ c \notin Pid
    /\ cpuTicks' = cpuTicks
    /\ ioCount' = ioCount
    /\ scriptPos' = scriptPos
    /\ completionTick' = completionTick
    /\ \A p \in Pid : status'[p] = "DONE" <=> status[p] = "DONE"

StartsIo(c) ==
    /\ c \in Pid
    /\ cpuTicks' = cpuTicks
    /\ ioCount' = [ioCount EXCEPT ![c] = @ + 1]
    /\ \/ ScriptDue(c) /\ scriptPos' = [scriptPos EXCEPT ![c] = @ + 1]
       \/ scriptPos' = scriptPos
    /\ completionTick' = completionTick
    /\ \A p \in Pid : status'[p] = "DONE" <=> status[p] = "DONE"

GetsTick(c) ==
    /\ c \in Pid
    /\ ~ScriptDue(c)
    /\ cpuTicks' = [cpuTicks EXCEPT ![c] = @ + 1]
    /\ ioCount' = ioCount
    /\ scriptPos' = scriptPos
    /\ completionTick' = IF BurstOver(c) THEN [completionTick EXCEPT ![c] = tick]
                                         ELSE completionTick
    /\ \A p \in Pid : status'[p] = "DONE" <=>
                          status[p] = "DONE" \/ (p = c /\ BurstOver(c))

\* A process that is done is done for good, and phases 1 to 4 make none done.
LEMMA DoneStays ==
    ASSUME TypeOK
    PROVE  \A p \in Pid : AtPhase5.status[p] = "DONE" <=> status[p] = "DONE"
<1> DEFINE b == AtPhase5
<1>1. \A st \in Status, to \in {"READY", "RUNNING"} :
          SetStatus(st, to) = "DONE" <=> st = "DONE"
  BY DEF SetStatus, Allowed, Status
<1>2. \A p \in Pid : Woken(p) = "DONE" <=> status[p] = "DONE"
  BY <1>1 DEF Woken, TypeOK
<1>3. \A p \in Pid : Woken(p) \in Status
  BY SetStatusType DEF Woken, TypeOK, Status
<1>4. \A p \in Pid : b.status[p] = Woken(p) \/ b.status[p] = SetStatus(Woken(p), "RUNNING")
  BY Phase5Fields, Phase5Type
<1>5. QED
  BY <1>1, <1>2, <1>3, <1>4

\* The process on the CPU is not done.
LEMMA CpuNotDone ==
    ASSUME TypeOK, OnePlace, AtPhase5.cpu \in Pid
    PROVE  /\ AtPhase5.status[AtPhase5.cpu] = "RUNNING"
           /\ status[AtPhase5.cpu] # "DONE"
BY Phase5Places, DoneStays DEF Fits

LEMMA StepEffect ==
    ASSUME TypeOK, OnePlace, Step
    PROVE  \/ NobodyRuns(AtPhase5.cpu)
           \/ StartsIo(AtPhase5.cpu)
           \/ GetsTick(AtPhase5.cpu)
<1> DEFINE b == AtPhase5
           c == b.cpu
<1>1. \A p \in Pid : b.status[p] = "DONE" <=> status[p] = "DONE"
  BY DoneStays
<1>2. b.status \in [Pid -> Status]
  BY Phase5Type
<1>3. ASSUME c # NULL, NEW to \in {"READY", "BLOCKED", "DONE"},
             status' = [b.status EXCEPT ![c] = SetStatus(@, to)]
      PROVE  /\ c \in Pid
             /\ \A p \in Pid : status'[p] = "DONE" <=>
                                   status[p] = "DONE" \/ (p = c /\ to = "DONE")
  <2>1. c \in Pid /\ status' = [b.status EXCEPT ![c] = to]
    BY <1>3, SetStatusAllowed
  <2>2. status[c] # "DONE"
    BY <2>1, CpuNotDone
  <2> HIDE DEF b, c
  <2>3. QED
    BY <1>1, <1>2, <2>1, <2>2 DEF b, c
<1>4. CASE IdleTick(b)
  <2>1. c \notin Pid
    <3>1. NULL \notin Pid
      BY NAssumption DEF Pid
    <3>2. QED
      BY <1>4, <3>1 DEF IdleTick
  <2>2. NobodyRuns(c)
    BY <1>1, <1>4, <2>1 DEF IdleTick, NobodyRuns
  <2>3. QED
    BY <2>2
<1>5. CASE ScriptedIoTick(b)
  <2>1. PICK d, n : Block(b, d, n)
    BY <1>5 DEF ScriptedIoTick
  <2>2. /\ c # NULL /\ ScriptDue(c)
        /\ scriptPos' = [scriptPos EXCEPT ![c] = @ + 1]
    BY <1>5 DEF ScriptedIoTick
  <2>3. status' = [b.status EXCEPT ![c] = SetStatus(@, "BLOCKED")]
    BY <2>1 DEF Block
  <2>4. StartsIo(c)
    BY <1>3, <2>1, <2>2, <2>3 DEF StartsIo, Block
  <2>5. QED
    BY <2>4
<1>6. CASE RandomIoTick(b)
  <2>1. PICK d, n : Block(b, d, n)
    BY <1>6 DEF RandomIoTick
  <2>2. c # NULL /\ scriptPos' = scriptPos
    BY <1>6 DEF RandomIoTick
  <2>3. status' = [b.status EXCEPT ![c] = SetStatus(@, "BLOCKED")]
    BY <2>1 DEF Block
  <2>4. StartsIo(c)
    BY <1>3, <2>1, <2>2, <2>3 DEF StartsIo, Block
  <2>5. QED
    BY <2>4
<1>7. CASE CompleteTick(b)
  <2>1. c # NULL /\ ~ScriptDue(c) /\ BurstOver(c)
    BY <1>7 DEF CompleteTick, CpuGranted
  <2>2. GetsTick(c)
    BY <1>3, <1>7, <2>1 DEF CompleteTick, Consume, GetsTick
  <2>3. QED
    BY <2>2
<1>8. CASE PreemptTick(b)
  <2>1. c # NULL /\ ~ScriptDue(c) /\ ~BurstOver(c)
    BY <1>8 DEF PreemptTick, CpuGranted
  <2>2. GetsTick(c)
    BY <1>3, <1>8, <2>1 DEF PreemptTick, Consume, GetsTick
  <2>3. QED
    BY <2>2
<1>9. CASE RunTick(b)
  <2>1. c # NULL /\ ~ScriptDue(c) /\ ~BurstOver(c)
    BY <1>9 DEF RunTick, CpuGranted
  <2>2. c \in Pid
    BY <2>1, Phase5Type
  <2>3. GetsTick(c)
    BY <1>1, <1>9, <2>1, <2>2 DEF RunTick, Consume, GetsTick
  <2>4. QED
    BY <2>3
<1>10. QED
  BY <1>4, <1>5, <1>6, <1>7, <1>8, <1>9, StepCases

LEMMA StepKeepsScn ==
    ASSUME Step
    PROVE  scn' = scn /\ tick' = tick + 1 /\ pending' = pending \ Arriving
BY StepCases DEF IdleTick, ScriptedIoTick, RandomIoTick, CompleteTick,
                 PreemptTick, RunTick, TickEffects

-----------------------------------------------------------------------------
(* Bursts.                                                                 *)

LEMMA StepBurst ==
    ASSUME TypeOK, OnePlace, BurstExact, Step
    PROVE  BurstExact'
<1> DEFINE c == AtPhase5.cpu
<1>1. /\ cpuTicks \in [Pid -> Nat] /\ completionTick \in [Pid -> Int]
      /\ tick \in Nat /\ scn.burst \in [Pid -> Int]
  BY MaxTickAssumption DEF TypeOK, Scenario
<1>2. scn' = scn
  BY StepKeepsScn
<1>3. c \in Pid => status[c] # "DONE"
  BY CpuNotDone
<1> HIDE DEF c
<1>4. CASE NobodyRuns(c) \/ StartsIo(c)
  BY <1>2, <1>4 DEF NobodyRuns, StartsIo, BurstExact
<1>5. CASE GetsTick(c)
  <2>1. ASSUME NEW p \in Pid, p # c
        PROVE  /\ cpuTicks'[p] = cpuTicks[p]
               /\ completionTick'[p] = completionTick[p]
               /\ status'[p] = "DONE" <=> status[p] = "DONE"
    BY <1>1, <1>5, <2>1 DEF GetsTick
  <2>2. /\ c \in Pid
        /\ cpuTicks'[c] = cpuTicks[c] + 1
        /\ completionTick'[c] = IF BurstOver(c) THEN tick ELSE completionTick[c]
        /\ status'[c] = "DONE" <=> BurstOver(c)
    BY <1>1, <1>3, <1>5 DEF GetsTick
  <2>3. /\ scn.burst[c] > 0 => cpuTicks'[c] <= scn.burst[c]
        /\ status'[c] = "DONE" <=> scn.burst[c] > 0 /\ cpuTicks'[c] = scn.burst[c]
        /\ status'[c] = "DONE" <=> completionTick'[c] >= 0
    BY <1>1, <1>3, <2>2 DEF BurstExact, BurstOver
  <2>4. QED
    BY <1>2, <2>1, <2>3 DEF BurstExact
<1>6. QED
  BY <1>4, <1>5, StepEffect DEF c

LEMMA InitBurst ==
    ASSUME Init
    PROVE  BurstExact
<1>1. scn.burst \in [Pid -> Int]
  BY ScenariosAssumption DEF Init, Scenario
<1>2. QED
  BY <1>1 DEF Init, ProcessInit, BurstExact

LEMMA StutterBurst ==
    ASSUME BurstExact, UNCHANGED vars
    PROVE  BurstExact'
BY DEF BurstExact, vars, procVars

\* A process completes on the tick that gives it its last unit of service, and
\* then only.
THEOREM BurstCorrect == Spec => []BurstExact
<1>1. Init => BurstExact
  BY InitBurst
<1>2. TypeOK /\ OnePlace /\ BurstExact /\ [Next]_vars => BurstExact'
  BY StepBurst, StutterBurst DEF Next
<1>3. QED
  BY <1>1, <1>2, TypeCorrect, PlacesCorrect, PTL DEF Spec

-----------------------------------------------------------------------------
(* Workloads that never end.                                               *)

\* What keeps them from ending: a process that should have arrived before the
\* first tick is still pending, and with an I/O on every tick nobody has had a
\* tick of the CPU.
Stuck ==
    \A p \in Pid : /\ scn.arrival[p] < 0 => p \in pending
                   /\ scn.pIo >= 100 => cpuTicks[p] = 0

\* Only a tick that starts no I/O is given to a process.
LEMMA CpuTickSkipsIo ==
    ASSUME TypeOK, Step, scn.pIo >= 100
    PROVE  cpuTicks' = cpuTicks
<1>1. ~CanSkipRandomIo
  BY DEF CanSkipRandomIo, TypeOK, Scenario
<1>2. \A b : ~CompleteTick(b) /\ ~PreemptTick(b) /\ ~RunTick(b)
  BY <1>1 DEF CompleteTick, PreemptTick, RunTick, CpuGranted
<1>3. QED
  BY <1>2, StepCases DEF IdleTick, ScriptedIoTick, RandomIoTick, Block

LEMMA StepStuck ==
    ASSUME TypeOK, Stuck, Step
    PROVE  Stuck'
<1>1. scn' = scn /\ pending' = pending \ Arriving
  BY StepKeepsScn
<1>2. tick \in Nat /\ scn.arrival \in [Pid -> Int]
  BY MaxTickAssumption DEF TypeOK, Scenario
<1>3. ASSUME NEW p \in Pid, scn.arrival[p] < 0 PROVE p \in pending'
  BY <1>1, <1>2, <1>3 DEF Stuck, Arriving
<1>4. ASSUME NEW p \in Pid, scn.pIo >= 100 PROVE cpuTicks'[p] = 0
  BY <1>4, CpuTickSkipsIo DEF Stuck
<1>5. QED
  BY <1>1, <1>3, <1>4 DEF Stuck

\* What is stuck is not done: every process that is done has arrived, and has
\* received all of a burst.
LEMMA StuckNotDone ==
    ASSUME TypeOK, BurstExact, Stuck
    PROVE  EndlessNeverDone
<1> SUFFICES ASSUME IsDone, NEW p \in Pid, ~CanComplete(p) \/ scn.pIo >= 100
             PROVE  FALSE
  BY DEF EndlessNeverDone, Endless
<1>1. scn.arrival[p] \in Int /\ scn.burst[p] \in Int
  BY DEF TypeOK, Scenario
<1>2. p \notin pending /\ status[p] = "DONE"
  BY DEF IsDone
<1>3. scn.burst[p] > 0 /\ cpuTicks[p] = scn.burst[p]
  BY <1>2 DEF BurstExact
<1>4. ~(scn.arrival[p] < 0) /\ (scn.pIo >= 100 => cpuTicks[p] = 0)
  BY <1>2 DEF Stuck
<1>5. CanComplete(p)
  BY <1>1, <1>3, <1>4 DEF CanComplete
<1>6. QED
  BY <1>1, <1>3, <1>4, <1>5

\* A workload that cannot end never does, however long sim_step is called:
\* sim_is_done stays false for a process without a burst or with an arrival
\* before tick 0, and with an I/O on every tick.
THEOREM EndlessKept == Spec => []EndlessNeverDone
<1>1. Init => Stuck
  BY DEF Init, ProcessInit, Stuck
<1>2. TypeOK /\ Stuck /\ UNCHANGED vars => Stuck'
  BY DEF Stuck, vars, procVars
<1>3. TypeOK /\ Stuck /\ [Next]_vars => Stuck'
  BY <1>2, StepStuck DEF Next
<1>4. TypeOK /\ BurstExact /\ Stuck => EndlessNeverDone
  BY StuckNotDone
<1>5. QED
  BY <1>1, <1>3, <1>4, TypeCorrect, BurstCorrect, PTL DEF Spec

-----------------------------------------------------------------------------
(* Scripts.                                                                *)

\* The script position stays within the script: NoScriptedIoMissed does not
\* say it, and it is needed for "the whole script has fired".
InScript == \A p \in Pid : scriptPos[p] <= Len(scn.script[p])

\* The scripts and bursts of the scenario, as numbers.
LEMMA ScriptFacts ==
    ASSUME TypeOK, ScnOK, NEW p \in Pid
    PROVE  /\ Len(scn.script[p]) \in Nat
           /\ DOMAIN scn.script[p] = 1..Len(scn.script[p])
           /\ \A j \in DOMAIN scn.script[p] :
                 /\ scn.script[p][j].serviceTick \in Int
                 /\ j > 1 => /\ j - 1 \in DOMAIN scn.script[p]
                             /\ scn.script[p][j].serviceTick
                                   > scn.script[p][j - 1].serviceTick
                 /\ j = 1 => scn.script[p][j].serviceTick >= 0
                 /\ scn.burst[p] > 0 => scn.script[p][j].serviceTick < scn.burst[p]
           /\ scn.burst[p] \in Int
<1> DEFINE s == scn.script[p]
<1>1. s \in Seq(ScriptedIO) /\ scn.burst[p] \in Int
  BY DEF TypeOK, Scenario
<1>2. \A j \in DOMAIN s :
          /\ s[j].serviceTick > (IF j = 1 THEN -1 ELSE s[j - 1].serviceTick)
          /\ scn.burst[p] > 0 => s[j].serviceTick < scn.burst[p]
  BY ScenariosAssumption DEF ScnOK, ValidScript
<1> HIDE DEF s
<1>3. Len(s) \in Nat /\ DOMAIN s = 1..Len(s)
  BY <1>1
<1>4. \A j \in DOMAIN s : s[j].serviceTick \in Int
  <2>1. \A j \in DOMAIN s : s[j] \in ScriptedIO
    BY <1>1, <1>3
  <2>2. QED
    BY <2>1 DEF ScriptedIO
<1>5. \A j \in DOMAIN s : j > 1 => j - 1 \in DOMAIN s /\ j # 1
  BY <1>3
<1>6. \A j \in DOMAIN s : j > 1 => s[j].serviceTick > s[j - 1].serviceTick
  BY <1>2, <1>5
<1>7. \A j \in DOMAIN s : j = 1 => s[j].serviceTick >= 0
  BY <1>2, <1>4
<1>8. QED
  BY <1>1, <1>2, <1>3, <1>4, <1>5, <1>6, <1>7 DEF s

\* A script has no entry before service 0: the first has none, and an entry
\* lies behind the one before it.
LEMMA ScriptStarts ==
    ASSUME TypeOK, ScnOK, NEW p \in Pid, NEW j \in DOMAIN scn.script[p]
    PROVE  scn.script[p][j].serviceTick >= 0
<1> DEFINE at(k) == scn.script[p][k].serviceTick
           T == {k \in DOMAIN scn.script[p] : at(k) < 0}
<1>1. /\ DOMAIN scn.script[p] \subseteq Nat \ {0}
      /\ \A k \in DOMAIN scn.script[p] :
            /\ at(k) \in Int
            /\ k > 1 => k - 1 \in DOMAIN scn.script[p] /\ at(k) > at(k - 1)
            /\ k = 1 => at(k) >= 0
  <2>1. Len(scn.script[p]) \in Nat /\ DOMAIN scn.script[p] = 1..Len(scn.script[p])
    BY ScriptFacts
  <2>2. DOMAIN scn.script[p] \subseteq Nat \ {0}
    BY <2>1
  <2>3. QED
    BY <2>2, ScriptFacts
<1>2. SUFFICES ASSUME T # {} PROVE FALSE
  BY <1>1
<1>3. T \in SUBSET Nat
  BY <1>1
<1>4. PICK k \in T : \A m \in T : k <= m
  BY <1>2, <1>3, LeastNat
<1>5. k \in DOMAIN scn.script[p] /\ at(k) < 0 /\ k \in Nat \ {0}
  BY <1>1, <1>4
<1>6. k > 1
  BY <1>1, <1>5
<1>7. k - 1 \in DOMAIN scn.script[p] /\ at(k - 1) < at(k) /\ at(k - 1) \in Int
  BY <1>1, <1>5, <1>6
<1>8. k - 1 \in T
  BY <1>1, <1>5, <1>7
<1>9. QED
  BY <1>4, <1>5, <1>8

\* What NoScriptedIoMissed says of one process.
ScriptAhead(p) ==
    /\ \A j \in DOMAIN scn.script[p] :
           IF j <= scriptPos[p]
           THEN scn.script[p][j].serviceTick <= cpuTicks[p]
           ELSE scn.script[p][j].serviceTick >= cpuTicks[p]
    /\ scriptPos[p] <= ioCount[p]
    /\ status[p] = "DONE" => scriptPos[p] = Len(scn.script[p])

\* A tick moves the service of a process up to the entry that comes next, and
\* not past it: that entry is not due, and the ones behind it are later.
LEMMA TickAhead ==
    ASSUME TypeOK, ScnOK, NEW p \in Pid, ScriptAhead(p), ~ScriptDue(p),
           scriptPos[p] <= Len(scn.script[p])
    PROVE  \A j \in DOMAIN scn.script[p] :
               j > scriptPos[p] => scn.script[p][j].serviceTick >= cpuTicks[p] + 1
<1> DEFINE at(k) == scn.script[p][k].serviceTick
           D == DOMAIN scn.script[p]
           k0 == scriptPos[p]
           n == cpuTicks[p]
<1>1. /\ k0 \in Nat /\ n \in Nat
      /\ Len(scn.script[p]) \in Nat /\ D = 1..Len(scn.script[p])
  BY ScriptFacts DEF TypeOK
<1>2. \A j \in D : /\ at(j) \in Int
                   /\ j > 1 => j - 1 \in D /\ at(j) > at(j - 1)
                   /\ j > k0 => at(j) >= n
  BY <1>1, ScriptFacts DEF ScriptAhead
<1>3. k0 + 1 \in D => at(k0 + 1) # n
  BY <1>1 DEF ScriptDue, NextEntry
<1> HIDE DEF at, D, k0, n
<1>4. ASSUME NEW j \in D, j > k0
      PROVE  at(j) >= n + 1
  <2>1. CASE j = k0 + 1
    BY <1>1, <1>2, <1>3, <1>4, <2>1
  <2>2. CASE j # k0 + 1
    <3>1. j \in Nat /\ j - 1 > k0 /\ j > 1
      BY <1>1, <1>4, <2>2
    <3>2. j - 1 \in D /\ at(j) > at(j - 1) /\ at(j - 1) >= n
      BY <1>2, <3>1
    <3>3. at(j) \in Int /\ at(j - 1) \in Int
      BY <1>2, <3>2
    <3>4. QED
      BY <1>1, <3>2, <3>3
  <2>3. QED
    BY <2>1, <2>2
<1>5. QED
  BY <1>4 DEF at, D, k0, n

LEMMA StepScript ==
    ASSUME TypeOK, OnePlace, ScnOK, NoScriptedIoMissed, InScript, Step
    PROVE  NoScriptedIoMissed' /\ InScript'
<1> PICK c : c = AtPhase5.cpu
  OBVIOUS
<1>1. scn' = scn
  BY StepKeepsScn
<1>2. /\ cpuTicks \in [Pid -> Nat] /\ scriptPos \in [Pid -> Nat]
      /\ ioCount \in [Pid -> Nat]
  BY DEF TypeOK
<1>3. \A p \in Pid : ScriptAhead(p) /\ scriptPos[p] <= Len(scn.script[p])
  BY DEF NoScriptedIoMissed, ScriptAhead, InScript
<1>4. SUFFICES \A p \in Pid : ScriptAhead(p)' /\ scriptPos'[p] <= Len(scn.script[p])
  BY <1>1 DEF NoScriptedIoMissed, ScriptAhead, InScript
<1>5. c \in Pid => status[c] # "DONE"
  BY CpuNotDone
<1>6. ASSUME NEW p \in Pid,
             cpuTicks'[p] = cpuTicks[p], scriptPos'[p] = scriptPos[p],
             ioCount'[p] \in {ioCount[p], ioCount[p] + 1},
             status'[p] = "DONE" <=> status[p] = "DONE"
      PROVE  ScriptAhead(p)' /\ scriptPos'[p] <= Len(scn.script[p])
  BY <1>1, <1>2, <1>3, <1>6 DEF ScriptAhead
<1>7. CASE NobodyRuns(c)
  BY <1>6, <1>7 DEF NobodyRuns
<1>8. CASE StartsIo(c)
  <2>1. ASSUME NEW p \in Pid, p # c
        PROVE  ScriptAhead(p)' /\ scriptPos'[p] <= Len(scn.script[p])
    <3>1. /\ cpuTicks'[p] = cpuTicks[p] /\ scriptPos'[p] = scriptPos[p]
          /\ ioCount'[p] = ioCount[p]
          /\ status'[p] = "DONE" <=> status[p] = "DONE"
      BY <1>2, <1>8, <2>1 DEF StartsIo
    <3>2. QED
      BY <1>6, <3>1
  <2>2. ScriptAhead(c)' /\ scriptPos'[c] <= Len(scn.script[c])
    <3>1. /\ c \in Pid
          /\ cpuTicks'[c] = cpuTicks[c]
          /\ ioCount'[c] = ioCount[c] + 1
          /\ status'[c] # "DONE" /\ status[c] # "DONE"
      BY <1>2, <1>5, <1>8 DEF StartsIo
    <3>2. CASE scriptPos' = scriptPos
      BY <1>6, <3>1, <3>2
    <3>3. CASE ScriptDue(c) /\ scriptPos' = [scriptPos EXCEPT ![c] = @ + 1]
      <4> DEFINE at(k) == scn.script[c][k].serviceTick
                 D == DOMAIN scn.script[c]
                 k0 == scriptPos[c]
                 n == cpuTicks[c]
      <4>1. /\ k0 \in Nat /\ n \in Nat /\ scriptPos'[c] = k0 + 1
            /\ k0 < Len(scn.script[c]) /\ at(k0 + 1) = n
        BY <1>2, <3>1, <3>3 DEF ScriptDue, NextEntry
      <4>2. D \subseteq Nat /\ Len(scn.script[c]) \in Nat
        <5>1. Len(scn.script[c]) \in Nat /\ D = 1..Len(scn.script[c])
          BY <3>1, ScriptFacts
        <5>2. QED
          BY <5>1
      <4>3. \A j \in D : IF j <= k0 THEN at(j) <= n ELSE at(j) >= n
        BY <1>3, <3>1 DEF ScriptAhead
      <4> HIDE DEF at, D, k0, n
      <4>4. \A j \in D : IF j <= k0 + 1 THEN at(j) <= n ELSE at(j) >= n
        BY <4>1, <4>2, <4>3
      <4>5. scriptPos'[c] <= ioCount'[c]
        BY <1>2, <1>3, <3>1, <4>1 DEF ScriptAhead, k0
      <4>6. scriptPos'[c] <= Len(scn.script[c])
        BY <4>1, <4>2
      <4>7. QED
        BY <1>1, <3>1, <4>1, <4>4, <4>5, <4>6 DEF ScriptAhead, at, D, n
    <3>4. QED
      BY <1>8, <3>2, <3>3 DEF StartsIo
  <2>3. QED
    BY <2>1, <2>2
<1>9. CASE GetsTick(c)
  <2>1. ASSUME NEW p \in Pid, p # c
        PROVE  ScriptAhead(p)' /\ scriptPos'[p] <= Len(scn.script[p])
    <3>1. /\ cpuTicks'[p] = cpuTicks[p] /\ scriptPos'[p] = scriptPos[p]
          /\ ioCount'[p] = ioCount[p]
          /\ status'[p] = "DONE" <=> status[p] = "DONE"
      BY <1>2, <1>9, <2>1 DEF GetsTick
    <3>2. QED
      BY <1>6, <3>1
  <2>2. ScriptAhead(c)' /\ scriptPos'[c] <= Len(scn.script[c])
    <3>1. /\ c \in Pid /\ ~ScriptDue(c)
          /\ cpuTicks'[c] = cpuTicks[c] + 1
          /\ scriptPos'[c] = scriptPos[c] /\ ioCount'[c] = ioCount[c]
          /\ status'[c] = "DONE" <=> BurstOver(c)
      BY <1>2, <1>5, <1>9 DEF GetsTick
    <3> DEFINE at(k) == scn.script[c][k].serviceTick
               D == DOMAIN scn.script[c]
               k0 == scriptPos[c]
               n == cpuTicks[c]
               len == Len(scn.script[c])
    <3>2. /\ k0 \in Nat /\ n \in Nat /\ len \in Nat /\ D = 1..len /\ k0 <= len
          /\ \A j \in D : at(j) \in Int
      BY <1>2, <1>3, <3>1, ScriptFacts
    <3>3. \A j \in D : j > k0 => at(j) >= n + 1
      BY <1>3, <3>1, TickAhead
    <3>4. \A j \in D : j <= k0 => at(j) <= n
      BY <1>3, <3>1 DEF ScriptAhead
    <3>5. BurstOver(c) => k0 = len
      <4>1. ASSUME BurstOver(c), k0 # len PROVE FALSE
        <5>1. scn.burst[c] > 0 /\ n + 1 >= scn.burst[c] /\ scn.burst[c] \in Int
          BY <3>1, <4>1, ScriptFacts DEF BurstOver
        <5>2. k0 + 1 \in D /\ k0 + 1 > k0
          BY <3>2, <4>1
        <5>3. at(k0 + 1) < scn.burst[c]
          BY <3>1, <5>1, <5>2, ScriptFacts
        <5>4. at(k0 + 1) >= n + 1 /\ at(k0 + 1) \in Int
          BY <3>2, <3>3, <5>2
        <5> HIDE DEF at, D, k0, n, len
        <5>5. QED
          BY <3>2, <5>1, <5>3, <5>4
      <4>2. QED
        BY <4>1
    <3> HIDE DEF at, D, k0, n, len
    <3>6. \A j \in D : IF j <= k0 THEN at(j) <= n + 1 ELSE at(j) >= n + 1
      BY <3>2, <3>3, <3>4
    <3>7. k0 <= ioCount[c]
      BY <1>3, <3>1 DEF ScriptAhead, k0
    <3>8. ScriptAhead(c)'
      BY <1>1, <3>1, <3>5, <3>6, <3>7 DEF ScriptAhead, at, D, k0, n, len
    <3>9. scriptPos'[c] <= Len(scn.script[c])
      BY <3>1, <3>2 DEF k0, len
    <3>10. QED
      BY <3>8, <3>9
  <2>3. QED
    BY <2>1, <2>2
<1>10. QED
  BY <1>7, <1>8, <1>9, StepEffect

LEMMA InitScript ==
    ASSUME Init
    PROVE  ScnOK /\ NoScriptedIoMissed /\ InScript
<1>1. TypeOK /\ ScnOK
  BY InitType DEF Init, ScnOK
<1>2. \A p \in Pid : /\ cpuTicks[p] = 0 /\ scriptPos[p] = 0 /\ ioCount[p] = 0
                     /\ status[p] # "DONE"
  BY DEF Init, ProcessInit
<1>3. \A p \in Pid : Len(scn.script[p]) \in Nat /\ DOMAIN scn.script[p] = 1..Len(scn.script[p])
  BY <1>1, ScriptFacts
<1>4. \A p \in Pid : \A j \in DOMAIN scn.script[p] :
          ~(j <= 0) /\ scn.script[p][j].serviceTick >= 0
  BY <1>1, <1>3, ScriptStarts
<1>5. QED
  BY <1>1, <1>2, <1>3, <1>4 DEF NoScriptedIoMissed, InScript

LEMMA StutterScript ==
    ASSUME ScnOK, NoScriptedIoMissed, InScript, UNCHANGED vars
    PROVE  (ScnOK /\ NoScriptedIoMissed /\ InScript)'
BY DEF ScnOK, NoScriptedIoMissed, InScript, vars, procVars

\* No scripted I/O is ever passed by, whatever random I/O, preemption and
\* waiting lie between the entries.
THEOREM ScriptsCorrect == Spec => []NoScriptedIoMissed
<1> DEFINE Inv == ScnOK /\ NoScriptedIoMissed /\ InScript
<1>1. Init => Inv
  BY InitScript
<1>2. TypeOK /\ OnePlace /\ Inv /\ [Next]_vars => Inv'
  <2>1. ASSUME ScnOK, Step PROVE ScnOK'
    BY <2>1, StepKeepsScn DEF ScnOK
  <2>2. QED
    BY <2>1, StepScript, StutterScript DEF Next
<1>3. Inv => NoScriptedIoMissed
  OBVIOUS
<1> HIDE DEF Inv
<1>4. QED
  BY <1>1, <1>2, <1>3, TypeCorrect, PlacesCorrect, PTL DEF Spec

-----------------------------------------------------------------------------
(* Time.                                                                   *)

\* What a device serves is in service on it.
LEMMA ServedListed ==
    ASSUME TypeOK
    PROVE  \A e \in Device : Served(e) \subseteq Members(InService(e))
<1>1. ASSUME NEW e \in Device, InService(e) # <<>>
      PROVE  Head(InService(e)) \in Members(InService(e))
  <2>1. InService(e) \in Seq(Pid)
    BY DeviceSplit
  <2> DEFINE q == InService(e)
  <2> HIDE DEF q
  <2>2. q \in Seq(Pid) /\ q # <<>>
    BY <1>1, <2>1 DEF q
  <2>3. Head(q) = q[1] /\ 1 \in DOMAIN q
    BY <2>2
  <2>4. QED
    BY <2>3 DEF Members, q
<1>2. QED
  BY <1>1 DEF Served

\* A process that a device serves is blocked, on that device alone, and does
\* not have the CPU in the same tick.
LEMMA ServedAlone ==
    ASSUME TypeOK, OnePlace, NEW d \in Device, NEW p \in Served(d)
    PROVE  /\ p \in Pid
           /\ status[p] = "BLOCKED"
           /\ p \notin pending
           /\ p # AtPhase5.cpu
           /\ \A e \in Device : p \in Served(e) => e = d
<1>1. \A e \in Device : Served(e) \subseteq Members(InService(e))
  BY ServedListed
<1>2. \A e \in Device : Members(InService(e)) \subseteq Members(queue[e])
  BY DeviceSplit
<1>3. \A e \in Device : e \in Lane /\ Members(queue[e]) \subseteq Pid
  BY DEF TypeOK, Lane, Members
<1>4. p \in Pid /\ status[p] = "BLOCKED"
  BY <1>1, <1>2, <1>3, OnePlaceParts DEF Fits
<1>5. p \notin pending
  BY <1>4, OnePlaceParts DEF Fits
<1>6. \A e \in Device : p \in Served(e) => e = d
  BY <1>1, <1>2, <1>3, OnePlaceParts DEF Apart
<1>7. p # AtPhase5.cpu
  <2>1. AtPhase5.queue[d] = InService(d)
    BY Phase5Fields DEF Lane, Device
  <2>2. p \in Members(AtPhase5.queue[d])
    BY <1>1, <2>1
  <2>3. AtPhase5.status[p] = "BLOCKED"
    BY <1>4, <2>2, Phase5Places DEF Fits
  <2>4. p = AtPhase5.cpu => AtPhase5.status[p] = "RUNNING"
    BY <1>4, CpuNotDone
  <2>5. QED
    BY <2>3, <2>4
<1>8. QED
  BY <1>4, <1>5, <1>6, <1>7

IsServed(p) == \E d \in Device : p \in Served(d)

LEMMA IoTicksStep ==
    ASSUME TypeOK, OnePlace, Step, NEW p \in Pid
    PROVE  /\ IoTicks(p) \in Nat
           /\ IoTicks(p)' = IF IsServed(p) THEN IoTicks(p) + 1 ELSE IoTicks(p)
<1>1. TickEffects(AtPhase5)
  BY StepCases DEF IdleTick, ScriptedIoTick, RandomIoTick, CompleteTick,
                   PreemptTick, RunTick
<1>2. {"disk", "tape", "printer"} = Device
  BY DEF Device
<1>3. \A d \in Device : ioTicks[p][d] \in Nat
  BY DEF TypeOK
<1>4. \A d \in Device : ioTicks'[p][d] = IF p \in Served(d) THEN ioTicks[p][d] + 1
                                                       ELSE ioTicks[p][d]
  BY <1>1 DEF TickEffects
<1>5. \A d, e \in Device : p \in Served(d) /\ p \in Served(e) => d = e
  BY ServedAlone
<1>6. IoTicks(p) \in Nat
  BY <1>2, <1>3 DEF IoTicks
<1>7. IoTicks(p)' = ioTicks'[p]["disk"] + ioTicks'[p]["tape"] + ioTicks'[p]["printer"]
  BY DEF IoTicks
<1> DEFINE x == ioTicks[p]["disk"]
           y == ioTicks[p]["tape"]
           z == ioTicks[p]["printer"]
<1>8. x \in Nat /\ y \in Nat /\ z \in Nat /\ IoTicks(p) = x + y + z
  BY <1>2, <1>3 DEF IoTicks
<1>9. IoTicks(p)' = (IF p \in Served("disk") THEN x + 1 ELSE x)
                    + (IF p \in Served("tape") THEN y + 1 ELSE y)
                    + (IF p \in Served("printer") THEN z + 1 ELSE z)
  BY <1>2, <1>4, <1>7
<1>10. IsServed(p) <=> \/ p \in Served("disk") \/ p \in Served("tape")
                       \/ p \in Served("printer")
  BY DEF IsServed, Device
<1>11. /\ ~(p \in Served("disk") /\ p \in Served("tape"))
       /\ ~(p \in Served("disk") /\ p \in Served("printer"))
       /\ ~(p \in Served("tape") /\ p \in Served("printer"))
  BY <1>2, <1>5
<1> HIDE DEF x, y, z
<1>12. QED
  BY <1>6, <1>8, <1>9, <1>10, <1>11

\* In a step a process is credited with at most one service, and with none
\* while it is pending or once it is done.
LEMMA CreditStep ==
    ASSUME TypeOK, OnePlace, Step, NEW p \in Pid
    PROVE  /\ Credit(p) \in Nat
           /\ Credit(p)' \in {Credit(p), Credit(p) + 1}
           /\ (p \in pending' \/ status[p] = "DONE") => Credit(p)' = Credit(p)
           /\ (p = AtPhase5.cpu \/ IsServed(p)) => Credit(p)' = Credit(p) + 1
<1> PICK c : c = AtPhase5.cpu
  OBVIOUS
<1>1. cpuTicks \in [Pid -> Nat] /\ ioCount \in [Pid -> Nat]
  BY DEF TypeOK
<1>2. /\ IoTicks(p) \in Nat
      /\ IoTicks(p)' = IF IsServed(p) THEN IoTicks(p) + 1 ELSE IoTicks(p)
  BY IoTicksStep
<1>3. IsServed(p) => p # c /\ p \notin pending' /\ status[p] # "DONE"
  <2>1. ASSUME IsServed(p)
        PROVE  p # c /\ p \notin pending /\ status[p] = "BLOCKED"
    BY <2>1, ServedAlone DEF IsServed
  <2>2. QED
    BY <2>1, StepKeepsScn
<1>4. c \in Pid => c \notin pending' /\ status[c] # "DONE"
  <2>1. ASSUME c \in Pid, c \in pending' PROVE FALSE
    <3>1. c \in pending \ Arriving
      BY <2>1, StepKeepsScn
    <3>2. AtPhase5.status[c] = "READY"
      BY <2>1, <3>1, Phase5Places DEF Fits
    <3>3. AtPhase5.status[c] = "RUNNING"
      BY <2>1, CpuNotDone
    <3>4. QED
      BY <3>2, <3>3
  <2>2. QED
    BY <2>1, CpuNotDone
<1>5. Credit(p) = cpuTicks[p] + IoTicks(p) + ioCount[p]
  BY DEF Credit
<1>6. Credit(p)' = cpuTicks'[p] + IoTicks(p)' + ioCount'[p]
  BY DEF Credit
<1>7. /\ cpuTicks'[p] + ioCount'[p] = IF p = c THEN cpuTicks[p] + ioCount[p] + 1
                                               ELSE cpuTicks[p] + ioCount[p]
      /\ cpuTicks'[p] \in Nat /\ ioCount'[p] \in Nat
  <2>1. CASE NobodyRuns(c)
    BY <1>1, <2>1 DEF NobodyRuns
  <2>2. CASE StartsIo(c)
    BY <1>1, <2>2 DEF StartsIo
  <2>3. CASE GetsTick(c)
    BY <1>1, <2>3 DEF GetsTick
  <2>4. QED
    BY <2>1, <2>2, <2>3, StepEffect
<1>8. cpuTicks[p] \in Nat /\ ioCount[p] \in Nat
  BY <1>1
<1> DEFINE io == IoTicks(p)
           io2 == IoTicks(p)'
           k == Credit(p)
           k2 == Credit(p)'
<1>9. /\ io \in Nat /\ io2 \in {io, io + 1}
      /\ io2 = io + 1 <=> IsServed(p)
      /\ io2 = io + 1 => p # c /\ p \notin pending' /\ status[p] # "DONE"
  BY <1>2, <1>3
<1>10. /\ k = cpuTicks[p] + io + ioCount[p]
       /\ k2 = cpuTicks'[p] + io2 + ioCount'[p]
  BY <1>5, <1>6
<1> HIDE DEF io, io2, k, k2
<1>11. k \in Nat /\ k2 \in {k, k + 1}
  BY <1>7, <1>8, <1>9, <1>10
<1>12. (p \in pending' \/ status[p] = "DONE") => k2 = k
  <2>1. ASSUME p \in pending' \/ status[p] = "DONE" PROVE k2 = k
    <3>1. p # c /\ io2 = io
      BY <1>4, <1>9, <2>1
    <3>2. QED
      BY <1>7, <1>8, <1>9, <1>10, <3>1
  <2>2. QED
    BY <2>1
<1>13. (p = c \/ IsServed(p)) => k2 = k + 1
  BY <1>7, <1>8, <1>9, <1>10
<1>14. QED
  BY <1>11, <1>12, <1>13 DEF k, k2

\* What TimeAccounted says of one process.
Accounted(p) ==
    IF p \in pending THEN Credit(p) = 0
    ELSE Credit(p) <= (IF status[p] = "DONE" THEN completionTick[p] + 1 ELSE tick)
                         - scn.arrival[p]

LEMMA AccountedParts == TimeAccounted <=> \A p \in Pid : Accounted(p)
BY DEF TimeAccounted, Accounted, Credit

LEMMA StepTime ==
    ASSUME TypeOK, OnePlace, TimeAccounted, Step, NEW p \in Pid
    PROVE  Accounted(p)'
<1> PICK c : c = AtPhase5.cpu
  OBVIOUS
<1>1. /\ tick \in Nat /\ scn.arrival[p] \in Int /\ completionTick[p] \in Int
      /\ completionTick \in [Pid -> Int]
  BY MaxTickAssumption DEF TypeOK, Scenario
<1>2. scn' = scn /\ tick' = tick + 1 /\ pending' = pending \ Arriving
  BY StepKeepsScn
<1>3. Accounted(p)
  BY AccountedParts
<1> DEFINE k == Credit(p)
           k2 == Credit(p)'
<1>4. /\ k \in Nat /\ k2 \in {k, k + 1}
      /\ (p \in pending' \/ status[p] = "DONE") => k2 = k
  BY CreditStep
<1>5. IF p \in pending THEN k = 0
      ELSE k <= (IF status[p] = "DONE" THEN completionTick[p] + 1 ELSE tick)
                   - scn.arrival[p]
  BY <1>3 DEF Accounted
<1>6. SUFFICES IF p \in pending' THEN k2 = 0
               ELSE k2 <= (IF status'[p] = "DONE" THEN completionTick'[p] + 1
                                                  ELSE tick + 1) - scn.arrival[p]
  BY <1>2 DEF Accounted
<1>7. c \in Pid => status[c] # "DONE"
  BY CpuNotDone
<1>8. \/ /\ status'[p] = "DONE" <=> status[p] = "DONE"
         /\ completionTick'[p] = completionTick[p]
      \/ /\ status[p] # "DONE" /\ status'[p] = "DONE"
         /\ completionTick'[p] = tick
  <2>1. CASE NobodyRuns(c) \/ StartsIo(c)
    BY <2>1 DEF NobodyRuns, StartsIo
  <2>2. CASE GetsTick(c)
    <3>1. CASE p = c /\ BurstOver(c)
      BY <1>1, <1>7, <2>2, <3>1 DEF GetsTick
    <3>2. CASE ~(p = c /\ BurstOver(c))
      BY <1>1, <2>2, <3>2 DEF GetsTick
    <3>3. QED
      BY <3>1, <3>2
  <2>3. QED
    BY <2>1, <2>2, StepEffect
<1>9. p \in Arriving => p \in pending /\ scn.arrival[p] = tick
  BY DEF Arriving
<1>10. p \in pending => status[p] # "DONE"
  BY OnePlaceParts DEF Fits
<1> HIDE DEF k, k2
<1>11. CASE p \in pending'
  BY <1>2, <1>4, <1>5, <1>11
<1>12. CASE p \in Arriving
  <2>1. k2 <= 1 /\ p \notin pending'
    BY <1>2, <1>4, <1>5, <1>9, <1>12
  <2>2. QED
    BY <1>1, <1>4, <1>8, <1>9, <1>10, <1>12, <2>1
<1>13. CASE p \notin pending
  <2>1. p \notin pending'
    BY <1>2, <1>13
  <2>2. QED
    BY <1>1, <1>4, <1>5, <1>8, <1>13, <2>1
<1>14. QED
  BY <1>2, <1>11, <1>12, <1>13

LEMMA InitTime ==
    ASSUME Init
    PROVE  TimeAccounted
<1>1. \A p \in Pid : /\ p \in pending
                     /\ cpuTicks[p] = 0 /\ ioCount[p] = 0
                     /\ \A d \in Device : ioTicks[p][d] = 0
  BY DEF Init, ProcessInit
<1>2. \A p \in Pid : IoTicks(p) = 0
  BY <1>1 DEF IoTicks, Device
<1>3. QED
  BY <1>1, <1>2 DEF TimeAccounted

LEMMA StutterTime ==
    ASSUME TimeAccounted, UNCHANGED vars
    PROVE  TimeAccounted'
BY DEF TimeAccounted, IoTicks, vars, procVars

\* A process has never been credited with more than the ticks that have passed
\* since it arrived.
THEOREM TimeCorrect == Spec => []TimeAccounted
<1>1. Init => TimeAccounted
  BY InitTime
<1>2. ASSUME TypeOK, OnePlace, TimeAccounted, Step PROVE TimeAccounted'
  <2>1. \A p \in Pid : Accounted(p)'
    BY <1>2, StepTime
  <2>2. QED
    BY <2>1 DEF TimeAccounted, Accounted, Credit
<1>3. TypeOK /\ OnePlace /\ TimeAccounted /\ [Next]_vars => TimeAccounted'
  BY <1>2, StutterTime DEF Next
<1>4. QED
  BY <1>1, <1>3, TypeCorrect, PlacesCorrect, PTL DEF Spec

\* One service per tick, to each process and from the CPU.
THEOREM ServicesCorrect == Spec => OneServicePerTick
<1> DEFINE A == /\ \A p \in Pid : Credit(p)' <= Credit(p) + 1
                /\ \A p, q \in Pid :
                      cpuTicks'[p] # cpuTicks[p] /\ cpuTicks'[q] # cpuTicks[q] => p = q
<1>1. ASSUME TypeOK, OnePlace, Step PROVE A
  <2> PICK c : c = AtPhase5.cpu
    OBVIOUS
  <2>1. ASSUME NEW p \in Pid PROVE Credit(p)' <= Credit(p) + 1
    <3>1. Credit(p) \in Nat /\ Credit(p)' \in {Credit(p), Credit(p) + 1}
      BY <1>1, CreditStep
    <3>2. QED
      BY <3>1
  <2>2. \A p \in Pid : cpuTicks'[p] # cpuTicks[p] => p = c
    <3>1. cpuTicks \in [Pid -> Nat]
      BY <1>1 DEF TypeOK
    <3>2. QED
      BY <1>1, <3>1, StepEffect DEF NobodyRuns, StartsIo, GetsTick
  <2>3. QED
    BY <2>1, <2>2
<1>2. TypeOK /\ OnePlace /\ [Next]_vars => [A]_vars
  BY <1>1 DEF Next
<1>3. []TypeOK /\ []OnePlace /\ [][Next]_vars => [][A]_vars
  <2> HIDE DEF A
  <2>1. QED
    BY <1>2, PTL
<1>4. Spec => [][A]_vars
  <2> HIDE DEF A
  <2>1. QED
    BY <1>3, TypeCorrect, PlacesCorrect, PTL DEF Spec
<1>5. QED
  BY <1>4 DEF OneServicePerTick

-----------------------------------------------------------------------------
(* Progress of a step.                                                     *)

\* When the CPU stays free, nobody is ready after phase 2.
LEMMA FreeCpu ==
    ASSUME TypeOK, OnePlace, AtPhase5.cpu \notin Pid
    PROVE  /\ AtPhase5.cpu = NULL
           /\ running = NULL
           /\ AtPhase5.queue["hi"] = <<>>
           /\ AtPhase5.queue["lo"] = <<>>
           /\ \A p \in Pid : AtPhase5.status[p] = "READY" => p \in pending \ Arriving
<1>1. AtPhase5.cpu = NULL /\ ~AtPhase5.dispatched
  BY Phase5Type
<1>2. running = NULL
  BY <1>1, Phase5Fields
<1>3. Ready("hi") = <<>> /\ Ready("lo") = <<>>
  BY <1>1, <1>2, Phase5Fields
<1>4. AtPhase5.queue["hi"] = <<>> /\ AtPhase5.queue["lo"] = <<>>
  BY <1>1, <1>3, Phase5Fields DEF Lane
<1>5. Members(<<>>) = {}
  BY DEF Members
<1>6. \A p \in Pid : AtPhase5.status[p] = "READY" => p \in pending \ Arriving
  BY <1>4, <1>5, Phase5Places DEF Fits
<1>7. QED
  BY <1>1, <1>2, <1>4, <1>6

\* The CPU is idle only when nobody is ready.
THEOREM NoReadyWhileIdle == Spec => WorkConserving
<1> DEFINE A == cpuTicks' = cpuTicks /\ ioCount' = ioCount =>
                    running' = NULL /\ queue'["hi"] = <<>> /\ queue'["lo"] = <<>>
<1>1. ASSUME TypeOK, OnePlace, Step PROVE A
  <2> SUFFICES ASSUME cpuTicks' = cpuTicks, ioCount' = ioCount
               PROVE  running' = NULL /\ queue'["hi"] = <<>> /\ queue'["lo"] = <<>>
    OBVIOUS
  <2> PICK c : c = AtPhase5.cpu
    OBVIOUS
  <2>1. c \notin Pid
    <3>1. cpuTicks \in [Pid -> Nat] /\ ioCount \in [Pid -> Nat]
      BY <1>1 DEF TypeOK
    <3>2. ASSUME c \in Pid PROVE FALSE
      <4>1. cpuTicks'[c] = cpuTicks[c] + 1 \/ ioCount'[c] = ioCount[c] + 1
        BY <1>1, <3>1, <3>2, StepEffect DEF NobodyRuns, StartsIo, GetsTick
      <4>2. cpuTicks[c] \in Nat /\ ioCount[c] \in Nat
        BY <3>1, <3>2
      <4>3. QED
        BY <4>1, <4>2
    <3>3. QED
      BY <3>2
  <2>2. c = NULL /\ running = NULL
    BY <1>1, <2>1, FreeCpu
  <2>3. IdleTick(AtPhase5)
    BY <1>1, <2>2, StepCases DEF ScriptedIoTick, RandomIoTick, CompleteTick,
                                 PreemptTick, RunTick, CpuGranted
  <2>4. queue' = AtPhase5.queue /\ running' = running
    BY <2>3 DEF IdleTick
  <2>5. QED
    BY <1>1, <2>1, <2>2, <2>4, FreeCpu
<1>2. TypeOK /\ OnePlace /\ [Next]_vars => [A]_vars
  BY <1>1 DEF Next
<1> HIDE DEF A
<1>3. []TypeOK /\ []OnePlace /\ [][Next]_vars => [][A]_vars
  BY <1>2, PTL
<1>4. Spec => [][A]_vars
  BY <1>3, TypeCorrect, PlacesCorrect, PTL DEF Spec
<1>5. QED
  BY <1>4 DEF WorkConserving, A

\* A device with a process in service serves one.
LEMMA DeviceServes ==
    ASSUME TypeOK, NEW d \in Device, NEW p \in Members(InService(d))
    PROVE  \E q \in Pid : q \in Served(d)
<1>1. InService(d) \in Seq(Pid)
  BY DeviceSplit
<1> DEFINE s == InService(d)
<1>2. Served(d) = IF scn.mode[d] = "concurrent" \/ s = <<>> THEN Members(s) ELSE {Head(s)}
  BY DEF Served
<1> HIDE DEF s
<1>3. s \in Seq(Pid)
  BY <1>1 DEF s
<1>4. s # <<>> => Head(s) \in Pid
  BY <1>3
<1>5. p \in Pid /\ p \in Members(s)
  BY <1>1 DEF Members, s
<1>6. QED
  BY <1>2, <1>4, <1>5

\* Once everything has arrived, a tick that finds the work unfinished serves
\* somebody: whoever is not done is ready, on the CPU or in service on a
\* device.
THEOREM NoTickWasted == Spec => EveryTickProgresses
<1> DEFINE A == pending' = {} /\ ~IsDone => \E p \in Pid : Credit(p)' > Credit(p)
<1>1. ASSUME TypeOK, OnePlace, Step PROVE A
  <2> SUFFICES ASSUME pending' = {}, ~IsDone
               PROVE  \E p \in Pid : Credit(p)' > Credit(p)
    OBVIOUS
  <2> PICK c : c = AtPhase5.cpu
    OBVIOUS
  <2>1. ASSUME NEW p \in Pid, p = c \/ IsServed(p)
        PROVE  \E q \in Pid : Credit(q)' > Credit(q)
    <3>1. Credit(p) \in Nat /\ Credit(p)' = Credit(p) + 1
      BY <1>1, <2>1, CreditStep
    <3>2. Credit(p)' > Credit(p)
      BY <3>1
    <3>3. QED
      BY <3>2
  <2>2. PICK p \in Pid : status[p] # "DONE"
    <3>1. \A q \in pending : q \in Pid /\ status[q] = "READY"
      BY <1>1, OnePlaceParts DEF TypeOK, Fits
    <3>2. QED
      BY <3>1 DEF IsDone
  <2>3. CASE c \in Pid
    BY <2>1, <2>3
  <2>4. CASE c \notin Pid
    <3>1. AtPhase5.status[p] \in Status /\ AtPhase5.status[p] # "DONE"
      BY <1>1, <2>2, DoneStays, Phase5Type
    <3>2. AtPhase5.status[p] # "READY"
      BY <1>1, <2>4, FreeCpu, StepKeepsScn
    <3>3. AtPhase5.status[p] # "RUNNING"
      BY <1>1, <2>4, Phase5Places DEF Fits
    <3>4. PICK d \in Device : p \in Members(AtPhase5.queue[d])
      <4>1. AtPhase5.status[p] = "BLOCKED"
        BY <3>1, <3>2, <3>3 DEF Status
      <4>2. QED
        BY <1>1, <4>1, Phase5Places DEF Fits
    <3>5. AtPhase5.queue[d] = InService(d)
      BY Phase5Fields DEF Lane, Device
    <3>6. PICK q \in Pid : q \in Served(d)
      BY <1>1, <3>4, <3>5, DeviceServes
    <3>7. IsServed(q)
      BY <3>6 DEF IsServed
    <3>8. QED
      BY <2>1, <3>7
  <2>5. QED
    BY <2>3, <2>4
<1>2. TypeOK /\ OnePlace /\ [Next]_vars => [A]_vars
  BY <1>1 DEF Next
<1> HIDE DEF A
<1>3. []TypeOK /\ []OnePlace /\ [][Next]_vars => [][A]_vars
  BY <1>2, PTL
<1>4. Spec => [][A]_vars
  BY <1>3, TypeCorrect, PlacesCorrect, PTL DEF Spec
<1>5. QED
  BY <1>4 DEF EveryTickProgresses, A

-----------------------------------------------------------------------------
(* The order in which queues are left.                                     *)

\* Behind the head of a device queue that serves in order, everybody still has
\* service to get.  The code looks at every element of the queue, not at the
\* head alone.
TailsWait ==
    \A d \in Device : ServedInOrder(d) =>
        \A i \in DOMAIN queue[d] : i > 1 => ioRemaining[queue[d][i]] > 0

-----------------------------------------------------------------------------
(* Sequences.                                                              *)

LEMMA BehindHead ==
    ASSUME NEW X, NEW q \in Seq(X), NEW r \in Seq(X), NEW i \in DOMAIN q, i > 1
    PROVE  q[i] \in Members(q \o r) /\ q[i] \in Members(Tail(q \o r))
<1> DEFINE s == q \o r
<1>1. i \in Nat /\ i \in DOMAIN s /\ s[i] = q[i] /\ s \in Seq(X)
  OBVIOUS
<1> HIDE DEF s
<1>2. i - 1 \in DOMAIN Tail(s) /\ Tail(s)[i - 1] = s[i]
  BY <1>1
<1>3. QED
  BY <1>1, <1>2 DEF Members, s

LEMMA ConcatAssociative ==
    ASSUME NEW X, NEW q \in Seq(X), NEW r \in Seq(X), NEW s \in Seq(X)
    PROVE  (q \o r) \o s = q \o (r \o s) /\ r \o s \in Seq(X)
<1>1. r \o s \in Seq(X) /\ q \o r \in Seq(X)
  OBVIOUS
<1>2. (q \o r) \o s = q \o (r \o s)
  OBVIOUS
<1>3. QED
  BY <1>1, <1>2

LEMMA AppendMembers ==
    ASSUME NEW X, NEW q \in Seq(X), NEW x \in X
    PROVE  /\ Members(q) \subseteq Members(Append(q, x))
           /\ DOMAIN Append(q, x) = DOMAIN q \cup {Len(q) + 1}
           /\ \A i \in DOMAIN q : Append(q, x)[i] = q[i]
           /\ Append(q, x)[Len(q) + 1] = x
<1> DEFINE a == Append(q, x)
<1>1. Len(q) \in Nat /\ DOMAIN q = 1..Len(q) /\ DOMAIN a = 1..(Len(q) + 1)
  OBVIOUS
<1>2. DOMAIN a = DOMAIN q \cup {Len(q) + 1}
  BY <1>1
<1>3. (\A i \in DOMAIN q : a[i] = q[i]) /\ a[Len(q) + 1] = x
  OBVIOUS
<1> HIDE DEF a
<1>4. Members(q) \subseteq Members(a)
  BY <1>2, <1>3 DEF Members
<1>5. QED
  BY <1>2, <1>3, <1>4 DEF a

-----------------------------------------------------------------------------
(* Steps.                                                                  *)

\* A queue is left as phase 5 found it, or the process on the CPU joins it; a
\* device that serves in order is joined with service to get.
LEMMA StepQueues ==
    ASSUME TypeOK, OnePlace, Step
    PROVE  /\ \A p \in Pid : p # AtPhase5.cpu =>
                  ioRemaining'[p] = AtPhase5.ioRemaining[p]
           /\ \A l \in Lane :
                 \/ queue'[l] = AtPhase5.queue[l]
                 \/ /\ AtPhase5.cpu \in Pid
                    /\ queue'[l] = Append(AtPhase5.queue[l], AtPhase5.cpu)
                    /\ l \in Device /\ ServedInOrder(l) => ioRemaining'[AtPhase5.cpu] > 0
<1> DEFINE b == AtPhase5
           c == b.cpu
           Goal == /\ \A p \in Pid : p # c => ioRemaining'[p] = b.ioRemaining[p]
                   /\ \A l \in Lane :
                         \/ queue'[l] = b.queue[l]
                         \/ /\ c \in Pid
                            /\ queue'[l] = Append(b.queue[l], c)
                            /\ l \in Device /\ ServedInOrder(l) => ioRemaining'[c] > 0
<1>1. /\ b.queue \in [Lane -> Seq(Pid)] /\ b.ioRemaining \in [Pid -> Int]
      /\ c # NULL => c \in Pid
  BY Phase5Type
<1>2. ASSUME NEW d \in Device, NEW n \in Int, c # NULL, Block(b, d, n),
             ServedInOrder(d) => n > 0
      PROVE  Goal
  <2>1. /\ ioRemaining' = [b.ioRemaining EXCEPT ![c] = n]
        /\ queue' = [b.queue EXCEPT ![d] = Append(@, c)]
    BY <1>2 DEF Block
  <2> HIDE DEF b
  <2>2. QED
    BY <1>1, <1>2, <2>1
<1>3. \A e \in Duration, n \in Int :
          n \in SampleDuration(e) /\ e.min > 0 => n > 0
  BY DEF SampleDuration, Duration
<1>4. \A d \in Device : scn.duration[d] \in Duration
  BY DEF TypeOK, Scenario
<1>5. ASSUME queue' = b.queue, ioRemaining' = b.ioRemaining
      PROVE  Goal
  BY <1>5
<1>6. CASE IdleTick(b) \/ CompleteTick(b) \/ RunTick(b)
  <2>1. queue' = b.queue /\ ioRemaining' = b.ioRemaining
    <3> HIDE DEF b
    <3>1. QED
      BY <1>6 DEF IdleTick, CompleteTick, RunTick, Consume
  <2>2. QED
    BY <1>5, <2>1
<1>7. CASE PreemptTick(b)
  <2>1. /\ c # NULL /\ ioRemaining' = b.ioRemaining
        /\ queue' = [b.queue EXCEPT !["lo"] = Append(@, c)]
    BY <1>7 DEF PreemptTick, CpuGranted, Consume
  <2>2. "lo" \notin Device /\ "lo" \in Lane
    BY DEF Device, Lane
  <2>3. Goal
    <3> HIDE DEF b
    <3>1. QED
      BY <1>1, <2>1, <2>2
  <2>4. QED
    BY <2>3
<1>8. CASE ScriptedIoTick(b)
  <2> DEFINE e == NextEntry(c)
             dur == IF e.hasDuration THEN e.duration ELSE scn.duration[e.device]
  <2>1. c \in Pid /\ c # NULL /\ ScriptDue(c)
    BY <1>1, <1>8 DEF ScriptedIoTick
  <2>2. PICK n \in SampleDuration(dur) : Block(b, e.device, n)
    BY <1>8 DEF ScriptedIoTick
  <2>3. e \in ScriptedIO /\ e.device \in Device
    BY <2>1, DueEntryType
  <2>4. scriptPos[c] + 1 \in DOMAIN scn.script[c]
    <3>1. scriptPos[c] \in Nat /\ scn.script[c] \in Seq(ScriptedIO)
      BY <2>1 DEF TypeOK, Scenario
    <3>2. QED
      BY <2>1, <3>1 DEF ScriptDue
  <2>5. dur \in Duration
    BY <1>4, <2>3 DEF ScriptedIO
  <2>6. ServedInOrder(e.device) => dur.min > 0
    BY <2>1, <2>4 DEF ServedInOrder, NextEntry
  <2>7. n \in Int
    BY <2>2, <2>5, SampleType
  <2>8. ServedInOrder(e.device) => n > 0
    BY <1>3, <2>2, <2>5, <2>6, <2>7
  <2>9. QED
    BY <1>2, <2>1, <2>2, <2>3, <2>7, <2>8
<1>9. CASE RandomIoTick(b)
  <2>1. c # NULL
    BY <1>9 DEF RandomIoTick
  <2>2. \A r \in 0..99 : SelectDevice(r) \in Device
    BY DEF SelectDevice, Device
  <2>3. PICK d \in Device : \E n \in SampleDuration(scn.duration[d]) : Block(b, d, n)
    BY <1>9, <2>2 DEF RandomIoTick
  <2>4. PICK n \in SampleDuration(scn.duration[d]) : Block(b, d, n)
    BY <2>3
  <2>5. n \in Int
    BY <1>4, <2>4, SampleType
  <2>6. ServedInOrder(d) => n > 0
    BY <1>3, <1>4, <2>4, <2>5 DEF ServedInOrder
  <2>7. QED
    BY <1>2, <2>1, <2>4, <2>5, <2>6
<1>10. QED
  BY <1>6, <1>7, <1>8, <1>9, StepCases

LEMMA StepTails ==
    ASSUME TypeOK, OnePlace, TailsWait, Step
    PROVE  TailsWait'
<1> SUFFICES ASSUME NEW d \in Device, ServedInOrder(d), NEW i \in DOMAIN queue'[d], i > 1
             PROVE  ioRemaining'[queue'[d][i]] > 0
  <2>1. \A d \in Device : ServedInOrder(d)' <=> ServedInOrder(d)
    BY StepKeepsScn DEF ServedInOrder
  <2>2. QED
    BY <2>1 DEF TailsWait
<1> DEFINE q == InService(d)
<1> PICK c : c = AtPhase5.cpu
  OBVIOUS
<1>1. /\ q \in Seq(Pid) /\ NoRepeat(q) /\ Members(q) \subseteq Members(queue[d])
      /\ \A p \in Members(q) : ioRemaining[p] > 0
  BY DeviceSplit, OnePlaceParts DEF Apart, Lane
<1>2. d \in Lane /\ AtPhase5.queue[d] = q
  BY Phase5Fields DEF Lane, Device
<1>3. Served(d) = IF q = <<>> THEN Members(q) ELSE {Head(q)}
  BY DEF Served, ServedInOrder
<1>4. ASSUME NEW k \in DOMAIN q, k > 1
      PROVE  ioRemaining'[q[k]] > 0
  <2> DEFINE p == q[k]
  <2>1. p \in Members(q) /\ p \in Pid
    BY <1>1 DEF Members
  <2>2. p \notin Served(d)
    <3> HIDE DEF q
    <3>1. q # <<>> /\ Head(q) = q[1] /\ 1 \in DOMAIN q
      BY <1>1, <1>4
    <3>2. q[k] # q[1]
      BY <1>1, <1>4, <3>1 DEF NoRepeat
    <3>3. QED
      BY <1>3, <3>1, <3>2
  <2>3. \A e \in Device : p \in Served(e) => e = d
    <3>1. \A e \in Device : Served(e) \subseteq Members(InService(e))
      BY ServedListed
    <3>2. \A e \in Device : e \in Lane /\ Members(InService(e)) \subseteq Members(queue[e])
      BY DeviceSplit DEF Lane
    <3>3. QED
      BY <1>1, <1>2, <2>1, <3>1, <3>2, OnePlaceParts DEF Apart
  <2>4. AtPhase5.ioRemaining[p] = ioRemaining[p]
    BY <2>1, <2>2, <2>3, Phase5Fields
  <2>5. p # c
    <3>1. AtPhase5.status[p] = "BLOCKED"
      BY <1>2, <2>1, Phase5Places DEF Fits
    <3>2. p = c => AtPhase5.status[p] = "RUNNING"
      BY <2>1, CpuNotDone
    <3>3. QED
      BY <3>1, <3>2
  <2>6. QED
    BY <1>1, <2>1, <2>4, <2>5, StepQueues
<1>5. CASE queue'[d] = q
  BY <1>4, <1>5
<1>6. CASE queue'[d] # q
  <2>1. c \in Pid /\ queue'[d] = Append(q, c) /\ ioRemaining'[c] > 0
    BY <1>2, <1>6, StepQueues
  <2> HIDE DEF q
  <2>2. i \in DOMAIN q \/ i = Len(q) + 1
    BY <1>1, <2>1, AppendMembers
  <2>3. CASE i \in DOMAIN q
    BY <1>1, <1>4, <2>1, <2>3, AppendMembers
  <2>4. CASE i = Len(q) + 1
    BY <1>1, <2>1, <2>4, AppendMembers
  <2>5. QED
    BY <2>2, <2>3, <2>4
<1>7. QED
  BY <1>5, <1>6

LEMMA InitTails ==
    ASSUME Init
    PROVE  TailsWait
<1>1. \A d \in Device : queue[d] = <<>>
  BY DEF Init, Lane
<1>2. QED
  BY <1>1 DEF TailsWait

LEMMA StutterTails ==
    ASSUME TailsWait, UNCHANGED vars
    PROVE  TailsWait'
BY DEF TailsWait, ServedInOrder, vars, procVars

\* Everything behind the head of a ready queue stays in it for a step.
LEMMA ReadyInOrder ==
    ASSUME TypeOK, OnePlace, Step, NEW l \in {"hi", "lo"},
           NEW i \in DOMAIN queue[l], i > 1
    PROVE  queue[l][i] \in Members(queue'[l])
<1> DEFINE s == Ready(l)
<1>1. queue["hi"] \in Seq(Pid) /\ queue["lo"] \in Seq(Pid) /\ s \in Seq(Pid) /\ l \in Lane
  BY ReadyType DEF TypeOK, Lane
<1>2. queue[l][i] \in Members(s) /\ queue[l][i] \in Members(Tail(s))
  <2>1. PICK r \in Seq(Pid) : s = queue[l] \o r
    <3>1. /\ Finished("disk") \in Seq(Pid)
          /\ Finished("tape") \o Finished("printer") \in Seq(Pid)
          /\ Ascending(Arriving) \in Seq(Pid)
      BY DeviceSplit, ConcatType, ArrivingListed DEF Device
    <3> DEFINE f == Finished("tape") \o Finished("printer")
               a == Ascending(Arriving)
    <3>2. CASE l = "hi"
      <4>1. s = (queue["hi"] \o a) \o f
        BY <3>2, ReadyLanes
      <4> HIDE DEF s, a, f
      <4>2. a \in Seq(Pid) /\ f \in Seq(Pid)
        BY <3>1 DEF a, f
      <4>3. a \o f \in Seq(Pid) /\ (queue["hi"] \o a) \o f = queue["hi"] \o (a \o f)
        <5> DEFINE q == queue["hi"]
        <5>1. q \in Seq(Pid)
          BY <1>1
        <5> HIDE DEF q
        <5>2. a \o f \in Seq(Pid) /\ (q \o a) \o f = q \o (a \o f)
          BY <4>2, <5>1, ConcatAssociative
        <5>3. QED
          BY <5>2 DEF q
      <4>4. QED
        BY <3>2, <4>1, <4>3
    <3>3. CASE l = "lo"
      BY <3>1, <3>3, ReadyLanes
    <3>4. QED
      BY <3>2, <3>3
  <2>2. queue[l] \in Seq(Pid)
    BY <1>1
  <2> HIDE DEF s
  <2>3. QED
    BY <2>1, <2>2, BehindHead
<1>3. AtPhase5.queue[l] = s \/ AtPhase5.queue[l] = Tail(s)
  BY <1>1, Phase5Fields
<1>4. AtPhase5.queue[l] \in Seq(Pid)
  BY <1>1, Phase5Type
<1> PICK c, t : c = AtPhase5.cpu /\ t = AtPhase5.queue[l]
  OBVIOUS
<1>5. queue'[l] = t \/ (c \in Pid /\ queue'[l] = Append(t, c))
  BY <1>1, StepQueues
<1>6. queue[l][i] \in Members(t) /\ t \in Seq(Pid)
  BY <1>2, <1>3, <1>4
<1>7. c \in Pid => Members(t) \subseteq Members(Append(t, c))
  BY <1>6, AppendMembers
<1>8. QED
  BY <1>5, <1>6, <1>7

\* Only the head of a ready queue, or of a device queue that serves in order,
\* leaves it.
THEOREM OrderKept == Spec => OnlyHeadLeaves
<1> DEFINE A == \A l \in Lane : \A i \in DOMAIN queue[l] :
                    i > 1 /\ (l \in Device => ServedInOrder(l))
                       => queue[l][i] \in Members(queue'[l])
<1>1. ASSUME TypeOK, OnePlace, TailsWait, Step PROVE A
  <2> SUFFICES ASSUME NEW l \in Lane, NEW i \in DOMAIN queue[l], i > 1,
                      l \in Device => ServedInOrder(l)
               PROVE  queue[l][i] \in Members(queue'[l])
    OBVIOUS
  <2>1. CASE l \in {"hi", "lo"}
    BY <1>1, <2>1, ReadyInOrder
  <2>2. CASE l \in Device
    <3>1. queue[l][i] \in Members(queue[l]) /\ ioRemaining[queue[l][i]] > 0
      BY <1>1, <2>2 DEF Members, TailsWait
    <3>2. queue[l][i] \in Members(InService(l))
      BY <1>1, <2>2, <3>1, DeviceSplit
    <3>3. AtPhase5.queue[l] = InService(l)
      BY <2>2, Phase5Fields DEF Lane, Device
    <3>4. AtPhase5.queue[l] \in Seq(Pid)
      BY <1>1, Phase5Type
    <3> PICK c, t : c = AtPhase5.cpu /\ t = AtPhase5.queue[l]
      OBVIOUS
    <3>5. queue'[l] = t \/ (c \in Pid /\ queue'[l] = Append(t, c))
      BY <1>1, StepQueues
    <3>6. queue[l][i] \in Members(t) /\ t \in Seq(Pid)
      BY <3>2, <3>3, <3>4
    <3>7. c \in Pid => Members(t) \subseteq Members(Append(t, c))
      BY <3>6, AppendMembers
    <3>8. QED
      BY <3>5, <3>6, <3>7
  <2>3. QED
    BY <2>1, <2>2 DEF Lane
<1>2. UNCHANGED vars => A
  BY DEF vars, Members
<1>3. TypeOK /\ OnePlace /\ TailsWait /\ [Next]_vars => TailsWait' /\ [A]_vars
  BY <1>1, StepTails, StutterTails DEF Next
<1>4. Init => TailsWait
  BY InitTails
<1>5. QED
  BY <1>3, <1>4, TypeCorrect, PlacesCorrect, PTL DEF Spec, OnlyHeadLeaves
=============================================================================
