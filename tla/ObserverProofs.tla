--------------------------- MODULE ObserverProofs ---------------------------
(***************************************************************************)
(* What the specifications that watch Simulation show, for every number of *)
(* processes and every set of valid scenarios: the contract of the CPU     *)
(* (Refinement), the slices and the demotions (Feedback), and the snapshot *)
(* and the log of a tick (TickLog).                                        *)
(*                                                                         *)
(* None of them changes a step of Simulation, so that its invariants hold  *)
(* of them too.                                                            *)
(***************************************************************************)
EXTENDS TickLog, Feedback, Refinement, SimulationProofs

USE DEF NULL

LEMMA NobodyIsNull == NULL \notin Pid
BY NAssumption DEF Pid

-----------------------------------------------------------------------------
(* The contract of the CPU.                                                *)

\* Phases 1 to 4 change the status of a process without the CPU only by waking
\* it; the process on the CPU was ready, running, or blocked until this tick.
LEMMA RestAtPhase5 ==
    ASSUME TypeOK, OnePlace, NEW p \in Pid
    PROVE  /\ p # AtPhase5.cpu => AtPhase5.status[p] \in Contract!AfterRest(p)
           /\ p = AtPhase5.cpu => status[p] \in {"READY", "RUNNING", "BLOCKED"}
<1> PICK c : c = AtPhase5.cpu
  OBVIOUS
<1>1. status[p] \in Status
  BY DEF TypeOK
<1>2. ASSUME p # c
      PROVE  AtPhase5.status[p] \in Contract!AfterRest(p)
  <2>1. status[p] # "RUNNING"
    <3>1. status[p] = "RUNNING" => running = p
      BY OnePlaceParts DEF Fits
    <3>2. running = p => c = p
      <4>1. p # NULL
        BY NAssumption DEF Pid, NULL
      <4>2. QED
        BY <4>1, Phase5Fields
    <3>3. QED
      BY <1>2, <3>1, <3>2
  <2>2. AtPhase5.status[p] = Woken(p)
    BY <1>2, Phase5Fields
  <2>3. Woken(p) = status[p] \/ (status[p] = "BLOCKED" /\ Woken(p) = "READY")
    BY <1>1, <2>1 DEF Woken, SetStatus, Allowed
  <2>4. QED
    BY <1>1, <2>1, <2>2, <2>3 DEF Contract!AfterRest, Status
<1>3. p = c => status[p] \in {"READY", "RUNNING", "BLOCKED"}
  BY <1>1, CpuNotDone DEF Status
<1>4. QED
  BY <1>2, <1>3

\* A step of the simulation is a tick of the contract: the process that works
\* is the one that consumes the tick.
LEMMA StepIsTick ==
    ASSUME TypeOK, OnePlace, TypeOK', Step
    PROVE  Contract!ContractNext
<1> DEFINE b == AtPhase5
           W == IF cpuTicks' = cpuTicks THEN {} ELSE {b.cpu}
<1> PICK c : c = AtPhase5.cpu
  OBVIOUS
<1>1. /\ b.status \in [Pid -> Status] /\ status \in [Pid -> Status]
      /\ cpuTicks \in [Pid -> Nat] /\ DOMAIN status' = Pid
  BY Phase5Type DEF TypeOK
<1>2. \A p \in Pid : p # c => b.status[p] \in Contract!AfterRest(p)
  BY RestAtPhase5
<1>3. ASSUME c = NULL PROVE c \notin Pid
  BY <1>3, NAssumption DEF Pid, NULL
<1>4. CASE IdleTick(b)
  <2>1. /\ cpuTicks' = cpuTicks /\ status' = b.status /\ c \notin Pid /\ scn' = scn
    BY <1>3, <1>4 DEF IdleTick, TickEffects
  <2>2. Contract!Tick({})
    BY <1>1, <1>2, <2>1 DEF Contract!Tick
  <2>3. QED
    BY <2>2 DEF Contract!ContractNext
<1>5. ASSUME c # NULL, cpuTicks' = cpuTicks, scn' = scn,
             status' = [b.status EXCEPT ![c] = SetStatus(@, "BLOCKED")]
      PROVE  Contract!ContractNext
  <2>1. c \in Pid /\ status' = [b.status EXCEPT ![c] = "BLOCKED"]
    BY <1>5, SetStatusAllowed
  <2>2. "BLOCKED" \in Contract!AfterRest(c)
    BY <2>1, RestAtPhase5 DEF Contract!AfterRest
  <2>3. \A p \in Pid : status'[p] \in Contract!AfterRest(p)
    <3> HIDE DEF b
    <3>1. QED
      BY <1>1, <1>2, <2>1, <2>2
  <2>4. Contract!Tick({})
    BY <1>1, <1>5, <2>3 DEF Contract!Tick
  <2>5. QED
    BY <2>4 DEF Contract!ContractNext
<1>6. CASE ScriptedIoTick(b)
  <2>1. PICK d, n : Block(b, d, n)
    BY <1>6 DEF ScriptedIoTick
  <2>2. c # NULL /\ scn' = scn
    BY <1>6 DEF ScriptedIoTick, TickEffects
  <2>3. QED
    BY <1>5, <2>1, <2>2 DEF Block
<1>7. CASE RandomIoTick(b)
  <2>1. PICK d, n : Block(b, d, n)
    BY <1>7 DEF RandomIoTick
  <2>2. c # NULL /\ scn' = scn
    BY <1>7 DEF RandomIoTick, TickEffects
  <2>3. QED
    BY <1>5, <2>1, <2>2 DEF Block
<1>8. ASSUME c \in Pid, scn' = scn, cpuTicks' = [cpuTicks EXCEPT ![c] = @ + 1],
             NEW to \in Contract!AfterWork(c),
             status' = [b.status EXCEPT ![c] = to]
      PROVE  Contract!ContractNext
  <2>1. status[c] # "DONE"
    BY <1>8, CpuNotDone
  <2> HIDE DEF b
  <2>2. cpuTicks' = [p \in Pid |-> IF p \in {c} THEN cpuTicks[p] + 1 ELSE cpuTicks[p]]
    BY <1>1, <1>8
  <2>3. \A p \in Pid : status'[p] \in (IF p \in {c} THEN Contract!AfterWork(p)
                                                   ELSE Contract!AfterRest(p))
    BY <1>1, <1>2, <1>8
  <2>4. Contract!Tick({c})
    BY <1>1, <1>8, <2>1, <2>2, <2>3 DEF Contract!Tick
  <2>5. QED
    BY <1>8, <2>4 DEF Contract!ContractNext
<1>9. ASSUME c \in Pid
      PROVE  Contract!AfterWork(c) =
                 IF BurstOver(c) THEN {"DONE"} ELSE {"RUNNING", "READY"}
  BY DEF Contract!AfterWork, Contract!Complete, BurstOver
<1>10. CASE CompleteTick(b)
  <2>1. /\ c # NULL /\ BurstOver(c) /\ scn' = scn
        /\ cpuTicks' = [cpuTicks EXCEPT ![c] = @ + 1]
        /\ status' = [b.status EXCEPT ![c] = SetStatus(@, "DONE")]
    BY <1>10 DEF CompleteTick, CpuGranted, TickEffects, Consume
  <2>2. c \in Pid /\ status' = [b.status EXCEPT ![c] = "DONE"]
    BY <2>1, SetStatusAllowed
  <2>3. QED
    BY <1>8, <1>9, <2>1, <2>2
<1>11. CASE PreemptTick(b)
  <2>1. /\ c # NULL /\ ~BurstOver(c) /\ scn' = scn
        /\ cpuTicks' = [cpuTicks EXCEPT ![c] = @ + 1]
        /\ status' = [b.status EXCEPT ![c] = SetStatus(@, "READY")]
    BY <1>11 DEF PreemptTick, CpuGranted, TickEffects, Consume
  <2>2. c \in Pid /\ status' = [b.status EXCEPT ![c] = "READY"]
    BY <2>1, SetStatusAllowed
  <2>3. QED
    BY <1>8, <1>9, <2>1, <2>2
<1>12. CASE RunTick(b)
  <2>1. /\ c # NULL /\ ~BurstOver(c) /\ scn' = scn
        /\ cpuTicks' = [cpuTicks EXCEPT ![c] = @ + 1]
        /\ status' = b.status
    BY <1>12 DEF RunTick, CpuGranted, TickEffects, Consume
  <2>2. c \in Pid
    BY <2>1, Phase5Type
  <2>3. b.status[c] = "RUNNING"
    BY <2>2, CpuNotDone
  <2>4. status' = [b.status EXCEPT ![c] = "RUNNING"]
    <3> HIDE DEF b
    <3>1. QED
      BY <1>1, <2>1, <2>2, <2>3
  <2>5. QED
    BY <1>8, <1>9, <2>1, <2>2, <2>4
<1>13. QED
  BY <1>4, <1>6, <1>7, <1>10, <1>11, <1>12, StepCases

\* Every behaviour of the simulation is one the contract allows: its initial
\* states map to initial states, its steps to ticks or to stutters.
THEOREM ContractKept == Spec => ImplementsContract
<1>1. Init => Contract!ContractInit
  <2> SUFFICES ASSUME Init PROVE Contract!ContractInit
    OBVIOUS
  <2>1. scn \in Scenario /\ TypeOK
    BY InitType DEF TypeOK
  <2>2. /\ scn.burst \in [Pid -> Int]
        /\ status = [p \in Pid |-> "READY"]
        /\ cpuTicks = [p \in Pid |-> 0]
    BY <2>1 DEF Init, ProcessInit, Scenario
  <2>3. QED
    BY <2>2 DEF Contract!ContractInit
<1>2. TypeOK /\ OnePlace /\ TypeOK' /\ [Next]_vars => [Contract!ContractNext]_(Contract!contractVars)
  <2>1. Step /\ TypeOK /\ OnePlace /\ TypeOK' => Contract!ContractNext
    BY StepIsTick
  <2>2. UNCHANGED vars => UNCHANGED Contract!contractVars
    BY DEF vars, procVars, Contract!contractVars
  <2>3. QED
    BY <2>1, <2>2 DEF Next
<1>3. Spec => []TypeOK /\ []OnePlace
  BY TypeCorrect, PlacesCorrect
<1>4. QED
  BY <1>1, <1>2, <1>3, PTL DEF Spec, ImplementsContract, Contract!ContractSpec

-----------------------------------------------------------------------------
(* Slices.                                                                 *)

\* The service of p when its stretch on the CPU began: each I/O before it
\* ended a stretch that was shorter than the quantum, as long as p is HIGH.
\* Undemoted does not say where the present stretch began, and is not inductive
\* without it.
StretchStart(p) == IF running = p THEN slice.service ELSE cpuTicks[p]
Short(p) ==
    priority[p] = "HIGH" /\ status[p] # "DONE" /\ scn.quantum["HIGH"] > 0
        => StretchStart(p) <= ioCount[p] * (scn.quantum["HIGH"] - 1)

LEMMA Distributes == ASSUME NEW n \in Int, NEW m \in Int PROVE (n + 1) * m = n * m + m
OBVIOUS

SliceInv ==
    /\ slice.service \in Int
    /\ QuantumUsedIsSlice
    /\ \A p \in Pid : Short(p)

\* The process on the CPU, before phase 5: it was dispatched on this tick or has
\* quantum left, and quantum_used is its service in the slice.
LEMMA OnCpu ==
    ASSUME TypeOK, OnePlace, SliceInv, Dispatch, AtPhase5.cpu \in Pid
    PROVE  /\ AtPhase5.quantumUsed = cpuTicks[AtPhase5.cpu] - slice'.service
           /\ slice'.service \in Int
           /\ slice'.service = StretchStart(AtPhase5.cpu)
           /\ \/ AtPhase5.quantumUsed = 0
              \/ AtPhase5.quantumUsed < QuantumOf(AtPhase5.cpu)
<1> DEFINE b == AtPhase5
           c == b.cpu
<1>1. /\ cpuTicks \in [Pid -> Nat] /\ NULL \notin Pid
      /\ b.quantumUsed = IF b.dispatched THEN 0 ELSE quantumUsed
      /\ c = IF b.dispatched THEN NextReady ELSE running
      /\ b.dispatched => running = NULL
  BY NobodyIsNull, Phase5Fields DEF TypeOK
<1>2. slice' = IF b.dispatched THEN [from |-> b.from, service |-> cpuTicks[c]] ELSE slice
  BY DEF Dispatch
<1> HIDE DEF b
<1>3. CASE b.dispatched
  <2>1. slice'.service = cpuTicks[c] /\ running # c /\ b.quantumUsed = 0
    BY <1>1, <1>2, <1>3 DEF b
  <2>2. QED
    BY <1>1, <2>1 DEF StretchStart, b
<1>4. CASE ~b.dispatched
  <2>1. slice' = slice /\ running = c /\ c # NULL /\ b.quantumUsed = quantumUsed
    BY <1>1, <1>2, <1>4 DEF b
  <2>2. quantumUsed = Consumed(c) /\ quantumUsed < QuantumOf(c)
    BY <2>1 DEF SliceInv, QuantumUsedIsSlice
  <2>3. QED
    BY <2>1, <2>2 DEF SliceInv, StretchStart, Consumed, b
<1>5. b.dispatched \in BOOLEAN
  BY Phase5Fields DEF b
<1>6. QED
  BY <1>3, <1>4, <1>5

\* What a step does to the slice: the process on the CPU goes on with quantum
\* left, leaves it, or there is none.
LEMMA SliceEffect ==
    ASSUME TypeOK, OnePlace, SliceInv, Step, Dispatch
    PROVE  \/ /\ AtPhase5.cpu \notin Pid
              /\ running' = NULL /\ running = NULL
              /\ UNCHANGED <<priority, cpuTicks, ioCount>>
           \/ /\ AtPhase5.cpu \in Pid /\ running' = AtPhase5.cpu
              /\ quantumUsed' = AtPhase5.quantumUsed + 1
              /\ quantumUsed' < QuantumOf(AtPhase5.cpu)
              /\ cpuTicks' = [cpuTicks EXCEPT ![AtPhase5.cpu] = @ + 1]
              /\ UNCHANGED <<priority, ioCount>>
           \/ /\ AtPhase5.cpu \in Pid /\ running' = NULL
              /\ cpuTicks' = [cpuTicks EXCEPT ![AtPhase5.cpu] = @ + 1]
              /\ status'[AtPhase5.cpu] = "DONE"
              /\ UNCHANGED <<priority, ioCount>>
           \/ /\ AtPhase5.cpu \in Pid /\ running' = NULL
              /\ AtPhase5.quantumUsed + 1 >= QuantumOf(AtPhase5.cpu)
              /\ cpuTicks' = [cpuTicks EXCEPT ![AtPhase5.cpu] = @ + 1]
              /\ priority' = [priority EXCEPT ![AtPhase5.cpu] = "LOW"]
              /\ UNCHANGED ioCount
           \/ /\ AtPhase5.cpu \in Pid /\ running' = NULL
              /\ ioCount' = [ioCount EXCEPT ![AtPhase5.cpu] = @ + 1]
              /\ UNCHANGED <<cpuTicks, priority>>
<1> DEFINE b == AtPhase5
           c == b.cpu
<1>1. c = NULL => c \notin Pid
  BY NobodyIsNull
<1>2. c # NULL => c \in Pid
  BY Phase5Type
<1>3. CASE IdleTick(b)
  <2>1. c = NULL /\ UNCHANGED <<running, priority, cpuTicks, ioCount>>
    BY <1>3 DEF IdleTick
  <2>2. ~b.dispatched
    BY <1>1, <2>1, Phase5Type
  <2>3. running = NULL
    BY <2>1, <2>2, Phase5Fields
  <2>4. QED
    BY <1>1, <2>1, <2>3
<1>4. CASE ScriptedIoTick(b) \/ RandomIoTick(b)
  <2>1. c # NULL /\ \E d, n : Block(b, d, n)
    BY <1>4 DEF ScriptedIoTick, RandomIoTick
  <2>2. QED
    BY <1>2, <2>1 DEF Block
<1>5. CASE CompleteTick(b)
  <2>1. c # NULL /\ status' = [b.status EXCEPT ![c] = SetStatus(@, "DONE")]
    BY <1>5 DEF CompleteTick, CpuGranted
  <2>2. status' = [b.status EXCEPT ![c] = "DONE"]
    BY <2>1, SetStatusAllowed
  <2>3. status'[c] = "DONE"
    BY <1>2, <2>1, <2>2, Phase5Type
  <2>4. QED
    BY <1>2, <1>5, <2>1, <2>3 DEF CompleteTick, Consume
<1>6. CASE PreemptTick(b)
  BY <1>2, <1>6 DEF PreemptTick, CpuGranted, Consume, QuantumOver
<1>7. CASE RunTick(b)
  <2>1. /\ c # NULL /\ running' = c /\ quantumUsed' = b.quantumUsed + 1
        /\ ~(b.quantumUsed + 1 >= QuantumOf(c))
        /\ cpuTicks' = [cpuTicks EXCEPT ![c] = @ + 1]
        /\ UNCHANGED <<priority, ioCount>>
    BY <1>7 DEF RunTick, CpuGranted, Consume, QuantumOver
  <2>2. b.quantumUsed \in Nat /\ QuantumOf(c) \in Int
    BY <1>2, <2>1, Phase5Type DEF TypeOK, QuantumOf, Scenario
  <2> HIDE DEF b
  <2>3. quantumUsed' < QuantumOf(c)
    BY <2>1, <2>2
  <2>4. QED
    BY <1>2, <2>1, <2>3 DEF b
<1>8. QED
  BY <1>3, <1>4, <1>5, <1>6, <1>7, StepCases

LEMMA StepSlices ==
    ASSUME TypeOK, OnePlace, SliceInv, Step, Dispatch
    PROVE  SliceInv'
<1> PICK c : c = AtPhase5.cpu
  OBVIOUS
<1> DEFINE u == AtPhase5.quantumUsed
           s == slice'.service
           k == scn.quantum["HIGH"]
<1>1. /\ cpuTicks \in [Pid -> Nat] /\ ioCount \in [Pid -> Nat]
      /\ priority \in [Pid -> Priority] /\ k \in Int /\ scn' = scn /\ NULL \notin Pid
  BY NobodyIsNull, StepKeepsScn DEF TypeOK, Scenario, Priority
<1>2. c \in Pid => /\ u = cpuTicks[c] - s /\ s \in Int /\ s = StretchStart(c)
                   /\ u = 0 \/ u < QuantumOf(c)
  BY OnCpu
<1>3. s \in Int
  <2>1. CASE c \in Pid
    BY <1>2, <2>1
  <2>2. CASE c \notin Pid
    BY <2>2, Phase5Type DEF Dispatch, SliceInv
  <2>3. QED
    BY <2>1, <2>2
<1>4. ASSUME NEW p \in Pid, p # c
      PROVE  status'[p] = "DONE" <=> status[p] = "DONE"
  BY <1>4, StepEffect DEF NobodyRuns, StartsIo, GetsTick
<1>5. ASSUME NEW p \in Pid, p # c
      PROVE  StretchStart(p) = cpuTicks[p]
  <2>1. ASSUME running = p PROVE FALSE
    <3>1. running # NULL
      BY <1>1, <2>1
    <3>2. AtPhase5.cpu = running
      BY <3>1, Phase5Fields, Zenon
    <3>3. QED
      BY <1>5, <2>1, <3>2
  <2>2. QED
    BY <2>1 DEF StretchStart
<1>6. \A p \in Pid : Short(p)
  BY DEF SliceInv
<1>7. c \in Pid => status[c] # "DONE"
  BY CpuNotDone
<1> HIDE DEF s, u
<1>8. CASE c \notin Pid /\ running' = NULL /\ running = NULL /\ UNCHANGED <<priority, cpuTicks, ioCount>>
  <2>1. \A p \in Pid : Short(p)'
    BY <1>1, <1>4, <1>6, <1>8 DEF Short, StretchStart
  <2>2. QED
    BY <1>3, <1>8, <2>1 DEF SliceInv, QuantumUsedIsSlice, s
<1>9. CASE /\ c \in Pid /\ running' = c /\ quantumUsed' = u + 1 /\ quantumUsed' < QuantumOf(c)
           /\ cpuTicks' = [cpuTicks EXCEPT ![c] = @ + 1] /\ UNCHANGED <<priority, ioCount>>
  <2>1. cpuTicks'[c] = cpuTicks[c] + 1 /\ \A p \in Pid : p # c => cpuTicks'[p] = cpuTicks[p]
    BY <1>1, <1>9
  <2>2. StretchStart(c)' = StretchStart(c) /\ \A p \in Pid : p # c => StretchStart(p)' = cpuTicks[p]
    BY <1>2, <1>9, <2>1 DEF StretchStart, s
  <2>3. \A p \in Pid : Short(p)'
    <3>1. Short(c)'
      BY <1>1, <1>6, <1>7, <1>9, <2>2 DEF Short
    <3>2. \A p \in Pid : p # c => Short(p)'
      BY <1>1, <1>4, <1>5, <1>6, <1>9, <2>2 DEF Short
    <3>3. QED
      BY <3>1, <3>2
  <2>4. quantumUsed' = cpuTicks'[c] - s
    BY <1>1, <1>2, <1>3, <1>9, <2>1
  <2>5. QuantumUsedIsSlice'
    BY <1>1, <1>9, <2>4 DEF QuantumUsedIsSlice, Consumed, QuantumOf, s
  <2>6. QED
    BY <1>3, <2>3, <2>5 DEF SliceInv, s
<1>10. ASSUME c \in Pid, running' = NULL, \A p \in Pid : p # c => cpuTicks'[p] = cpuTicks[p],
              \A p \in Pid : p # c => priority'[p] = priority[p] /\ ioCount'[p] = ioCount[p],
              Short(c)'
       PROVE  SliceInv'
  <2>1. \A p \in Pid : p # c => StretchStart(p)' = cpuTicks[p]
    BY <1>1, <1>10 DEF StretchStart
  <2>2. \A p \in Pid : p # c => Short(p)'
    BY <1>1, <1>4, <1>5, <1>6, <1>10, <2>1 DEF Short
  <2>3. QED
    BY <1>3, <1>10, <2>2 DEF SliceInv, QuantumUsedIsSlice, s
<1>11. CASE /\ c \in Pid /\ running' = NULL /\ cpuTicks' = [cpuTicks EXCEPT ![c] = @ + 1]
            /\ status'[c] = "DONE" /\ UNCHANGED <<priority, ioCount>>
  BY <1>1, <1>10, <1>11 DEF Short
<1>12. CASE /\ c \in Pid /\ running' = NULL /\ cpuTicks' = [cpuTicks EXCEPT ![c] = @ + 1]
            /\ priority' = [priority EXCEPT ![c] = "LOW"] /\ UNCHANGED ioCount
  BY <1>1, <1>10, <1>12 DEF Short
<1>13. CASE /\ c \in Pid /\ running' = NULL /\ ioCount' = [ioCount EXCEPT ![c] = @ + 1]
            /\ UNCHANGED <<cpuTicks, priority>>
  <2>1. ioCount'[c] = ioCount[c] + 1 /\ \A p \in Pid : p # c => ioCount'[p] = ioCount[p]
    BY <1>1, <1>13
  <2>2. ASSUME priority[c] = "HIGH", k > 0
        PROVE  cpuTicks[c] <= ioCount'[c] * (k - 1)
    <3>1. s <= ioCount[c] * (k - 1)
      BY <1>2, <1>6, <1>7, <1>13, <2>2 DEF Short
    <3>2. u <= k - 1 /\ cpuTicks[c] = s + u
      BY <1>1, <1>2, <1>3, <1>13, <2>2 DEF QuantumOf
    <3>3. ioCount'[c] * (k - 1) = ioCount[c] * (k - 1) + (k - 1)
      <4>1. k - 1 \in Int /\ ioCount[c] \in Int
        BY <1>1, <1>13
      <4> HIDE DEF k
      <4>2. QED
        BY <2>1, <4>1, Distributes
    <3>4. ioCount[c] * (k - 1) \in Int /\ u \in Int
      BY <1>1, <1>2, <1>3, <1>13
    <3> HIDE DEF k
    <3>5. QED
      BY <1>1, <1>3, <1>13, <3>1, <3>2, <3>3, <3>4
  <2>3. Short(c)'
    BY <1>1, <1>13, <2>2 DEF Short, StretchStart
  <2>4. QED
    BY <1>10, <1>13, <2>1, <2>3
<1>14. QED
  BY <1>8, <1>9, <1>11, <1>12, <1>13, SliceEffect DEF u

LEMMA InitSlices ==
    ASSUME SliceInit
    PROVE  SliceInv
<1>1. scn \in Scenario
  BY ScenariosAssumption DEF SliceInit, Init
<1>2. scn.quantum["HIGH"] \in Int
  BY <1>1 DEF Scenario, Priority
<1>3. NULL \notin Pid
  BY NobodyIsNull
<1>4. \A p \in Pid : Short(p)
  BY <1>2, <1>3 DEF SliceInit, Init, ProcessInit, Short, StretchStart
<1>5. QED
  BY <1>4 DEF SliceInit, Init, NoSlice, SliceInv, QuantumUsedIsSlice

LEMMA StutterSlices ==
    ASSUME SliceInv, UNCHANGED sliceVars
    PROVE  SliceInv'
BY DEF SliceInv, QuantumUsedIsSlice, Consumed, QuantumOf, Short, StretchStart,
       sliceVars, vars, procVars

\* The slices are those of the simulation, which they do not disturb.
LEMMA SliceOfRun == SliceSpec => Spec
<1>1. SliceInit => Init
  BY DEF SliceInit
<1>2. [SliceStep]_sliceVars => [Next]_vars
  BY DEF SliceStep, Next, sliceVars
<1>3. QED
  BY <1>1, <1>2, PTL DEF SliceSpec, Spec

LEMMA SlicesInv == SliceSpec => []SliceInv
<1>1. SliceInit => SliceInv
  BY InitSlices
<1>2. TypeOK /\ OnePlace /\ SliceInv /\ [SliceStep]_sliceVars => SliceInv'
  BY StepSlices, StutterSlices DEF SliceStep
<1>3. QED
  BY <1>1, <1>2, SliceOfRun, TypeCorrect, PlacesCorrect, PTL DEF SliceSpec

\* quantum_used is what the process on the CPU has consumed since its dispatch,
\* and it has quantum left, whatever I/O cut its earlier slices short.
THEOREM QuantumCounted == SliceSpec => []QuantumUsedIsSlice
<1>1. SliceInv => QuantumUsedIsSlice
  BY DEF SliceInv
<1>2. QED
  BY <1>1, SlicesInv, PTL

\* A process keeps its priority as long as it leaves for I/O before its quantum
\* is over: without a demotion its service is bounded by its I/O.
THEOREM DemotionOnlyByQuantum == SliceSpec => []Undemoted
<1>1. TypeOK /\ SliceInv => Undemoted
  <2> SUFFICES ASSUME TypeOK, SliceInv, NEW p \in Pid, priority[p] = "HIGH",
                      status[p] # "DONE", scn.quantum["HIGH"] > 0
               PROVE  cpuTicks[p] <= (ioCount[p] + 1) * (scn.quantum["HIGH"] - 1)
    BY DEF Undemoted
  <2> DEFINE k == scn.quantum["HIGH"]
             m == ioCount[p] * (k - 1)
  <2>1. cpuTicks[p] \in Nat /\ ioCount[p] \in Nat /\ k \in Int /\ NULL \notin Pid
    BY NobodyIsNull DEF TypeOK, Scenario, Priority
  <2>2. (ioCount[p] + 1) * (k - 1) = m + (k - 1)
    <3>1. k - 1 \in Int
      BY <2>1
    <3> HIDE DEF k
    <3>2. QED
      BY <2>1, <3>1, Distributes
  <2>3. m \in Int /\ StretchStart(p) <= m
    BY <2>1 DEF SliceInv, Short
  <2> HIDE DEF k, m
  <2>4. CASE running = p
    <3>1. quantumUsed = cpuTicks[p] - slice.service /\ quantumUsed < k /\ slice.service <= m
      BY <2>1, <2>3, <2>4 DEF SliceInv, QuantumUsedIsSlice, Consumed, QuantumOf, StretchStart, k
    <3>2. slice.service \in Int
      BY DEF SliceInv
    <3>3. QED
      BY <2>1, <2>2, <2>3, <3>1, <3>2 DEF k
  <2>5. CASE running # p
    <3>1. cpuTicks[p] <= m
      BY <2>3, <2>5 DEF StretchStart
    <3>2. k > 0
      BY DEF k
    <3>3. QED
      BY <2>1, <2>2, <2>3, <3>1, <3>2 DEF k
  <2>6. QED
    BY <2>4, <2>5
<1>2. QED
  BY <1>1, SlicesInv, SliceOfRun, TypeCorrect, PTL

\* A process is preempted when it has had a whole quantum since its dispatch,
\* and only then.
THEOREM WholeQuantum == SliceSpec => SliceIsWholeQuantum
<1>1. ASSUME TypeOK, OnePlace, SliceInv, [SliceStep]_sliceVars, NEW p \in Pid, PreemptedNow(p)
      PROVE  Consumed(p)' = AtLeastOne(QuantumOf(p))
  <2> PICK c : c = AtPhase5.cpu
    OBVIOUS
  <2>1. c = p /\ cpuTicks'[p] > cpuTicks[p] /\ status'[p] = "READY"
    BY <1>1 DEF PreemptedNow
  <2>2. cpuTicks[p] \in Nat
    BY <1>1 DEF TypeOK
  <2>3. Step /\ Dispatch
    BY <1>1, <2>1, <2>2 DEF SliceStep, sliceVars, vars, procVars
  <2> DEFINE u == AtPhase5.quantumUsed
             k == QuantumOf(p)
  <2>4. PreemptTick(AtPhase5)
    <3>1. ~IdleTick(AtPhase5)
      BY <2>1, NobodyIsNull DEF IdleTick
    <3>2. ~ScriptedIoTick(AtPhase5) /\ ~RandomIoTick(AtPhase5)
      BY <2>1, <2>2 DEF ScriptedIoTick, RandomIoTick, Block
    <3>3. ASSUME CompleteTick(AtPhase5) PROVE FALSE
      <4>1. c # NULL /\ status' = [AtPhase5.status EXCEPT ![c] = SetStatus(@, "DONE")]
        BY <3>3 DEF CompleteTick, CpuGranted
      <4>2. status' = [AtPhase5.status EXCEPT ![c] = "DONE"]
        BY <1>1, <4>1, SetStatusAllowed
      <4>3. QED
        BY <1>1, <2>1, <4>2, Phase5Type
    <3>4. ASSUME RunTick(AtPhase5) PROVE FALSE
      <4>1. status' = AtPhase5.status
        BY <3>4 DEF RunTick
      <4>2. QED
        BY <1>1, <2>1, <4>1, CpuNotDone
    <3>5. QED
      BY <2>3, <3>1, <3>2, <3>3, <3>4, StepCases
  <2>5. cpuTicks'[p] = cpuTicks[p] + 1 /\ u + 1 >= k
    BY <1>1, <2>1, <2>4 DEF PreemptTick, Consume, QuantumOver, TypeOK
  <2>6. u = cpuTicks[p] - slice'.service /\ slice'.service \in Int /\ (u = 0 \/ u < k)
    BY <1>1, <2>1, <2>3, OnCpu
  <2>7. u \in Nat /\ k \in Int
    BY <1>1, Phase5Type DEF TypeOK, QuantumOf, Scenario
  <2> HIDE DEF u, k
  <2>8. u + 1 = AtLeastOne(k)
    BY <2>5, <2>6, <2>7 DEF AtLeastOne
  <2>9. Consumed(p)' = u + 1
    BY <2>2, <2>5, <2>6, <2>7 DEF Consumed
  <2>10. QED
    BY <2>8, <2>9 DEF k
<1>2. TypeOK /\ OnePlace /\ SliceInv /\ [SliceStep]_sliceVars =>
          [\A p \in Pid : PreemptedNow(p) => Consumed(p)' = AtLeastOne(QuantumOf(p))]_sliceVars
  BY <1>1
<1>3. QED
  BY <1>2, SlicesInv, SliceOfRun, TypeCorrect, PlacesCorrect, PTL DEF SliceSpec, SliceIsWholeQuantum

-----------------------------------------------------------------------------
(* Views.                                                                  *)

\* Who left the CPU on the last tick, and where it went: its ghost is shown on
\* the CPU, that is otherwise free.
GhostFits ==
    /\ last.kind \in {"none", "preempted", "io_start", "completed"}
    /\ last.kind # "none" => running = NULL /\ last.pid \in Pid
    /\ last.kind = "preempted" => last.pid \in Members(queue["lo"])
    /\ last.kind = "io_start" => \E d \in Device : last.pid \in Members(queue[d])
    /\ last.kind = "completed" => status[last.pid] = "DONE"

LEMMA IdleIsFree ==
    ASSUME TypeOK, IdleTick(AtPhase5)
    PROVE  running = NULL /\ running' = NULL
<1>1. AtPhase5.cpu = NULL /\ running' = running
  BY DEF IdleTick
<1>2. ~AtPhase5.dispatched
  BY <1>1, NobodyIsNull, Phase5Type
<1>3. QED
  BY <1>1, <1>2, Phase5Fields

\* What the steps leave for the views.
LEMMA Outcome ==
    ASSUME TypeOK, OnePlace, LogStep
    PROVE  \/ /\ last' = NoLast /\ running' = NULL /\ cpuTicks' = cpuTicks
           \/ /\ last' = NoLast /\ running' = AtPhase5.cpu /\ AtPhase5.cpu \in Pid
              /\ cpuTicks' = [cpuTicks EXCEPT ![AtPhase5.cpu] = @ + 1]
           \/ /\ last'.kind = "io_start" /\ last'.pid = AtPhase5.cpu /\ running' = NULL
              /\ AtPhase5.cpu \in Pid /\ cpuTicks' = cpuTicks
              /\ \E d \in Device : AtPhase5.cpu \in Members(queue'[d])
           \/ /\ last'.kind = "completed" /\ last'.pid = AtPhase5.cpu /\ running' = NULL
              /\ AtPhase5.cpu \in Pid /\ status'[AtPhase5.cpu] = "DONE"
              /\ cpuTicks' = [cpuTicks EXCEPT ![AtPhase5.cpu] = @ + 1]
           \/ /\ last'.kind = "preempted" /\ last'.pid = AtPhase5.cpu /\ running' = NULL
              /\ AtPhase5.cpu \in Pid /\ AtPhase5.cpu \in Members(queue'["lo"])
              /\ cpuTicks' = [cpuTicks EXCEPT ![AtPhase5.cpu] = @ + 1]
<1> DEFINE b == AtPhase5
           c == b.cpu
<1>1. c # NULL => c \in Pid
  BY Phase5Type
<1>2. CASE LoggedIdle(b)
  BY <1>2, IdleIsFree DEF LoggedIdle, IdleTick
<1>3. CASE LoggedRun(b)
  BY <1>1, <1>3 DEF LoggedRun, RunTick, CpuGranted, Consume
<1>4. CASE LoggedIo(b)
  <2>1. c # NULL /\ running' = NULL /\ cpuTicks' = cpuTicks
    BY <1>4 DEF LoggedIo, ScriptedIoTick, RandomIoTick, Block
  <2>2. \E d \in Device : c \in Members(queue'[d])
    BY <1>4 DEF LoggedIo
  <2>3. last'.kind = "io_start" /\ last'.pid = c
    BY <1>4 DEF LoggedIo, Left
  <2>4. QED
    BY <1>1, <2>1, <2>2, <2>3
<1>5. CASE LoggedComplete(b)
  <2>1. c # NULL /\ status' = [b.status EXCEPT ![c] = SetStatus(@, "DONE")]
    BY <1>5 DEF LoggedComplete, CompleteTick, CpuGranted
  <2>2. status' = [b.status EXCEPT ![c] = "DONE"]
    BY <2>1, SetStatusAllowed
  <2>3. status'[c] = "DONE"
    BY <1>1, <2>1, <2>2, Phase5Type
  <2>4. QED
    BY <1>1, <1>5, <2>1, <2>3 DEF LoggedComplete, CompleteTick, Consume, Left
<1>6. CASE LoggedPreempt(b)
  <2>1. c # NULL /\ queue' = [b.queue EXCEPT !["lo"] = Append(@, c)]
    BY <1>6 DEF LoggedPreempt, PreemptTick, CpuGranted
  <2>2. queue'["lo"] = Append(b.queue["lo"], c) /\ b.queue["lo"] \in Seq(Pid)
    BY <2>1, Phase5Type DEF Lane
  <2>3. c \in Members(queue'["lo"])
    <3> DEFINE q == b.queue["lo"]
    <3> HIDE DEF b, q
    <3>1. Len(q) + 1 \in DOMAIN Append(q, c) /\ Append(q, c)[Len(q) + 1] = c
      BY <2>2 DEF q
    <3>2. QED
      BY <2>2, <3>1 DEF Members, q
  <2>4. QED
    BY <1>1, <1>6, <2>1, <2>3 DEF LoggedPreempt, PreemptTick, Consume, Left
<1>7. QED
  BY <1>2, <1>3, <1>4, <1>5, <1>6 DEF LogStep

LEMMA StepGhost ==
    ASSUME TypeOK, OnePlace, [LogStep]_allVars, GhostFits
    PROVE  GhostFits'
<1>1. CASE LogStep
  BY <1>1, Outcome DEF GhostFits, NoLast
<1>2. CASE UNCHANGED allVars
  BY <1>2 DEF GhostFits, allVars, vars, procVars
<1>3. QED
  BY <1>1, <1>2

\* The log does not disturb the simulation.
LEMMA LogOfRun == LogSpec => Spec
<1>1. LogInit => Init
  BY DEF LogInit
<1>2. [LogStep]_allVars => [Next]_vars
  BY DEF LogStep, LoggedIdle, LoggedRun, LoggedIo, LoggedComplete, LoggedPreempt, Step, Next, allVars
<1>3. QED
  BY <1>1, <1>2, PTL DEF LogSpec, Spec

LEMMA GhostInv == LogSpec => []GhostFits
<1>1. LogInit => GhostFits
  BY DEF LogInit, NoLast, GhostFits
<1>2. TypeOK /\ OnePlace /\ GhostFits /\ [LogStep]_allVars => GhostFits'
  BY StepGhost
<1>3. QED
  BY <1>1, <1>2, LogOfRun, TypeCorrect, PlacesCorrect, PTL DEF LogSpec

\* A lane as it is shown: without the ghost, where there is one.
Ghosted(l) == \/ l = "lo" /\ last.kind = "preempted"
              \/ l \in Device /\ last.kind = "io_start"
LEMMA LaneShown ==
    ASSUME TypeOK, OnePlace, NEW l \in Lane
    PROVE  /\ SnapshotQueue(l) \in Seq(Pid)
           /\ NoRepeat(SnapshotQueue(l))
           /\ \A p \in Pid : p \in Members(SnapshotQueue(l)) <=>
                  p \in Members(queue[l]) /\ ~(Ghosted(l) /\ p = last.pid)
<1>1. queue[l] \in Seq(Pid) /\ NoRepeat(queue[l])
  BY OnePlaceParts DEF TypeOK, Apart
<1>2. CASE Ghosted(l)
  <2>1. SnapshotQueue(l) = Keep(queue[l], Pid \ {last.pid})
    BY <1>2 DEF Ghosted, SnapshotQueue
  <2>2. QED
    BY <1>1, <1>2, <2>1, KeepSelects
<1>3. CASE ~Ghosted(l)
  <2>1. SnapshotQueue(l) = queue[l]
    BY <1>3 DEF Ghosted, SnapshotQueue
  <2>2. QED
    BY <1>1, <1>3, <2>1
<1>4. QED
  BY <1>2, <1>3

LEMMA OccursOnce ==
    ASSUME NEW q, NoRepeat(q), NEW p
    PROVE  Cardinality({i \in DOMAIN q : q[i] = p}) <= 1
<1> DEFINE S == {i \in DOMAIN q : q[i] = p}
<1>1. S = {} \/ \E i \in S : S = {i}
  BY DEF NoRepeat
<1>2. QED
  BY <1>1, FS_EmptySet, FS_Singleton

\* Where a process is shown, by where it is.
LEMMA Shown ==
    ASSUME TypeOK, OnePlace, GhostFits, NEW p \in Pid
    PROVE  /\ p \in pending <=> ShownIn(p) = {}
           /\ \/ \E x : ShownIn(p) \subseteq {x}
              \/ ShownIn(p) = {"cpu", "finished"} /\ SnapshotCpu.ghost = "completed"
<1> DEFINE In(l) == p \in Members(queue[l])
           Ghost == last.kind # "none" /\ last.pid = p
<1>1. /\ status[p] = "RUNNING" <=> running = p
      /\ status[p] = "BLOCKED" <=> \E d \in Device : In(d)
      /\ status[p] = "READY" <=> p \in pending \/ In("hi") \/ In("lo")
      /\ p \in pending => \A l \in Lane : ~In(l)
      /\ \A l, m \in Lane : In(l) /\ In(m) => l = m
      /\ status[p] \in {"READY", "RUNNING", "BLOCKED", "DONE"}
      /\ Lane = {"hi", "lo"} \cup Device /\ "hi" \notin Device /\ "lo" \notin Device
      /\ "cpu" \notin Lane /\ "finished" \notin Lane
  BY OnePlaceParts DEF Fits, Apart, TypeOK, Status, Lane, Device
<1>2. SnapshotCpu.pid = p <=> running = p \/ (running = NULL /\ Ghost)
  BY NobodyIsNull DEF SnapshotCpu
<1>3. \A l \in Lane : l \in ShownIn(p) <=> In(l) /\ ~(Ghosted(l) /\ last.pid = p)
  BY <1>1, LaneShown DEF ShownIn
<1>4. "cpu" \in ShownIn(p) <=> running = p \/ (running = NULL /\ Ghost)
  BY <1>1, <1>2 DEF ShownIn, SnapshotFinished
<1>5. "finished" \in ShownIn(p) <=> status[p] = "DONE"
  BY <1>1 DEF ShownIn, SnapshotFinished
<1>6. ShownIn(p) \subseteq Lane \cup {"cpu", "finished"}
  BY DEF ShownIn
<1>7. Ghost => /\ running = NULL
               /\ last.kind \in {"preempted", "io_start", "completed"}
               /\ last.kind = "preempted" => In("lo")
               /\ last.kind = "io_start" => \E d \in Device : In(d)
               /\ last.kind = "completed" => status[p] = "DONE"
  BY DEF GhostFits
<1>8. /\ Ghosted("lo") <=> last.kind = "preempted"
      /\ ~Ghosted("hi")
      /\ \A d \in Device : Ghosted(d) <=> last.kind = "io_start"
  BY <1>1 DEF Ghosted
<1>9. p # NULL
  BY NobodyIsNull
<1>10. Ghost /\ last.kind = "completed" /\ running = NULL => SnapshotCpu.ghost = "completed"
  BY DEF SnapshotCpu
<1> DEFINE sh == ShownIn(p)
<1> HIDE DEF In, sh
<1>11. /\ \A l \in Lane : l \in sh <=> In(l) /\ ~(Ghosted(l) /\ last.pid = p)
       /\ "cpu" \in sh <=> running = p \/ (running = NULL /\ Ghost)
       /\ "finished" \in sh <=> status[p] = "DONE"
       /\ sh \subseteq Lane \cup {"cpu", "finished"}
  BY <1>3, <1>4, <1>5, <1>6 DEF sh
<1>12. p \in pending <=> sh = {}
  <2>1. CASE status[p] = "READY"
    BY <1>1, <1>7, <1>8, <1>9, <1>11, <2>1
  <2>2. CASE status[p] = "RUNNING"
    BY <1>1, <1>9, <1>11, <2>2
  <2>3. CASE status[p] = "BLOCKED"
    BY <1>1, <1>7, <1>8, <1>9, <1>11, <2>3
  <2>4. CASE status[p] = "DONE"
    BY <1>1, <1>11, <2>4
  <2>5. QED
    BY <1>1, <2>1, <2>2, <2>3, <2>4
<1>13. CASE running = p
  <2>1. sh \subseteq {"cpu"}
    BY <1>1, <1>11, <1>13
  <2>2. QED
    BY <1>12, <2>1 DEF sh
<1>14. CASE Ghost /\ last.kind = "completed"
  <2>1. \A l \in Lane : ~In(l)
    BY <1>1, <1>7, <1>14
  <2>2. sh = {"cpu", "finished"}
    BY <1>7, <1>11, <1>14, <2>1
  <2>3. QED
    BY <1>7, <1>10, <1>12, <1>14, <2>2 DEF sh
<1>15. CASE Ghost /\ last.kind # "completed"
  <2>1. status[p] # "DONE" /\ \A l \in Lane : l \notin sh
    BY <1>1, <1>7, <1>8, <1>11, <1>15
  <2>2. sh \subseteq {"cpu"}
    BY <1>11, <2>1
  <2>3. QED
    BY <1>12, <2>2 DEF sh
<1>16. CASE running # p /\ ~Ghost
  <2>1. "cpu" \notin sh
    BY <1>11, <1>16
  <2>2. CASE \E l \in Lane : In(l)
    <3>1. PICK l \in Lane : In(l)
      BY <2>2
    <3>2. status[p] # "DONE"
      BY <1>1, <3>1
    <3>3. sh \subseteq {l}
      BY <1>1, <1>11, <2>1, <3>1, <3>2
    <3>4. QED
      BY <1>12, <3>3 DEF sh
  <2>3. CASE \A l \in Lane : ~In(l)
    <3>1. sh \subseteq {"finished"}
      BY <1>11, <2>1, <2>3
    <3>2. QED
      BY <1>12, <3>1 DEF sh
  <2>4. QED
    BY <2>2, <2>3
<1>17. QED
  BY <1>13, <1>14, <1>15, <1>16

\* A snapshot shows every process that has arrived, and shows it once, the ghost
\* of a completed process apart.
THEOREM SnapshotComplete == LogSpec => []ShownOnce
<1>1. TypeOK /\ OnePlace /\ GhostFits => ShownOnce
  <2> SUFFICES ASSUME TypeOK, OnePlace, GhostFits, NEW p \in Pid
               PROVE  /\ p \in pending <=> ShownIn(p) = {}
                      /\ Cardinality(ShownIn(p)) > 1 =>
                             /\ ShownIn(p) = {"cpu", "finished"}
                             /\ SnapshotCpu.ghost = "completed"
                      /\ \A l \in Lane : Cardinality({i \in DOMAIN SnapshotQueue(l) :
                                                        SnapshotQueue(l)[i] = p}) <= 1
    BY DEF ShownOnce
  <2>2. \A l \in Lane : NoRepeat(SnapshotQueue(l))
    BY LaneShown
  <2>3. ASSUME Cardinality(ShownIn(p)) > 1, NEW x, ShownIn(p) \subseteq {x} PROVE FALSE
    <3>1. ShownIn(p) = {} \/ ShownIn(p) = {x}
      BY <2>3
    <3>2. Cardinality({}) = 0 /\ Cardinality({x}) = 1
      BY FS_EmptySet, FS_Singleton
    <3>3. Cardinality(ShownIn(p)) \in {0, 1}
      BY <3>1, <3>2
    <3>4. QED
      BY <2>3, <3>3
  <2>4. \A l \in Lane : Cardinality({i \in DOMAIN SnapshotQueue(l) :
                                        SnapshotQueue(l)[i] = p}) <= 1
    <3> TAKE l \in Lane
    <3>1. NoRepeat(SnapshotQueue(l))
      BY <2>2
    <3>2. QED
      BY <3>1, OccursOnce
  <2>5. p \in pending <=> ShownIn(p) = {}
    BY Shown
  <2>6. Cardinality(ShownIn(p)) > 1 =>
            /\ ShownIn(p) = {"cpu", "finished"}
            /\ SnapshotCpu.ghost = "completed"
    BY <2>3, Shown
  <2>7. QED
    BY <2>4, <2>5, <2>6
<1>2. QED
  BY <1>1, GhostInv, LogOfRun, TypeCorrect, PlacesCorrect, PTL

\* What the trace is made of: who is on the CPU afterwards, and who left it how.
LEMMA Leaving ==
    ASSUME TypeOK, OnePlace, LogStep, NEW c, c = AtPhase5.cpu
    PROVE  \/ running' = NULL /\ last' = NoLast /\ c = NULL
           \/ c # NULL /\ running' = c /\ last' = NoLast /\ ~BurstOver(c) /\ ioCount' = ioCount
           \/ c # NULL /\ running' = NULL /\ last'.kind = "io_start" /\ last'.pid = c
              /\ cpuTicks' = cpuTicks
           \/ c # NULL /\ running' = NULL /\ last'.kind = "completed" /\ BurstOver(c)
              /\ ioCount' = ioCount
           \/ c # NULL /\ running' = NULL /\ last'.kind = "preempted" /\ last'.pid = c
              /\ ~BurstOver(c) /\ ioCount' = ioCount
<1> DEFINE b == AtPhase5
<1>1. CASE LoggedIdle(b)
  BY <1>1, IdleIsFree DEF LoggedIdle, IdleTick
<1>2. CASE LoggedRun(b)
  BY <1>2 DEF LoggedRun, RunTick, CpuGranted, Consume
<1>3. CASE LoggedIo(b)
  BY <1>3 DEF LoggedIo, Left, ScriptedIoTick, RandomIoTick, Block
<1>4. CASE LoggedComplete(b)
  BY <1>4 DEF LoggedComplete, Left, CompleteTick, CpuGranted, Consume
<1>5. CASE LoggedPreempt(b)
  BY <1>5 DEF LoggedPreempt, Left, PreemptTick, CpuGranted, Consume
<1>6. QED
  BY <1>1, <1>2, <1>3, <1>4, <1>5 DEF LogStep

\* The process a snapshot shows on the CPU consumed the tick, unless it is the
\* ghost of one that left for I/O, and if there is none the tick was idle; the
\* trace shows the process that was on the CPU, unless the tick completed it.
THEOREM CpuTruthful == LogSpec => CpuShownRan
<1>1. ASSUME TypeOK, OnePlace, LogStep, NEW p \in Pid
      PROVE  SnapshotShowsWhoRan(p)
  <2> PICK c : c = AtPhase5.cpu
    OBVIOUS
  <2>1. cpuTicks \in [Pid -> Nat] /\ p # NULL
    BY <1>1, NobodyIsNull DEF TypeOK
  <2>2. cpuTicks' = cpuTicks => cpuTicks'[p] # cpuTicks[p] + 1
    BY <2>1
  <2>3. c \in Pid /\ cpuTicks' = [cpuTicks EXCEPT ![c] = @ + 1] =>
            (cpuTicks'[p] = cpuTicks[p] + 1 <=> p = c)
    BY <2>1
  <2>4. SnapshotCpu' = IF running' # NULL
                       THEN [pid |-> running', used |-> quantumUsed',
                             max |-> QuantumOf(running)', ghost |-> "none"]
                       ELSE IF last'.kind # "none"
                       THEN [pid |-> last'.pid, used |-> last'.used,
                             max |-> QuantumFor(last.priority)', ghost |-> last'.kind]
                       ELSE [pid |-> NULL]
    BY DEF SnapshotCpu
  <2>5. QED
    BY <1>1, <2>1, <2>2, <2>3, <2>4, Outcome, NobodyIsNull
       DEF NoLast, SnapshotShowsWhoRan
<1>2. ASSUME TypeOK, OnePlace, LogStep, NEW p \in Pid
      PROVE  TraceShowsWhoStayed(p)
  <2> PICK c : c = AtPhase5.cpu
    OBVIOUS
  <2>1. cpuTicks \in [Pid -> Nat] /\ ioCount \in [Pid -> Nat] /\ NULL \notin Pid
    BY <1>2, NobodyIsNull DEF TypeOK
  <2>2. TraceCpu' = IF running' # NULL THEN running'
                    ELSE IF last'.kind \in {"preempted", "io_start"} THEN last'.pid
                    ELSE NULL
    BY DEF TraceCpu
  <2>3. NobodyRuns(c) \/ StartsIo(c) \/ GetsTick(c)
    <3>1. Step
      BY <1>2 DEF LogStep, LoggedIdle, LoggedRun, LoggedIo, LoggedComplete, LoggedPreempt, Step
    <3>2. QED
      BY <1>2, <3>1, StepEffect
  <2>4. c \in Pid => status[c] # "DONE"
    BY <1>2, CpuNotDone
  <2>5. CASE NobodyRuns(c)
    <3>1. c = NULL
      BY <1>2, <2>5, Phase5Type DEF NobodyRuns
    <3>2. TraceCpu' = NULL
      BY <1>2, <2>2, <3>1, Leaving DEF NoLast
    <3>3. QED
      BY <2>1, <2>5, <3>2 DEF NobodyRuns, TraceShowsWhoStayed
  <2>6. CASE StartsIo(c)
    <3>1. /\ ioCount'[p] # ioCount[p] <=> p = c
          /\ ioCount' # ioCount /\ c \in Pid /\ cpuTicks' = cpuTicks
      BY <2>1, <2>6 DEF StartsIo
    <3>2. TraceCpu' = c
      BY <1>2, <2>1, <2>2, <3>1, Leaving
    <3>3. QED
      BY <3>1, <3>2 DEF TraceShowsWhoStayed
  <2>7. CASE GetsTick(c)
    <3>1. /\ cpuTicks'[p] # cpuTicks[p] <=> p = c
          /\ cpuTicks' # cpuTicks /\ c \in Pid /\ ioCount' = ioCount
          /\ p = c => (status'[p] = "DONE" <=> BurstOver(c))
      BY <2>1, <2>4, <2>7 DEF GetsTick
    <3>2. TraceCpu' = IF BurstOver(c) THEN NULL ELSE c
      BY <1>2, <2>1, <2>2, <3>1, Leaving DEF NoLast
    <3>3. QED
      BY <2>1, <3>1, <3>2 DEF TraceShowsWhoStayed
  <2>8. QED
    BY <2>3, <2>5, <2>6, <2>7
<1>3. TypeOK /\ OnePlace /\ [LogStep]_allVars =>
          [\A p \in Pid : SnapshotShowsWhoRan(p) /\ TraceShowsWhoStayed(p)]_allVars
  BY <1>1, <1>2
<1>4. QED
  BY <1>3, LogOfRun, TypeCorrect, PlacesCorrect, PTL DEF LogSpec, CpuShownRan

-----------------------------------------------------------------------------
(* What FoldLeft computes: it goes through the sequence from the left.      *)

\* A log is any finite sequence of events; a trace of it is what the places are
\* after each of its events.
IsLog(log) == \E S : log \in Seq(S)
Trace(g, a, log) ==
    /\ g[0] = a
    /\ \A i \in 1..Len(log) : g[i] = Replay(g[i - 1], log[i])

LEMMA LogLen == ASSUME NEW log, IsLog(log) PROVE Len(log) \in Nat /\ DOMAIN log = 1..Len(log)
BY DEF IsLog

\* The fold takes the largest index first, and leaves the rest to the fold of
\* what is below it.
LEMMA MaxOf == ASSUME NEW k \in Nat, NEW s \in SUBSET (1..k), k \in s PROVE Max(s) = k
<1>1. \A x \in s : x \in Int /\ k >= x
  OBVIOUS
<1>2. \A x \in s : x >= k => x = k
  BY <1>1
<1>3. QED
  BY <1>1, <1>2 DEF Max

\* The fold, as a function g of the sets of indices still to be replayed.
Replayed(a, log) == FoldLeft(Replay, a, log)
Folds(g, a, log) ==
    \A s \in SUBSET (1..Len(log)) :
        g[s] = IF s = {} THEN a ELSE Replay(g[s \ {Max(s)}], log[Max(s)])

LEMMA FoldRecursion ==
    ASSUME NEW a, NEW log, IsLog(log)
    PROVE  \E g : Folds(g, a, log) /\ Replayed(a, log) = g[1..Len(log)]
<1> DEFINE n == Len(log)
           Body(g, s) == IF s = {} THEN a ELSE Replay(g[s \ {Max(s)}], log[Max(s)])
           Loop(g, m) == g = [s \in SUBSET (1..m) |-> Body(g, s)]
           T == {m \in Nat : \E g : Loop(g, m)}
<1>1. n \in Nat /\ DOMAIN log = 1..n
  BY LogLen
<1>2. Replayed(a, log) = (CHOOSE g : Loop(g, n))[1..n]
  BY <1>1 DEF Replayed, FoldLeft, MapThenFoldSet
<1>3. \A g, h : Body(g, {}) = Body(h, {})
  OBVIOUS
<1>4. ASSUME NEW g, NEW h, NEW s, s # {}, g[s \ {Max(s)}] = h[s \ {Max(s)}]
      PROVE  Body(g, s) = Body(h, s)
  BY <1>4
<1> HIDE DEF Body, n
<1>5. 0 \in T
  <2> DEFINE g == [s \in SUBSET (1..0) |-> Body(<<>>, s)]
  <2>1. \A s \in SUBSET (1..0) : s = {}
    OBVIOUS
  <2>2. \A s \in SUBSET (1..0) : Body(<<>>, s) = Body(g, s)
    BY <1>3, <2>1
  <2>3. Loop(g, 0)
    BY <2>2
  <2>4. QED
    BY <2>3
<1>6. ASSUME NEW m \in T PROVE m + 1 \in T
  <2>1. PICK g : Loop(g, m)
    OBVIOUS
  <2>2. m \in Nat
    OBVIOUS
  <2>3. \A s \in SUBSET (1..m) : g[s] = Body(g, s)
    BY <2>1
  <2> DEFINE h == [s \in SUBSET (1..(m + 1)) |->
                     IF m + 1 \in s THEN Body(g, s) ELSE g[s]]
  <2>4. \A s \in SUBSET (1..m) : h[s] = g[s] /\ m + 1 \notin s
    BY <2>2
  <2>5. \A s \in SUBSET (1..(m + 1)) : m + 1 \in s => h[s] = Body(g, s)
    OBVIOUS
  <2>6. \A s \in SUBSET (1..(m + 1)) : s \ {m + 1} \in SUBSET (1..m)
    BY <2>2
  <2>7. ASSUME NEW s \in SUBSET (1..(m + 1)) PROVE h[s] = Body(h, s)
    <3>1. CASE m + 1 \in s
      <4>1. Max(s) = m + 1
        BY <2>2, <3>1, MaxOf
      <4>2. h[s \ {m + 1}] = g[s \ {m + 1}]
        BY <2>4, <2>6
      <4> HIDE DEF h
      <4>3. Body(g, s) = Body(h, s)
        BY <1>4, <3>1, <4>1, <4>2
      <4>4. QED
        BY <2>5, <3>1, <4>3
    <3>2. CASE m + 1 \notin s /\ s # {}
      <4>1. s \in SUBSET (1..m)
        BY <2>6, <3>2
      <4>2. s \ {Max(s)} \in SUBSET (1..m)
        BY <4>1
      <4>3. h[s \ {Max(s)}] = g[s \ {Max(s)}] /\ h[s] = g[s]
        BY <2>4, <4>1, <4>2
      <4> HIDE DEF h
      <4>4. Body(g, s) = Body(h, s)
        BY <1>4, <3>2, <4>3
      <4>5. QED
        BY <2>3, <4>1, <4>3, <4>4
    <3>3. CASE s = {}
      <4>1. h[{}] = g[{}] /\ g[{}] = Body(g, {})
        BY <2>3, <2>4
      <4> HIDE DEF h
      <4>2. QED
        BY <1>3, <3>3, <4>1
    <3>4. QED
      BY <3>1, <3>2, <3>3
  <2>8. Loop(h, m + 1)
    BY <2>7
  <2> HIDE DEF Loop, h
  <2>9. QED
    BY <2>2, <2>8
<1>7. n \in T
  <2> HIDE DEF T
  <2>1. T \subseteq Nat
    BY DEF T
  <2>2. T = Nat
    BY <1>5, <1>6, <2>1, SetInduction
  <2>3. QED
    BY <1>1, <2>2 DEF n
<1>8. PICK g : g = (CHOOSE h : Loop(h, n))
  OBVIOUS
<1>9. Loop(g, n)
  BY <1>7, <1>8
<1>10. \A s \in SUBSET (1..n) : g[s] = Body(g, s)
  BY <1>9
<1>11. Folds(g, a, log)
  BY <1>10 DEF Body, n, Folds
<1>12. Replayed(a, log) = g[1..Len(log)]
  BY <1>2, <1>8 DEF n
<1>13. QED
  BY <1>11, <1>12

\* What a trace of replays ends with.
LEMMA FoldIsTrace ==
    ASSUME NEW a, NEW log, IsLog(log), NEW t, Trace(t, a, log)
    PROVE  Replayed(a, log) = t[Len(log)]
<1> DEFINE n == Len(log)
<1>1. n \in Nat
  BY LogLen
<1>2. PICK g : Folds(g, a, log) /\ Replayed(a, log) = g[1..n]
  BY FoldRecursion
<1> DEFINE T == {i \in Nat : i <= n => g[1..i] = t[i]}
<1> HIDE DEF n
<1>3. 0 \in T
  <2>1. 1..0 = {}
    OBVIOUS
  <2>2. g[{}] = a
    BY <1>2 DEF Folds
  <2>3. QED
    BY <2>1, <2>2 DEF Trace
<1>4. ASSUME NEW i \in T PROVE i + 1 \in T
  <2>1. i \in Nat /\ (i <= n => g[1..i] = t[i])
    OBVIOUS
  <2>2. ASSUME i + 1 <= n PROVE g[1..(i + 1)] = t[i + 1]
    <3>1. i + 1 \in 1..n /\ i <= n
      BY <1>1, <2>1, <2>2
    <3>2. 1..(i + 1) \in SUBSET (1..n) /\ i + 1 \in 1..(i + 1)
      BY <1>1, <2>1, <2>2
    <3>3. Max(1..(i + 1)) = i + 1
      BY <2>1, MaxOf
    <3>4. (1..(i + 1)) \ {i + 1} = 1..i
      BY <2>1
    <3>5. g[1..(i + 1)] = Replay(g[1..i], log[i + 1])
      <4>1. g[1..(i + 1)] = Replay(g[(1..(i + 1)) \ {Max(1..(i + 1))}], log[Max(1..(i + 1))])
        BY <1>2, <3>2 DEF Folds, n
      <4>2. QED
        BY <3>3, <3>4, <4>1
    <3>6. t[i + 1] = Replay(t[i], log[i + 1])
      <4>1. t[i + 1] = Replay(t[(i + 1) - 1], log[i + 1])
        BY <3>1 DEF Trace, n
      <4>2. (i + 1) - 1 = i
        BY <2>1
      <4>3. QED
        BY <4>1, <4>2
    <3>7. QED
      BY <2>1, <3>1, <3>5, <3>6
  <2>3. QED
    BY <2>1, <2>2
<1>5. n \in T
  <2>1. T \subseteq Nat
    OBVIOUS
  <2> HIDE DEF T
  <2>2. T = Nat
    BY <1>3, <1>4, <2>1, SetInduction
  <2>3. QED
    BY <1>1, <2>2
<1>6. QED
  BY <1>1, <1>2, <1>5 DEF n

-----------------------------------------------------------------------------
(* Logs that lead from some places to others.                              *)

\* Places as a function of the queues and the CPU; a log explains how b came
\* from a when it has a trace that ends in b.
Place(q, c) == [queue |-> q, cpu |-> c]
Explains(log, a, b) == IsLog(log) /\ \E t : Trace(t, a, log) /\ t[Len(log)] = b

LEMMA ExplainedReplayed ==
    ASSUME NEW log, NEW a, NEW b, Explains(log, a, b)
    PROVE  Replayed(a, log) = b
BY FoldIsTrace DEF Explains

LEMMA NothingExplained == ASSUME NEW a PROVE Explains(<<>>, a, a)
<1> DEFINE t == [i \in 0..0 |-> a]
<1>1. <<>> \in Seq({})
  OBVIOUS
<1>2. IsLog(<<>>)
  BY <1>1 DEF IsLog
<1>3. t[0] = a /\ Len(<<>>) = 0
  OBVIOUS
<1> HIDE DEF t
<1>4. Trace(t, a, <<>>)
  BY <1>3 DEF Trace
<1>5. QED
  BY <1>2, <1>3, <1>4 DEF Explains

LEMMA OneExplained ==
    ASSUME NEW a, NEW e, NEW b, b = Replay(a, e)
    PROVE  Explains(<<e>>, a, b)
<1> DEFINE t == [i \in 0..1 |-> IF i = 0 THEN a ELSE b]
<1>1. <<e>> \in Seq({e}) /\ Len(<<e>>) = 1 /\ <<e>>[1] = e
  OBVIOUS
<1>2. IsLog(<<e>>)
  BY <1>1 DEF IsLog
<1>3. t[0] = a /\ t[1] = b
  OBVIOUS
<1> HIDE DEF t
<1>4. Trace(t, a, <<e>>)
  <2>1. \A i \in 1..1 : i = 1 /\ i - 1 = 0
    OBVIOUS
  <2>2. QED
    BY <1>1, <1>3, <2>1 DEF Trace
<1>5. QED
  BY <1>1, <1>2, <1>3, <1>4 DEF Explains

\* Logs in a row explain the way through the places between them.
LEMMA ExplainedThrough ==
    ASSUME NEW u, NEW v, NEW a, NEW b, NEW c, Explains(u, a, b), Explains(v, b, c)
    PROVE  Explains(u \o v, a, c)
<1> DEFINE m == Len(u)
           n == Len(v)
           w == u \o v
<1>1. PICK S, T : u \in Seq(S) /\ v \in Seq(T)
  BY DEF Explains, IsLog
<1>2. u \in Seq(S \cup T) /\ v \in Seq(S \cup T)
  BY <1>1
<1>3. /\ m \in Nat /\ n \in Nat /\ w \in Seq(S \cup T) /\ Len(w) = m + n
      /\ \A i \in 1..m : w[i] = u[i]
      /\ \A i \in (m + 1)..(m + n) : w[i] = v[i - m]
  BY <1>2
<1>4. PICK f : Trace(f, a, u) /\ f[m] = b
  BY DEF Explains
<1>5. PICK g : Trace(g, b, v) /\ g[n] = c
  BY DEF Explains
<1> HIDE DEF m, n, w
<1> DEFINE h == [i \in 0..(m + n) |-> IF i <= m THEN f[i] ELSE g[i - m]]
<1>6. /\ h[0] = a /\ h[m + n] = c /\ g[0] = b
      /\ \A i \in 0..m : h[i] = f[i]
      /\ \A i \in (m + 1)..(m + n) : h[i] = g[i - m]
  <2>1. f[0] = a /\ g[0] = b
    BY <1>4, <1>5 DEF Trace
  <2>2. h[0] = f[0]
    BY <1>3
  <2>3. \A i \in 0..m : h[i] = f[i]
    BY <1>3
  <2>4. \A i \in (m + 1)..(m + n) : h[i] = g[i - m]
    BY <1>3
  <2>5. h[m + n] = c
    <3>1. CASE n = 0
      BY <1>3, <1>4, <1>5, <2>1, <2>3, <3>1
    <3>2. CASE n # 0
      <4>1. m + n \in (m + 1)..(m + n) /\ (m + n) - m = n
        BY <1>3, <3>2
      <4>2. QED
        BY <1>5, <2>4, <4>1
    <3>3. QED
      BY <3>1, <3>2
  <2>6. QED
    BY <2>1, <2>2, <2>3, <2>4, <2>5
<1> HIDE DEF h
<1>7. ASSUME NEW i \in 1..(m + n) PROVE h[i] = Replay(h[i - 1], w[i])
  <2>1. CASE i <= m
    <3>1. i \in 1..m /\ i \in 0..m /\ i - 1 \in 0..m
      BY <1>3, <2>1
    <3>2. f[i] = Replay(f[i - 1], u[i])
      BY <1>4, <3>1 DEF Trace, m
    <3>3. QED
      BY <1>3, <1>6, <3>1, <3>2
  <2>2. CASE i = m + 1
    <3>1. m \in 0..m /\ i \in (m + 1)..(m + n) /\ i - m = 1 /\ i - 1 = m /\ 1 \in 1..n
      BY <1>3, <2>2
    <3>2. g[1] = Replay(g[1 - 1], v[1])
      BY <1>5, <3>1 DEF Trace, n
    <3>3. 1 - 1 = 0
      OBVIOUS
    <3>4. h[i - 1] = g[0]
      BY <1>4, <1>6, <3>1
    <3>5. h[i] = g[1] /\ w[i] = v[1]
      BY <1>3, <1>6, <3>1
    <3>6. QED
      BY <3>2, <3>3, <3>4, <3>5
  <2>3. CASE i > m + 1
    <3>1. /\ i \in (m + 1)..(m + n) /\ i - 1 \in (m + 1)..(m + n)
          /\ i - m \in 1..n /\ (i - 1) - m = (i - m) - 1
      BY <1>3, <2>3
    <3>2. g[i - m] = Replay(g[(i - m) - 1], v[i - m])
      BY <1>5, <3>1 DEF Trace, n
    <3>3. QED
      BY <1>3, <1>6, <3>1, <3>2
  <2>4. QED
    BY <1>3, <2>1, <2>2, <2>3
<1>8. Trace(h, a, w)
  BY <1>3, <1>6, <1>7 DEF Trace
<1>9. IsLog(w)
  BY <1>3 DEF IsLog
<1>10. QED
  BY <1>3, <1>6, <1>8, <1>9 DEF Explains, w

-----------------------------------------------------------------------------
(* What one event does to the places.                                      *)

LEMMA ArrivalReplayed ==
    ASSUME NEW q \in [Lane -> Seq(Pid)], NEW c, NEW p \in Pid
    PROVE  Replay(Place(q, c), Arrived(p)) = Place([q EXCEPT !["hi"] = Append(@, p)], c)
BY DEF Replay, Place, Arrived, Lane

LEMMA ReturnReplayed ==
    ASSUME NEW q \in [Lane -> Seq(Pid)], NEW c, NEW p \in Pid, NEW d \in Device
    PROVE  Replay(Place(q, c), IoReturn(p, d)) =
             Place([q EXCEPT ![d] = Keep(@, Pid \ {p}), ![ReturnLane(d)] = Append(@, p)], c)
<1> DEFINE e == IoReturn(p, d)
           at == Place(q, c)
           l == ReturnLane(d)
<1>1. e.type = "io_return" /\ e.pid = p /\ e.device = d /\ e.lane = l
  BY DEF IoReturn
<1>2. at.queue = q /\ at.cpu = c
  BY DEF Place
<1>3. l \in {"hi", "lo"} /\ l # d /\ l \in Lane /\ d \in Lane
  BY DEF ReturnLane, Device, Lane
<1> HIDE DEF e, l
<1>4. Replay(at, e) = [at EXCEPT !.queue[d] = Keep(@, Pid \ {p}), !.queue[l] = Append(q[l], p)]
  BY <1>1, <1>2 DEF Replay, Without
<1>5. QED
  BY <1>3, <1>4 DEF Place, e, l

LEMMA ServiceReplayed ==
    ASSUME NEW a, NEW p, NEW d
    PROVE  Replay(a, IoTick(p, d)) = a
BY DEF Replay, IoTick

\* One process taken out of a queue, and one put at its end.
Leave(q, l, p) == [q EXCEPT ![l] = Keep(@, Pid \ {p})]
Enter(q, l, p) == [q EXCEPT ![l] = Append(@, p)]

LEMMA DispatchReplayed ==
    ASSUME NEW q \in [Lane -> Seq(Pid)], NEW c, NEW p \in Pid, NEW l \in Lane
    PROVE  Replay(Place(q, c), Scheduled(p, l)) = Place(Leave(q, l, p), p)
BY DEF Replay, Place, Scheduled, Without, Leave

LEMMA IoStartReplayed ==
    ASSUME NEW q \in [Lane -> Seq(Pid)], NEW c, NEW p \in Pid, NEW d \in Device, NEW n
    PROVE  Replay(Place(q, c), IoStart(p, d, n)) = Place(Enter(q, d, p), NULL)
BY DEF Replay, Place, IoStart, Lane, Enter

LEMMA PreemptedReplayed ==
    ASSUME NEW q \in [Lane -> Seq(Pid)], NEW c, NEW p \in Pid, NEW n, NEW m
    PROVE  Replay(Place(q, c), Preempted(p, n, m)) = Place(Enter(q, "lo", p), NULL)
BY DEF Replay, Place, Preempted, Lane, Enter

LEMMA CompletedReplayed ==
    ASSUME NEW q, NEW c, NEW p
    PROVE  Replay(Place(q, c), Completed(p)) = Place(q, NULL)
BY DEF Replay, Place, Completed

-----------------------------------------------------------------------------
(* The events of a whole queue of processes.                                *)

\* The first i elements of s.
First(s, i) == [k \in 1..i |-> s[k]]

LEMMA FirstFew ==
    ASSUME NEW X, NEW s \in Seq(X)
    PROVE  /\ \A i \in 0..Len(s) : First(s, i) \in Seq(X) /\ Len(First(s, i)) = i
           /\ First(s, Len(s)) = s
           /\ \A i \in 1..Len(s) : First(s, i) = Append(First(s, i - 1), s[i])
<1>1. Len(s) \in Nat /\ DOMAIN s = 1..Len(s) /\ \A k \in 1..Len(s) : s[k] \in X
  OBVIOUS
<1>2. ASSUME NEW i \in 0..Len(s) PROVE First(s, i) \in Seq(X) /\ Len(First(s, i)) = i
  <2>1. First(s, i) \in [1..i -> X] /\ i \in Nat
    BY <1>1 DEF First
  <2>2. QED
    BY <2>1
<1>3. First(s, Len(s)) = s
  BY <1>1 DEF First
<1>4. ASSUME NEW i \in 1..Len(s) PROVE First(s, i) = Append(First(s, i - 1), s[i])
  <2>1. i - 1 \in 0..Len(s) /\ i \in Nat /\ (i - 1) + 1 = i
    BY <1>1
  <2> DEFINE f == First(s, i - 1)
             a == Append(f, s[i])
  <2>2. f \in Seq(X) /\ Len(f) = i - 1
    BY <1>2, <2>1
  <2>3. \A k \in 1..(i - 1) : f[k] = s[k]
    BY DEF First
  <2> HIDE DEF f
  <2>4. a \in Seq(X) /\ Len(a) = i /\ a[i] = s[i] /\ \A k \in 1..(i - 1) : a[k] = f[k]
    BY <1>1, <2>1, <2>2
  <2>5. \A t \in Seq(X) : t = [k \in 1..Len(t) |-> t[k]]
    OBVIOUS
  <2> HIDE DEF a
  <2>6. a = [k \in 1..i |-> a[k]]
    BY <2>4, <2>5
  <2>7. \A k \in 1..i : a[k] = s[k]
    BY <2>1, <2>3, <2>4
  <2>8. a = First(s, i)
    BY <2>6, <2>7 DEF First
  <2>9. QED
    BY <2>8 DEF a, f
<1>5. QED
  BY <1>2, <1>3, <1>4

\* A queue to which the first of s are appended one by one.
Growing(X, q, s) ==
    /\ q \o First(s, 0) = q
    /\ q \o First(s, Len(s)) = q \o s
    /\ \A i \in 0..Len(s) : q \o First(s, i) \in Seq(X)
    /\ \A i \in 1..Len(s) : Append(q \o First(s, i - 1), s[i]) = q \o First(s, i)

LEMMA Grows ==
    ASSUME NEW X, NEW q \in Seq(X), NEW s \in Seq(X)
    PROVE  Growing(X, q, s)
<1>1. /\ Len(s) \in Nat
      /\ \A i \in 0..Len(s) : First(s, i) \in Seq(X) /\ Len(First(s, i)) = i
      /\ First(s, Len(s)) = s
      /\ \A i \in 1..Len(s) : First(s, i) = Append(First(s, i - 1), s[i]) /\ s[i] \in X
  BY FirstFew
<1>2. \A f \in Seq(X) : Len(f) = 0 => q \o f = q
  OBVIOUS
<1>3. \A f \in Seq(X), x \in X : Append(q \o f, x) = q \o Append(f, x)
  <2>1. ASSUME NEW f \in Seq(X), NEW x \in X PROVE Append(q \o f, x) = q \o Append(f, x)
    <3>1. <<x>> \in Seq(X)
      OBVIOUS
    <3>2. \A r \in Seq(X) : Append(r, x) = r \o <<x>>
      OBVIOUS
    <3>3. q \o f \in Seq(X)
      BY ConcatType
    <3>4. (q \o f) \o <<x>> = q \o (f \o <<x>>)
      BY <3>1, ConcatAssociative
    <3>5. QED
      BY <3>2, <3>3, <3>4
  <2>2. QED
    BY <2>1
<1>4. ASSUME NEW i \in 1..Len(s) PROVE Append(q \o First(s, i - 1), s[i]) = q \o First(s, i)
  <2>1. i - 1 \in 0..Len(s)
    BY <1>1
  <2>2. QED
    BY <1>1, <1>3, <2>1
<1>5. \A i \in 0..Len(s) : q \o First(s, i) \in Seq(X)
  BY <1>1
<1>6. q \o First(s, 0) = q
  <2>1. First(s, 0) \in Seq(X) /\ Len(First(s, 0)) = 0
    BY <1>1
  <2>2. QED
    BY <1>2, <2>1
<1>7. q \o First(s, Len(s)) = q \o s
  BY <1>1
<1>8. QED
  BY <1>4, <1>5, <1>6, <1>7 DEF Growing

\* A log with one event for each process of a queue.
LEMMA EventLog ==
    ASSUME NEW s \in Seq(Pid), NEW log, DOMAIN log = DOMAIN s, log = [i \in DOMAIN s |-> log[i]]
    PROVE  IsLog(log) /\ Len(log) = Len(s)
<1>1. Len(s) \in Nat /\ DOMAIN s = 1..Len(s)
  OBVIOUS
<1> DEFINE S == {log[i] : i \in DOMAIN s}
<1>2. log \in [1..Len(s) -> S]
  BY <1>1
<1>3. log \in Seq(S) /\ Len(log) = Len(s)
  BY <1>1, <1>2
<1>4. QED
  BY <1>3 DEF IsLog

\* Phase 1: the arrivals enter hi in the order of their events.
LEMMA ArrivalsExplained ==
    ASSUME NEW q \in [Lane -> Seq(Pid)], NEW c, NEW s \in Seq(Pid)
    PROVE  Explains(EventsOf(s, Arrived), Place(q, c), Place([q EXCEPT !["hi"] = @ \o s], c))
<1> DEFINE n == Len(s)
           log == [i \in DOMAIN s |-> Arrived(s[i])]
           At(i) == [q EXCEPT !["hi"] = q["hi"] \o First(s, i)]
           t == [i \in 0..n |-> Place(At(i), c)]
<1>1. n \in Nat /\ DOMAIN s = 1..n /\ \A i \in 1..n : s[i] \in Pid
  OBVIOUS
<1>2. EventsOf(s, Arrived) = log
  BY DEF EventsOf
<1>3. IsLog(log) /\ Len(log) = n /\ \A i \in 1..n : log[i] = Arrived(s[i])
  BY <1>1, EventLog
<1>4. "hi" \in Lane /\ q["hi"] \in Seq(Pid)
  BY DEF Lane
<1>5. /\ At(0) = q /\ At(n) = [q EXCEPT !["hi"] = q["hi"] \o s]
      /\ \A i \in 0..n : At(i) \in [Lane -> Seq(Pid)]
      /\ \A i \in 1..n : At(i) = [At(i - 1) EXCEPT !["hi"] = Append(@, s[i])]
  <2>1. /\ q["hi"] \o First(s, 0) = q["hi"]
        /\ q["hi"] \o First(s, n) = q["hi"] \o s
        /\ \A i \in 0..n : q["hi"] \o First(s, i) \in Seq(Pid)
        /\ \A i \in 1..n : Append(q["hi"] \o First(s, i - 1), s[i]) = q["hi"] \o First(s, i)
    <3>1. PICK h \in Seq(Pid) : h = q["hi"]
      BY <1>4
    <3>2. /\ h \o First(s, 0) = h /\ h \o First(s, n) = h \o s
          /\ \A i \in 0..n : h \o First(s, i) \in Seq(Pid)
          /\ \A i \in 1..n : Append(h \o First(s, i - 1), s[i]) = h \o First(s, i)
      <4>1. Growing(Pid, h, s)
        BY Grows
      <4>2. QED
        BY <4>1 DEF Growing
    <3>3. QED
      BY <3>1, <3>2
  <2>2. At(0) = q
    BY <2>1
  <2>3. At(n) = [q EXCEPT !["hi"] = q["hi"] \o s]
    BY <2>1
  <2>4. \A i \in 0..n : At(i) \in [Lane -> Seq(Pid)]
    BY <1>4, <2>1
  <2>5. ASSUME NEW i \in 1..n PROVE At(i) = [At(i - 1) EXCEPT !["hi"] = Append(@, s[i])]
    BY <1>4, <2>1
  <2>6. QED
    BY <2>2, <2>3, <2>4, <2>5
<1>6. \A i \in 0..n : t[i] = Place(At(i), c)
  OBVIOUS
<1> HIDE DEF At, log, t
<1>7. Trace(t, Place(q, c), log)
  <2>1. t[0] = Place(q, c)
    BY <1>1, <1>5, <1>6
  <2>2. ASSUME NEW i \in 1..n PROVE t[i] = Replay(t[i - 1], log[i])
    <3>1. i \in 0..n /\ i - 1 \in 0..n
      BY <1>1
    <3>2. t[i] = Place(At(i), c) /\ t[i - 1] = Place(At(i - 1), c) /\ log[i] = Arrived(s[i])
      BY <1>3, <1>6, <3>1
    <3>3. PICK r \in [Lane -> Seq(Pid)] : r = At(i - 1)
      BY <1>5, <3>1
    <3>4. Replay(Place(r, c), Arrived(s[i])) = Place([r EXCEPT !["hi"] = Append(@, s[i])], c)
      BY <1>1, ArrivalReplayed
    <3>5. At(i) = [r EXCEPT !["hi"] = Append(@, s[i])]
      BY <1>5, <3>3
    <3>6. QED
      BY <3>2, <3>3, <3>4, <3>5
  <2>3. QED
    BY <1>3, <2>1, <2>2 DEF Trace
<1>8. t[n] = Place([q EXCEPT !["hi"] = q["hi"] \o s], c)
  <2>1. n \in 0..n
    BY <1>1
  <2>2. QED
    BY <1>5, <1>6, <2>1
<1>9. Explains(log, Place(q, c), Place([q EXCEPT !["hi"] = q["hi"] \o s], c))
  BY <1>3, <1>7, <1>8 DEF Explains
<1>10. QED
  BY <1>2, <1>9

\* A queue from which the first of s are taken one by one.
Shrinking(q, s) ==
    /\ Keep(q, Pid \ Members(First(s, 0))) = q
    /\ Keep(q, Pid \ Members(First(s, Len(s)))) = Keep(q, Pid \ Members(s))
    /\ \A i \in 0..Len(s) : Keep(q, Pid \ Members(First(s, i))) \in Seq(Pid)
    /\ \A i \in 1..Len(s) :
          Keep(Keep(q, Pid \ Members(First(s, i - 1))), Pid \ {s[i]})
            = Keep(q, Pid \ Members(First(s, i)))

LEMMA Shrinks ==
    ASSUME NEW q \in Seq(Pid), NEW s \in Seq(Pid)
    PROVE  Shrinking(q, s)
<1> DEFINE n == Len(s)
<1>1. n \in Nat
  OBVIOUS
<1>2. \A i : Members(First(s, i)) = {s[k] : k \in 1..i}
  BY DEF Members, First
<1>3. First(s, n) = s
  BY FirstFew
<1>4. Keep(q, Pid \ Members(First(s, 0))) = q
  <2>1. Members(First(s, 0)) = {}
    BY <1>2
  <2>2. \A i \in DOMAIN q : q[i] \in Pid \ Members(First(s, 0))
    BY <2>1
  <2>3. QED
    BY <2>2, KeepEverything
<1>5. \A i \in 0..n : Keep(q, Pid \ Members(First(s, i))) \in Seq(Pid)
  BY KeepSelects
<1>6. ASSUME NEW i \in 1..n
      PROVE  Keep(Keep(q, Pid \ Members(First(s, i - 1))), Pid \ {s[i]})
               = Keep(q, Pid \ Members(First(s, i)))
  <2> DEFINE A == Pid \ Members(First(s, i - 1))
             B == Pid \ {s[i]}
  <2>1. Keep(Keep(q, A), B) = Keep(q, A \cap B)
    BY KeepTwice
  <2>2. Members(First(s, i)) = Members(First(s, i - 1)) \cup {s[i]}
    <3>1. 1..i = 1..(i - 1) \cup {i}
      BY <1>1
    <3>2. {s[k] : k \in 1..i} = {s[k] : k \in 1..(i - 1)} \cup {s[i]}
      BY <3>1
    <3>3. QED
      BY <1>2, <3>2
  <2>3. A \cap B = Pid \ Members(First(s, i))
    BY <2>2
  <2>4. QED
    BY <2>1, <2>3
<1>7. QED
  BY <1>3, <1>4, <1>5, <1>6 DEF Shrinking

\* Phase 2: each return takes its process from the device and puts it at the
\* end of the ready queue of the feedback rule.
LEMMA ReturnsExplained ==
    ASSUME NEW q \in [Lane -> Seq(Pid)], NEW c, NEW s \in Seq(Pid), NEW d \in Device
    PROVE  Explains(EventsOf(s, LAMBDA p : IoReturn(p, d)), Place(q, c),
                    Place([q EXCEPT ![d] = Keep(@, Pid \ Members(s)),
                                    ![ReturnLane(d)] = @ \o s], c))
<1> DEFINE n == Len(s)
           log == [i \in DOMAIN s |-> IoReturn(s[i], d)]
           l == ReturnLane(d)
           At(i) == [q EXCEPT ![d] = Keep(q[d], Pid \ Members(First(s, i))),
                              ![l] = q[l] \o First(s, i)]
           end == [q EXCEPT ![d] = Keep(q[d], Pid \ Members(s)), ![l] = q[l] \o s]
           t == [i \in 0..n |-> Place(At(i), c)]
<1>1. n \in Nat /\ DOMAIN s = 1..n /\ \A i \in 1..n : s[i] \in Pid
  OBVIOUS
<1>2. EventsOf(s, LAMBDA p : IoReturn(p, d)) = log
  BY DEF EventsOf
<1>3. IsLog(log) /\ Len(log) = n /\ \A i \in 1..n : log[i] = IoReturn(s[i], d)
  BY <1>1, EventLog
<1>4. l \in Lane /\ d \in Lane /\ l # d /\ q[l] \in Seq(Pid) /\ q[d] \in Seq(Pid)
  BY DEF Lane, ReturnLane, Device
<1> HIDE DEF l
<1>5. Growing(Pid, q[l], s) /\ Shrinking(q[d], s)
  <2>1. PICK x \in Seq(Pid), y \in Seq(Pid) : x = q[l] /\ y = q[d]
    BY <1>4
  <2>2. Growing(Pid, x, s) /\ Shrinking(y, s)
    BY Grows, Shrinks
  <2>3. QED
    BY <2>1, <2>2
<1>6. At(0) = q
  BY <1>4, <1>5 DEF Growing, Shrinking
<1>7. At(n) = end
  BY <1>4, <1>5 DEF Growing, Shrinking
<1>8. \A i \in 0..n : At(i) \in [Lane -> Seq(Pid)]
  BY <1>4, <1>5 DEF Growing, Shrinking
<1>9. ASSUME NEW i \in 1..n
      PROVE  At(i) = [At(i - 1) EXCEPT ![d] = Keep(@, Pid \ {s[i]}), ![l] = Append(@, s[i])]
  BY <1>4, <1>5 DEF Growing, Shrinking
<1>10. \A i \in 0..n : t[i] = Place(At(i), c)
  OBVIOUS
<1> HIDE DEF At, log, t, end
<1>11. Trace(t, Place(q, c), log)
  <2>1. t[0] = Place(q, c)
    BY <1>1, <1>6, <1>10
  <2>2. ASSUME NEW i \in 1..n PROVE t[i] = Replay(t[i - 1], log[i])
    <3>1. i \in 0..n /\ i - 1 \in 0..n
      BY <1>1
    <3>2. t[i] = Place(At(i), c) /\ t[i - 1] = Place(At(i - 1), c) /\ log[i] = IoReturn(s[i], d)
      BY <1>3, <1>10, <3>1
    <3>3. PICK r \in [Lane -> Seq(Pid)] : r = At(i - 1)
      BY <1>8, <3>1
    <3>4. Replay(Place(r, c), IoReturn(s[i], d))
            = Place([r EXCEPT ![d] = Keep(@, Pid \ {s[i]}), ![l] = Append(@, s[i])], c)
      BY <1>1, ReturnReplayed DEF l
    <3>5. At(i) = [r EXCEPT ![d] = Keep(@, Pid \ {s[i]}), ![l] = Append(@, s[i])]
      BY <1>9, <3>3
    <3>6. QED
      BY <3>2, <3>3, <3>4, <3>5
  <2>3. QED
    BY <1>3, <2>1, <2>2 DEF Trace
<1>12. t[n] = Place(end, c)
  <2>1. n \in 0..n
    BY <1>1
  <2>2. QED
    BY <1>7, <1>10, <2>1
<1>13. Explains(log, Place(q, c), Place(end, c))
  BY <1>3, <1>11, <1>12 DEF Explains
<1>14. QED
  BY <1>2, <1>13 DEF end, l

\* Phase 4: a service moves nobody.
Serves(s, d) == EventsOf(s, LAMBDA p : IoTick(p, d))

LEMMA ServicesExplained ==
    ASSUME NEW a, NEW s \in Seq(Pid), NEW d
    PROVE  Explains(Serves(s, d), a, a)
<1> DEFINE n == Len(s)
           log == [i \in DOMAIN s |-> IoTick(s[i], d)]
           t == [i \in 0..n |-> a]
<1>1. n \in Nat /\ DOMAIN s = 1..n
  OBVIOUS
<1>2. Serves(s, d) = log
  BY DEF Serves, EventsOf
<1>3. IsLog(log) /\ Len(log) = n /\ \A i \in 1..n : log[i] = IoTick(s[i], d)
  BY <1>1, EventLog
<1>4. \A i \in 0..n : t[i] = a
  OBVIOUS
<1>5. 0 \in 0..n /\ n \in 0..n /\ \A i \in 1..n : i \in 0..n /\ i - 1 \in 0..n
  BY <1>1
<1> HIDE DEF log, t
<1>6. Trace(t, a, log)
  <2>1. \A i \in 1..n : t[i] = Replay(t[i - 1], log[i])
    BY <1>3, <1>4, <1>5, ServiceReplayed
  <2>2. QED
    BY <1>3, <1>4, <1>5, <2>1 DEF Trace
<1>7. Explains(log, a, a)
  BY <1>3, <1>4, <1>5, <1>6 DEF Explains
<1>8. QED
  BY <1>2, <1>7

-----------------------------------------------------------------------------
(* The events of phases 1 to 4.                                             *)

ArrivalEvents == EventsOf(Ascending(Arriving), Arrived)
DispatchEvents(b) == IF b.dispatched THEN <<Scheduled(b.cpu, b.from)>> ELSE <<>>
Serviced(d) == Keep(InService(d), Served(d))

LEMMA EventsInPhases ==
    ASSUME NEW b
    PROVE  EventsBefore(b) =
             ArrivalEvents \o ReturnEvents("disk") \o ReturnEvents("tape")
               \o ReturnEvents("printer") \o DispatchEvents(b)
               \o ServiceEvents("disk") \o ServiceEvents("tape") \o ServiceEvents("printer")
BY DEF EventsBefore, ArrivalEvents, DispatchEvents

LEMMA ServicedType == ASSUME TypeOK, NEW d \in Device PROVE Serviced(d) \in Seq(Pid)
<1>1. InService(d) \in Seq(Pid)
  BY DeviceSplit
<1>2. QED
  BY <1>1, KeepSelects DEF Serviced

\* What stays on a device when the finished processes are taken out one by one.
LEMMA FinishedLeave ==
    ASSUME TypeOK, NEW d \in Device
    PROVE  Keep(queue[d], Pid \ Members(Finished(d))) = InService(d)
<1> DEFINE q == queue[d]
<1>1. q \in Seq(Pid)
  BY DEF TypeOK, Lane
<1>2. Members(Finished(d)) = {p \in Members(q) : ioRemaining[p] <= 0}
  BY DeviceSplit
<1>3. \A p \in Pid : ioRemaining[p] \in Int
  BY DEF TypeOK
<1>4. \A i \in DOMAIN q : q[i] \in Pid /\ q[i] \in Members(q)
  BY <1>1 DEF Members
<1> HIDE DEF q
<1>5. \A i \in DOMAIN q : q[i] \in Pid \ Members(Finished(d))
                            <=> q[i] \in {p \in Pid : ioRemaining[p] > 0}
  BY <1>2, <1>3, <1>4
<1>6. Keep(q, Pid \ Members(Finished(d))) = Keep(q, {p \in Pid : ioRemaining[p] > 0})
  BY <1>5, KeepSame
<1>7. QED
  BY <1>6 DEF q, InService

\* Phases 1 and 2: the arrivals, then the returns, device by device.
WithArrivals == [queue EXCEPT !["hi"] = @ \o Ascending(Arriving)]
Returned(q, d) == [q EXCEPT ![d] = Keep(@, Pid \ Members(Finished(d))),
                            ![ReturnLane(d)] = @ \o Finished(d)]

LEMMA ReturnsType ==
    ASSUME TypeOK, NEW q \in [Lane -> Seq(Pid)], NEW d \in Device
    PROVE  /\ Returned(q, d) \in [Lane -> Seq(Pid)]
           /\ Explains(ReturnEvents(d), Place(q, running), Place(Returned(q, d), running))
<1>1. Finished(d) \in Seq(Pid)
  BY DeviceSplit
<1>2. d \in Lane /\ ReturnLane(d) \in Lane /\ d # ReturnLane(d)
  BY DEF Lane, ReturnLane, Device
<1> DEFINE l == ReturnLane(d)
           s == Finished(d)
<1>3. Returned(q, d) = [q EXCEPT ![d] = Keep(q[d], Pid \ Members(s)), ![l] = q[l] \o s]
  BY <1>2 DEF Returned
<1>4. q[d] \in Seq(Pid) /\ q[l] \in Seq(Pid)
  BY <1>2
<1>5. Keep(q[d], Pid \ Members(s)) \in Seq(Pid)
  BY <1>4, KeepSelects
<1>6. q[l] \o s \in Seq(Pid)
  BY <1>1, <1>4, ConcatType
<1> HIDE DEF l, s
<1>7. Returned(q, d) \in [Lane -> Seq(Pid)]
  BY <1>3, <1>5, <1>6
<1>8. Explains(EventsOf(Finished(d), LAMBDA p : IoReturn(p, d)), Place(q, running),
               Place([q EXCEPT ![d] = Keep(@, Pid \ Members(Finished(d))),
                               ![ReturnLane(d)] = @ \o Finished(d)], running))
  BY <1>1, ReturnsExplained
<1>9. Explains(ReturnEvents(d), Place(q, running), Place(Returned(q, d), running))
  BY <1>8 DEF ReturnEvents, Returned
<1>10. QED
  BY <1>7, <1>9

\* After phases 1 and 2 the places are those of Queue2.
LEMMA Phase2Explained ==
    ASSUME TypeOK
    PROVE  Explains(ArrivalEvents \o ReturnEvents("disk") \o ReturnEvents("tape")
                       \o ReturnEvents("printer"),
                    Place(queue, running), Place(Queue2, running))
<1> DEFINE q1 == WithArrivals
           q2 == Returned(q1, "disk")
           q3 == Returned(q2, "tape")
           q4 == Returned(q3, "printer")
<1>1. queue \in [Lane -> Seq(Pid)] /\ Ascending(Arriving) \in Seq(Pid)
  BY ArrivingListed DEF TypeOK
<1>2. q1 \in [Lane -> Seq(Pid)]
  <2>1. queue["hi"] \o Ascending(Arriving) \in Seq(Pid)
    BY <1>1, ConcatType DEF Lane
  <2>2. QED
    BY <1>1, <2>1 DEF WithArrivals
<1>3. Explains(ArrivalEvents, Place(queue, running), Place(q1, running))
  BY <1>1, ArrivalsExplained DEF ArrivalEvents, WithArrivals
<1>4. "disk" \in Device /\ "tape" \in Device /\ "printer" \in Device
  BY DEF Device
<1> HIDE DEF q1, q2, q3, q4
<1>5. /\ q2 \in [Lane -> Seq(Pid)]
      /\ Explains(ReturnEvents("disk"), Place(q1, running), Place(q2, running))
  BY <1>2, <1>4, ReturnsType DEF q2
<1>6. /\ q3 \in [Lane -> Seq(Pid)]
      /\ Explains(ReturnEvents("tape"), Place(q2, running), Place(q3, running))
  BY <1>5, <1>4, ReturnsType DEF q3
<1>7. /\ q4 \in [Lane -> Seq(Pid)]
      /\ Explains(ReturnEvents("printer"), Place(q3, running), Place(q4, running))
  BY <1>6, <1>4, ReturnsType DEF q4
<1>8. Explains(ArrivalEvents \o ReturnEvents("disk"), Place(queue, running), Place(q2, running))
  BY <1>3, <1>5, ExplainedThrough
<1>9. Explains(ArrivalEvents \o ReturnEvents("disk") \o ReturnEvents("tape"),
               Place(queue, running), Place(q3, running))
  BY <1>6, <1>8, ExplainedThrough
<1>10. Explains(ArrivalEvents \o ReturnEvents("disk") \o ReturnEvents("tape")
                   \o ReturnEvents("printer"),
                Place(queue, running), Place(q4, running))
  BY <1>7, <1>9, ExplainedThrough
<1>11. q4 = Queue2
  <2> DEFINE a == Ascending(Arriving)
             K(d) == Keep(queue[d], Pid \ Members(Finished(d)))
  <2>1. Lane = {"hi", "lo", "disk", "tape", "printer"}
    BY DEF Lane, Device
  <2>2. DOMAIN q1 = Lane
        /\ q1["hi"] = queue["hi"] \o a /\ q1["lo"] = queue["lo"]
        /\ q1["disk"] = queue["disk"] /\ q1["tape"] = queue["tape"]
        /\ q1["printer"] = queue["printer"]
    BY <1>1, <2>1 DEF q1, WithArrivals
  <2>3. DOMAIN q2 = Lane
        /\ q2["hi"] = queue["hi"] \o a /\ q2["lo"] = queue["lo"] \o Finished("disk")
        /\ q2["disk"] = K("disk") /\ q2["tape"] = queue["tape"]
        /\ q2["printer"] = queue["printer"]
    BY <2>1, <2>2 DEF q2, Returned, ReturnLane
  <2>4. DOMAIN q3 = Lane
        /\ q3["hi"] = (queue["hi"] \o a) \o Finished("tape")
        /\ q3["lo"] = queue["lo"] \o Finished("disk")
        /\ q3["disk"] = K("disk") /\ q3["tape"] = K("tape")
        /\ q3["printer"] = queue["printer"]
    BY <2>1, <2>3 DEF q3, Returned, ReturnLane
  <2>5. DOMAIN q4 = Lane
        /\ q4["hi"] = ((queue["hi"] \o a) \o Finished("tape")) \o Finished("printer")
        /\ q4["lo"] = queue["lo"] \o Finished("disk")
        /\ q4["disk"] = K("disk") /\ q4["tape"] = K("tape")
        /\ q4["printer"] = K("printer")
    BY <2>1, <2>4 DEF q4, Returned, ReturnLane
  <2>6. q4["hi"] = Ready("hi")
    <3> DEFINE h == queue["hi"] \o a
               t == Finished("tape")
               p == Finished("printer")
    <3>1. h \in Seq(Pid) /\ t \in Seq(Pid) /\ p \in Seq(Pid)
      BY <1>1, <1>4, DeviceSplit, ConcatType DEF Lane
    <3>2. Ready("hi") = h \o (t \o p) /\ q4["hi"] = (h \o t) \o p
      BY <2>5, ReadyLanes
    <3> HIDE DEF h, t, p
    <3>3. (h \o t) \o p = h \o (t \o p)
      BY <3>1, ConcatAssociative
    <3>4. QED
      BY <3>2, <3>3
  <2>7. q4["lo"] = Ready("lo")
    BY <2>5, ReadyLanes
  <2>8. \A d \in Device : K(d) = InService(d)
    BY FinishedLeave
  <2>9. \A d \in Device : q4[d] = InService(d)
    BY <2>5, <2>8 DEF Device
  <2>10. Queue2["hi"] = Ready("hi") /\ Queue2["lo"] = Ready("lo")
         /\ \A d \in Device : Queue2[d] = InService(d)
    BY DEF Queue2, Lane, Device
  <2>11. \A l \in Lane : q4[l] = Queue2[l]
    BY <2>6, <2>7, <2>9, <2>10 DEF Lane
  <2>12. Queue2 = [l \in Lane |-> Queue2[l]]
    BY DEF Queue2
  <2>13. q4 = [l \in Lane |-> q4[l]]
    BY <1>7
  <2> HIDE DEF K
  <2>14. QED
    BY <2>11, <2>12, <2>13
<1>12. QED
  BY <1>10, <1>11

\* Phase 3: the process that is dispatched leaves the head of its ready queue.
LEMMA DispatchExplained ==
    ASSUME TypeOK, OnePlace
    PROVE  Explains(DispatchEvents(AtPhase5), Place(Queue2, running),
                    Place(AtPhase5.queue, AtPhase5.cpu))
<1> DEFINE b == AtPhase5
<1>1. /\ Queue2 \in [Lane -> Seq(Pid)]
      /\ Apart(Queue2)
  BY Phase2Places
<1>2. /\ Queue2["hi"] = Ready("hi") /\ Queue2["lo"] = Ready("lo")
      /\ "hi" # "lo" /\ "hi" \in Lane /\ "lo" \in Lane
  BY DEF Queue2, Lane, Device
<1>3. CASE ~b.dispatched
  <2>1. b.cpu = running /\ b.queue = Queue2
    BY <1>3, Phase5Fields DEF Queue2
  <2>2. DispatchEvents(b) = <<>>
    BY <1>3 DEF DispatchEvents
  <2>3. QED
    BY <2>1, <2>2, NothingExplained
<1>4. CASE b.dispatched
  <2>1. Ready("hi") # <<>> \/ Ready("lo") # <<>>
    BY <1>4, Phase5Fields
  <2> DEFINE l == IF Ready("hi") # <<>> THEN "hi" ELSE "lo"
             h == Head(Queue2[l])
  <2>2. l \in {"hi", "lo"} /\ Queue2[l] # <<>> /\ l = b.from
    BY <1>2, <2>1, Phase5Fields
  <2>3. b.cpu = h
    BY <1>2, <1>4, Phase5Fields DEF NextReady
  <2>4. b.queue = [Queue2 EXCEPT ![l] = Tail(@)]
    <3>1. b.queue = [k \in Lane |->
                       CASE k = "hi" -> IF b.from = "hi" THEN Tail(Ready("hi")) ELSE Ready("hi")
                         [] k = "lo" -> IF b.from = "lo" THEN Tail(Ready("lo")) ELSE Ready("lo")
                         [] OTHER -> InService(k)]
      BY <1>4, Phase5Fields
    <3>2. CASE l = "hi"
      BY <1>2, <2>2, <3>1, <3>2 DEF Queue2
    <3>3. CASE l = "lo"
      BY <1>2, <2>2, <3>1, <3>3 DEF Queue2
    <3>4. QED
      BY <2>2, <3>2, <3>3
  <2>5. DispatchEvents(b) = <<Scheduled(b.cpu, b.from)>>
    BY <1>4 DEF DispatchEvents
  <2> HIDE DEF l, b
  <2>6. h \in Pid /\ l \in Lane
    <3>1. l \in Lane /\ Queue2[l] \in Seq(Pid)
      BY <1>1, <1>2, <2>2
    <3>2. Head(Queue2[l]) \in Pid
      BY <2>2, <3>1
    <3>3. QED
      BY <3>1, <3>2
  <2>7. Keep(Queue2[l], Pid \ {h}) = Tail(Queue2[l])
    <3>1. Queue2[l] \in Seq(Pid) /\ NoRepeat(Queue2[l]) /\ Queue2[l] # <<>>
      BY <1>1, <2>2, <2>6 DEF Apart
    <3>2. PICK q \in Seq(Pid) : q = Queue2[l]
      BY <3>1
    <3>3. q # <<>> /\ NoRepeat(q) /\ h = Head(q)
      BY <3>1, <3>2
    <3>4. \A x \in Pid : x \in Pid \ {h} <=> x # Head(q)
      BY <3>3
    <3>5. Keep(q, Pid \ {h}) = Tail(q)
      BY <3>3, <3>4, KeepTail
    <3>6. QED
      BY <3>2, <3>5
  <2> HIDE DEF h
  <2>8. Replay(Place(Queue2, running), Scheduled(h, l)) = Place(Leave(Queue2, l, h), h)
    BY <1>1, <2>6, DispatchReplayed
  <2>9. Place(b.queue, b.cpu) = Place(Leave(Queue2, l, h), h)
    BY <2>3, <2>4, <2>7 DEF Leave
  <2>10. Explains(<<Scheduled(h, l)>>, Place(Queue2, running), Place(b.queue, b.cpu))
    BY <2>8, <2>9, OneExplained
  <2>11. QED
    BY <2>2, <2>3, <2>5, <2>10 DEF b
<1>5. b.dispatched \in BOOLEAN
  BY Phase5Fields
<1>6. QED
  BY <1>3, <1>4, <1>5

\* Phases 1 to 4: the log written before phase 5 leads to the places on which
\* phase 5 decides.
LEMMA Phase5Explained ==
    ASSUME TypeOK, OnePlace
    PROVE  Explains(EventsBefore(AtPhase5), Place(queue, running),
                    Place(AtPhase5.queue, AtPhase5.cpu))
<1> DEFINE a == Place(queue, running)
           m == Place(Queue2, running)
           z == Place(AtPhase5.queue, AtPhase5.cpu)
           u == ArrivalEvents \o ReturnEvents("disk") \o ReturnEvents("tape")
                  \o ReturnEvents("printer")
           v == DispatchEvents(AtPhase5)
<1>1. Explains(u, a, m)
  BY Phase2Explained
<1>2. Explains(v, m, z)
  BY DispatchExplained
<1> HIDE DEF a, m, z, u, v
<1>3. ASSUME NEW d \in Device PROVE Explains(ServiceEvents(d), z, z)
  <2>1. Serviced(d) \in Seq(Pid)
    BY ServicedType
  <2>2. Explains(Serves(Serviced(d), d), z, z)
    BY <2>1, ServicesExplained
  <2>3. QED
    BY <2>2 DEF ServiceEvents, Serviced, Serves
<1>4. /\ Explains(ServiceEvents("disk"), z, z)
      /\ Explains(ServiceEvents("tape"), z, z)
      /\ Explains(ServiceEvents("printer"), z, z)
  BY <1>3 DEF Device
<1>5. Explains(u \o v, a, z)
  BY <1>1, <1>2, ExplainedThrough
<1>6. Explains(u \o v \o ServiceEvents("disk"), a, z)
  BY <1>4, <1>5, ExplainedThrough
<1>7. Explains(u \o v \o ServiceEvents("disk") \o ServiceEvents("tape"), a, z)
  BY <1>4, <1>6, ExplainedThrough
<1>8. Explains(u \o v \o ServiceEvents("disk") \o ServiceEvents("tape")
                 \o ServiceEvents("printer"), a, z)
  BY <1>4, <1>7, ExplainedThrough
<1>9. QED
  BY <1>8, EventsInPhases DEF a, z, u, v

-----------------------------------------------------------------------------
(* The events of phase 5, and the whole log.                                *)

\* What phase 5 adds to the log need only explain what it does to the places
\* it finds.
LEMMA LastExplained ==
    ASSUME TypeOK, OnePlace, NEW e,
           Explains(e, Place(AtPhase5.queue, AtPhase5.cpu), Place(queue', running'))
    PROVE  Explains(EventsBefore(AtPhase5) \o e, Place(queue, running), Place(queue', running'))
BY Phase5Explained, ExplainedThrough

\* The device of the event is the one the process was sent to: it was in no
\* queue before.
LEMMA DeviceOfIo ==
    ASSUME TypeOK, OnePlace, AtPhase5.cpu # NULL,
           NEW d \in Device, NEW e \in Device, NEW n, Block(AtPhase5, e, n),
           AtPhase5.cpu \in Members(queue'[d])
    PROVE  d = e
<1> DEFINE b == AtPhase5
<1>1. /\ b.cpu \in Pid
      /\ b.queue \in [Lane -> Seq(Pid)]
  BY Phase5Type
<1>2. Fits(b.queue, b.cpu, pending \ Arriving, b.status)
  BY Phase5Places
<1>3. b.status[b.cpu] = "RUNNING"
  BY <1>1, <1>2 DEF Fits
<1>4. \A k \in Device : b.cpu \notin Members(b.queue[k])
  BY <1>1, <1>2, <1>3 DEF Fits
<1>5. queue' = [b.queue EXCEPT ![e] = Append(@, b.cpu)]
  BY DEF Block
<1>6. d \in Lane /\ e \in Lane
  BY DEF Lane
<1>7. d # e => queue'[d] = b.queue[d]
  BY <1>1, <1>5, <1>6
<1>8. QED
  BY <1>4, <1>7

\* The log of a step, as long as nothing is dropped from it.
LEMMA StepExplained ==
    ASSUME TypeOK, OnePlace, LogStep
    PROVE  \E e : /\ Log(AtPhase5, e)
                  /\ \E x : e = <<>> \/ e = <<x>>
                  /\ Explains(EventsBefore(AtPhase5) \o e, Place(queue, running),
                              Place(queue', running'))
<1> DEFINE b == AtPhase5
           c == b.cpu
           z == Place(b.queue, c)
<1>1. c # NULL => c \in Pid
  BY Phase5Type
<1>2. b.queue \in [Lane -> Seq(Pid)]
  BY Phase5Type
<1>3. CASE LoggedIdle(b)
  <2>1. Log(b, <<>>) /\ queue' = b.queue /\ c = NULL /\ running' = NULL
    BY <1>3, IdleIsFree DEF LoggedIdle, IdleTick
  <2>2. Explains(<<>>, z, Place(queue', running'))
    BY <2>1, NothingExplained
  <2>3. QED
    BY <2>1, <2>2, LastExplained
<1>4. CASE LoggedRun(b)
  <2>1. Log(b, <<>>) /\ queue' = b.queue /\ running' = c
    BY <1>4 DEF LoggedRun, RunTick
  <2>2. Explains(<<>>, z, Place(queue', running'))
    BY <2>1, NothingExplained
  <2>3. QED
    BY <2>1, <2>2, LastExplained
<1>5. CASE LoggedIo(b)
  <2>1. c # NULL /\ \E d \in Device : \E n : Block(b, d, n)
    <3>1. CASE ScriptedIoTick(b)
      <4>1. c \in Pid /\ ScriptDue(c)
        BY <1>1, <3>1 DEF ScriptedIoTick
      <4>2. NextEntry(c).device \in Device
        BY <4>1, DueEntryType
      <4>3. QED
        BY <3>1, <4>2 DEF ScriptedIoTick
    <3>2. CASE RandomIoTick(b)
      BY <3>2 DEF RandomIoTick, SelectDevice, Device
    <3>3. QED
      BY <1>5, <3>1, <3>2 DEF LoggedIo
  <2>2. PICK f \in Device : \E n : Block(b, f, n)
    BY <2>1
  <2>3. PICK n : Block(b, f, n)
    BY <2>2
  <2>4. PICK d \in Device : /\ c \in Members(queue'[d])
                            /\ Log(b, <<IoStart(c, d, ioRemaining'[c])>>)
    BY <1>5 DEF LoggedIo
  <2>5. d = f
    BY <2>1, <2>3, <2>4, DeviceOfIo
  <2>6. queue' = [b.queue EXCEPT ![d] = Append(@, c)] /\ running' = NULL
    BY <2>3, <2>5 DEF Block
  <2> DEFINE x == IoStart(c, d, ioRemaining'[c])
  <2>7. Replay(z, x) = Place(queue', running')
    <3>1. c \in Pid
      BY <1>1, <2>1
    <3> HIDE DEF c, b
    <3>2. Replay(Place(b.queue, c), IoStart(c, d, ioRemaining'[c])) = Place(Enter(b.queue, d, c), NULL)
      BY <1>2, <3>1, IoStartReplayed
    <3>3. QED
      BY <2>6, <3>2 DEF Enter
  <2>8. Explains(<<x>>, z, Place(queue', running'))
    BY <2>7, OneExplained
  <2>9. QED
    BY <2>4, <2>8, LastExplained
<1>6. CASE LoggedComplete(b)
  <2>1. c # NULL /\ queue' = b.queue /\ running' = NULL /\ Log(b, <<Completed(c)>>)
    BY <1>6 DEF LoggedComplete, CompleteTick, CpuGranted
  <2>2. Replay(z, Completed(c)) = Place(queue', running')
    BY <2>1, CompletedReplayed
  <2>3. Explains(<<Completed(c)>>, z, Place(queue', running'))
    BY <2>2, OneExplained
  <2>4. QED
    BY <2>1, <2>3, LastExplained
<1>7. CASE LoggedPreempt(b)
  <2> DEFINE x == Preempted(c, b.quantumUsed + 1, QuantumOf(c))
  <2>1. /\ c # NULL /\ queue' = [b.queue EXCEPT !["lo"] = Append(@, c)]
        /\ running' = NULL /\ Log(b, <<x>>)
    BY <1>7 DEF LoggedPreempt, PreemptTick, CpuGranted
  <2>2. Replay(z, x) = Place(queue', running')
    <3>1. c \in Pid
      BY <1>1, <2>1
    <3> HIDE DEF c, b
    <3>2. Replay(z, x) = Place(Enter(b.queue, "lo", c), NULL)
      BY <1>2, <3>1, PreemptedReplayed
    <3>3. QED
      BY <2>1, <3>2 DEF Enter
  <2>3. Explains(<<x>>, z, Place(queue', running'))
    BY <2>2, OneExplained
  <2>4. QED
    BY <2>1, <2>3, LastExplained
<1>8. QED
  BY <1>3, <1>4, <1>5, <1>6, <1>7 DEF LogStep

-----------------------------------------------------------------------------
(* How many events a step has.                                              *)

\* A batch of processes of S, each once.
Batch(s, S) == s \in Seq(Pid) /\ NoRepeat(s) /\ Members(s) \subseteq S

\* Batches of different processes make a batch; there are no more than N.
LEMMA BatchJoins ==
    ASSUME NEW s, NEW S, NEW t, NEW T, Batch(s, S), Batch(t, T), S \cap T = {}
    PROVE  Batch(s \o t, S \cup T) /\ Len(s \o t) = Len(s) + Len(t)
<1>1. /\ s \in Seq(Pid) /\ NoRepeat(s) /\ Members(s) \subseteq S
      /\ t \in Seq(Pid) /\ NoRepeat(t) /\ Members(t) \subseteq T
  BY DEF Batch
<1>2. Members(s) \cap Members(t) = {}
  BY <1>1
<1>3. s \o t \in Seq(Pid) /\ Len(s \o t) = Len(s) + Len(t)
  BY <1>1
<1>4. NoRepeat(s \o t)
  BY <1>1, <1>2, ConcatNoRepeat
<1>5. Members(s \o t) = Members(s) \cup Members(t)
  BY <1>1, ConcatMembers
<1>6. QED
  BY <1>1, <1>3, <1>4, <1>5 DEF Batch

LEMMA BatchSmall ==
    ASSUME NEW s, NEW S, Batch(s, S)
    PROVE  Len(s) \in Nat /\ Len(s) <= N
<1>1. s \in Seq(Pid) /\ NoRepeat(s)
  BY DEF Batch
<1> DEFINE n == Len(s)
<1>2. n \in Nat /\ DOMAIN s = 1..n /\ s \in [1..n -> Pid]
  BY <1>1
<1>3. \A i, j \in 1..n : s[i] = s[j] => i = j
  BY <1>1, <1>2 DEF NoRepeat
<1> HIDE DEF n
<1>4. IsFiniteSet(1..n) /\ Cardinality(1..n) = n
  <2>1. 1 > n \/ n - 1 + 1 = n
    BY <1>2
  <2>2. QED
    BY <1>2, FS_Interval
<1>5. IsFiniteSet(Pid) /\ Cardinality(Pid) = N
  BY NAssumption, FS_Interval DEF Pid
<1>6. Cardinality(Pid) < Cardinality(1..n) => \E i, j \in 1..n : i # j /\ s[i] = s[j]
  BY <1>2, <1>4, <1>5, FS_PigeonHole
<1>7. n <= N
  BY <1>2, <1>3, <1>4, <1>5, <1>6, NAssumption
<1>8. QED
  BY <1>2, <1>7 DEF n

LEMMA LogJoins ==
    ASSUME NEW u, NEW v, IsLog(u), IsLog(v)
    PROVE  IsLog(u \o v) /\ Len(u \o v) = Len(u) + Len(v)
<1>1. PICK S, T : u \in Seq(S) /\ v \in Seq(T)
  BY DEF IsLog
<1>2. u \in Seq(S \cup T) /\ v \in Seq(S \cup T)
  BY <1>1
<1>3. u \o v \in Seq(S \cup T) /\ Len(u \o v) = Len(u) + Len(v)
  BY <1>2
<1>4. QED
  BY <1>3 DEF IsLog

\* The events of a device on one tick are of different processes in its queue.
LEMMA DeviceBatch ==
    ASSUME TypeOK, OnePlace, NEW d \in Device
    PROVE  /\ Batch(Finished(d) \o Serviced(d), Members(queue[d]))
           /\ Len(Finished(d) \o Serviced(d)) = Len(Finished(d)) + Len(Serviced(d))
<1> DEFINE F == {p \in Members(queue[d]) : ioRemaining[p] <= 0}
           I == {p \in Members(queue[d]) : ioRemaining[p] > 0}
<1>1. NoRepeat(queue[d])
  BY OnePlaceParts DEF Apart, Lane
<1>2. Batch(Finished(d), F)
  BY <1>1, DeviceSplit DEF Batch
<1>3. InService(d) \in Seq(Pid) /\ NoRepeat(InService(d)) /\ Members(InService(d)) = I
  BY <1>1, DeviceSplit
<1>4. Batch(Serviced(d), I)
  <2>1. Serviced(d) \in Seq(Pid) /\ NoRepeat(Serviced(d))
        /\ Members(Serviced(d)) = I \cap Served(d)
    BY <1>3, KeepSelects DEF Serviced
  <2> HIDE DEF I
  <2>2. QED
    BY <2>1 DEF Batch
<1>5. F \cap I = {}
  <2>1. Members(queue[d]) \subseteq Pid /\ \A p \in Pid : ioRemaining[p] \in Int
    BY DEF TypeOK, Members, Lane
  <2>2. QED
    BY <2>1
<1>6. F \cup I \subseteq Members(queue[d])
  OBVIOUS
<1> HIDE DEF F, I
<1>7. /\ Batch(Finished(d) \o Serviced(d), F \cup I)
      /\ Len(Finished(d) \o Serviced(d)) = Len(Finished(d)) + Len(Serviced(d))
  BY <1>2, <1>4, <1>5, BatchJoins
<1>8. QED
  BY <1>6, <1>7 DEF Batch

\* Over phases 1 to 4 no process has more than one event, but the one that is
\* dispatched.
LEMMA EventsFit ==
    ASSUME TypeOK, OnePlace
    PROVE  /\ IsLog(EventsBefore(AtPhase5))
           /\ Len(EventsBefore(AtPhase5)) \in Nat
           /\ Len(EventsBefore(AtPhase5)) <= N + 1
<1> DEFINE a == Ascending(Arriving)
           z(d) == Finished(d) \o Serviced(d)
           At(d) == Members(queue[d])
<1>1. "disk" \in Device /\ "tape" \in Device /\ "printer" \in Device
      /\ "disk" \in Lane /\ "tape" \in Lane /\ "printer" \in Lane
  BY DEF Device, Lane
<1>2. Batch(a, pending)
  BY ArrivingListed DEF Batch, Arriving
<1>3. /\ Batch(z("disk"), At("disk")) /\ Batch(z("tape"), At("tape"))
      /\ Batch(z("printer"), At("printer"))
      /\ Len(z("disk")) = Len(Finished("disk")) + Len(Serviced("disk"))
      /\ Len(z("tape")) = Len(Finished("tape")) + Len(Serviced("tape"))
      /\ Len(z("printer")) = Len(Finished("printer")) + Len(Serviced("printer"))
  BY <1>1, DeviceBatch
<1>4. /\ pending \cap At("disk") = {}
      /\ (pending \cup At("disk")) \cap At("tape") = {}
      /\ (pending \cup At("disk") \cup At("tape")) \cap At("printer") = {}
  <2>1. \A l, m \in Lane : l # m => Members(queue[l]) \cap Members(queue[m]) = {}
    BY OnePlaceParts DEF Apart
  <2>2. \A p \in pending : \A l \in Lane : p \notin Members(queue[l])
    BY OnePlaceParts DEF Fits
  <2>3. \A l \in Lane : pending \cap Members(queue[l]) = {}
    BY <2>2
  <2> DEFINE D == At("disk")
             T == At("tape")
             P == At("printer")
  <2>4. D \cap T = {} /\ D \cap P = {} /\ T \cap P = {}
    BY <1>1, <2>1
  <2>5. pending \cap D = {} /\ pending \cap T = {} /\ pending \cap P = {}
    BY <1>1, <2>3
  <2> HIDE DEF D, T, P
  <2>6. pending \cap D = {} /\ (pending \cup D) \cap T = {} /\ (pending \cup D \cup T) \cap P = {}
    BY <2>4, <2>5
  <2>7. QED
    BY <2>6 DEF D, T, P
<1> HIDE DEF a, z, At
<1>5. /\ Batch(a \o z("disk"), pending \cup At("disk"))
      /\ Len(a \o z("disk")) = Len(a) + Len(z("disk"))
  BY <1>2, <1>3, <1>4, BatchJoins
<1>6. /\ Batch(a \o z("disk") \o z("tape"), pending \cup At("disk") \cup At("tape"))
      /\ Len(a \o z("disk") \o z("tape")) = Len(a \o z("disk")) + Len(z("tape"))
  BY <1>3, <1>4, <1>5, BatchJoins
<1>7. /\ Batch(a \o z("disk") \o z("tape") \o z("printer"),
               pending \cup At("disk") \cup At("tape") \cup At("printer"))
      /\ Len(a \o z("disk") \o z("tape") \o z("printer"))
           = Len(a \o z("disk") \o z("tape")) + Len(z("printer"))
  BY <1>3, <1>4, <1>6, BatchJoins
<1>8. Len(a \o z("disk") \o z("tape") \o z("printer")) <= N
  BY <1>7, BatchSmall
<1>9. /\ IsLog(ArrivalEvents) /\ Len(ArrivalEvents) = Len(a)
      /\ \A d \in Device : /\ IsLog(ReturnEvents(d)) /\ Len(ReturnEvents(d)) = Len(Finished(d))
                           /\ IsLog(ServiceEvents(d)) /\ Len(ServiceEvents(d)) = Len(Serviced(d))
  <2>1. IsLog(ArrivalEvents) /\ Len(ArrivalEvents) = Len(a)
    <3>1. a \in Seq(Pid)
      BY <1>2 DEF Batch
    <3>2. ArrivalEvents = [i \in DOMAIN a |-> Arrived(a[i])]
      BY DEF ArrivalEvents, EventsOf, a
    <3>3. DOMAIN ArrivalEvents = DOMAIN a
          /\ ArrivalEvents = [i \in DOMAIN a |-> ArrivalEvents[i]]
      BY <3>2
    <3>4. QED
      BY <3>1, <3>3, EventLog
  <2>2. ASSUME NEW d \in Device
        PROVE  IsLog(ReturnEvents(d)) /\ Len(ReturnEvents(d)) = Len(Finished(d))
    <3> DEFINE s == Finished(d)
    <3>1. s \in Seq(Pid)
      BY DeviceSplit
    <3>2. ReturnEvents(d) = [i \in DOMAIN s |-> IoReturn(s[i], d)]
      BY DEF ReturnEvents, EventsOf
    <3>3. DOMAIN ReturnEvents(d) = DOMAIN s
          /\ ReturnEvents(d) = [i \in DOMAIN s |-> ReturnEvents(d)[i]]
      BY <3>2
    <3> HIDE DEF s
    <3>4. IsLog(ReturnEvents(d)) /\ Len(ReturnEvents(d)) = Len(s)
      BY <3>1, <3>3, EventLog
    <3>5. QED
      BY <3>4 DEF s
  <2>3. ASSUME NEW d \in Device
        PROVE  IsLog(ServiceEvents(d)) /\ Len(ServiceEvents(d)) = Len(Serviced(d))
    <3> DEFINE s == Serviced(d)
    <3>1. s \in Seq(Pid)
      BY ServicedType
    <3>2. ServiceEvents(d) = [i \in DOMAIN s |-> IoTick(s[i], d)]
      BY DEF ServiceEvents, EventsOf, Serviced
    <3>3. DOMAIN ServiceEvents(d) = DOMAIN s
          /\ ServiceEvents(d) = [i \in DOMAIN s |-> ServiceEvents(d)[i]]
      BY <3>2
    <3> HIDE DEF s
    <3>4. IsLog(ServiceEvents(d)) /\ Len(ServiceEvents(d)) = Len(s)
      BY <3>1, <3>3, EventLog
    <3>5. QED
      BY <3>4 DEF s
  <2>4. QED
    BY <2>1, <2>2, <2>3
<1>10. IsLog(DispatchEvents(AtPhase5)) /\ Len(DispatchEvents(AtPhase5)) \in {0, 1}
  <2> DEFINE x == Scheduled(AtPhase5.cpu, AtPhase5.from)
  <2>1. DispatchEvents(AtPhase5) = <<x>> \/ DispatchEvents(AtPhase5) = <<>>
    BY DEF DispatchEvents
  <2> HIDE DEF x
  <2>2. <<x>> \in Seq({x}) /\ Len(<<x>>) = 1 /\ <<>> \in Seq({x}) /\ Len(<<>>) = 0
    OBVIOUS
  <2>3. QED
    BY <2>1, <2>2 DEF IsLog
<1> DEFINE g1 == ArrivalEvents \o ReturnEvents("disk")
           g2 == g1 \o ReturnEvents("tape")
           g3 == g2 \o ReturnEvents("printer")
           g4 == g3 \o DispatchEvents(AtPhase5)
           g5 == g4 \o ServiceEvents("disk")
           g6 == g5 \o ServiceEvents("tape")
           g7 == g6 \o ServiceEvents("printer")
<1>11. g7 = EventsBefore(AtPhase5)
  BY EventsInPhases
<1> HIDE DEF g1, g2, g3, g4, g5, g6, g7
<1>12. IsLog(g1) /\ Len(g1) = Len(a) + Len(Finished("disk"))
  <2>1. IsLog(ReturnEvents("disk")) /\ Len(ReturnEvents("disk")) = Len(Finished("disk"))
    BY <1>1, <1>9
  <2>2. QED
    BY <1>9, <2>1, LogJoins DEF g1
<1>13. IsLog(g2) /\ Len(g2) = Len(g1) + Len(Finished("tape"))
  <2>1. IsLog(ReturnEvents("tape")) /\ Len(ReturnEvents("tape")) = Len(Finished("tape"))
    BY <1>1, <1>9
  <2>2. QED
    BY <1>12, <2>1, LogJoins DEF g2
<1>14. IsLog(g3) /\ Len(g3) = Len(g2) + Len(Finished("printer"))
  <2>1. IsLog(ReturnEvents("printer")) /\ Len(ReturnEvents("printer")) = Len(Finished("printer"))
    BY <1>1, <1>9
  <2>2. QED
    BY <1>13, <2>1, LogJoins DEF g3
<1>15. IsLog(g4) /\ Len(g4) = Len(g3) + Len(DispatchEvents(AtPhase5))
  BY <1>10, <1>14, LogJoins DEF g4
<1>16. IsLog(g5) /\ Len(g5) = Len(g4) + Len(Serviced("disk"))
  <2>1. IsLog(ServiceEvents("disk")) /\ Len(ServiceEvents("disk")) = Len(Serviced("disk"))
    BY <1>1, <1>9
  <2>2. QED
    BY <1>15, <2>1, LogJoins DEF g5
<1>17. IsLog(g6) /\ Len(g6) = Len(g5) + Len(Serviced("tape"))
  <2>1. IsLog(ServiceEvents("tape")) /\ Len(ServiceEvents("tape")) = Len(Serviced("tape"))
    BY <1>1, <1>9
  <2>2. QED
    BY <1>16, <2>1, LogJoins DEF g6
<1>18. IsLog(g7) /\ Len(g7) = Len(g6) + Len(Serviced("printer"))
  <2>1. IsLog(ServiceEvents("printer")) /\ Len(ServiceEvents("printer")) = Len(Serviced("printer"))
    BY <1>1, <1>9
  <2>2. QED
    BY <1>17, <2>1, LogJoins DEF g7
<1>19. /\ Len(a) \in Nat
       /\ Len(Finished("disk")) \in Nat /\ Len(Serviced("disk")) \in Nat
       /\ Len(Finished("tape")) \in Nat /\ Len(Serviced("tape")) \in Nat
       /\ Len(Finished("printer")) \in Nat /\ Len(Serviced("printer")) \in Nat
  <2>1. \A d \in Device : Len(Finished(d)) \in Nat /\ Len(Serviced(d)) \in Nat
    <3>1. \A d \in Device : Finished(d) \in Seq(Pid) /\ Serviced(d) \in Seq(Pid)
      BY DeviceSplit, ServicedType
    <3>2. \A s \in Seq(Pid) : Len(s) \in Nat
      OBVIOUS
    <3>3. QED
      BY <3>1, <3>2
  <2>2. Len(a) \in Nat
    BY <1>2, BatchSmall
  <2>3. QED
    BY <1>1, <2>1, <2>2
<1>20. /\ Len(a) + Len(Finished("disk")) + Len(Serviced("disk"))
            + Len(Finished("tape")) + Len(Serviced("tape"))
            + Len(Finished("printer")) + Len(Serviced("printer")) <= N
  BY <1>3, <1>5, <1>6, <1>7, <1>8, <1>19
<1>21. Len(g7) \in Nat /\ Len(g7) <= N + 1
  <2>1. PICK h, f1, f2, f3 : /\ h = Len(a) /\ f1 = Len(Finished("disk"))
                             /\ f2 = Len(Finished("tape")) /\ f3 = Len(Finished("printer"))
    OBVIOUS
  <2>2. PICK s1, s2, s3, k : /\ s1 = Len(Serviced("disk")) /\ s2 = Len(Serviced("tape"))
                             /\ s3 = Len(Serviced("printer"))
                             /\ k = Len(DispatchEvents(AtPhase5))
    OBVIOUS
  <2>3. /\ h \in Nat /\ f1 \in Nat /\ f2 \in Nat /\ f3 \in Nat
        /\ s1 \in Nat /\ s2 \in Nat /\ s3 \in Nat /\ k \in {0, 1}
        /\ h + f1 + s1 + f2 + s2 + f3 + s3 <= N
    BY <1>10, <1>19, <1>20, <2>1, <2>2
  <2>4. Len(g3) = h + f1 + f2 + f3
    BY <1>12, <1>13, <1>14, <2>1
  <2>5. Len(g7) = h + f1 + f2 + f3 + k + s1 + s2 + s3
    BY <1>15, <1>16, <1>17, <1>18, <2>2, <2>4
  <2>6. /\ h + f1 + f2 + f3 + k + s1 + s2 + s3 \in Nat
        /\ h + f1 + f2 + f3 + k + s1 + s2 + s3 <= N + 1
    BY <2>3, NAssumption
  <2>7. QED
    BY <2>5, <2>6
<1>22. QED
  BY <1>11, <1>18, <1>21

\* A log that fits is kept whole.
LEMMA NothingDropped ==
    ASSUME NEW new, IsLog(new), Len(new) <= MaxEvents
    PROVE  AddEvents(<<>>, new) = new
<1>1. PICK S : new \in Seq(S)
  BY DEF IsLog
<1>2. Len(new) \in Nat /\ DOMAIN new = 1..Len(new)
  BY <1>1
<1>3. SubSeq(new, 1, Len(new)) = new
  BY <1>1
<1>4. <<>> \o new = new
  BY <1>1
<1>5. AddEvents(<<>>, new) = <<>> \o SubSeq(new, 1, Len(new))
  <2>1. MaxEvents - Len(<<>>) = MaxEvents
    BY MaxEventsAssumption
  <2>2. (IF Len(new) < MaxEvents THEN Len(new) ELSE MaxEvents) = Len(new)
    <3> DEFINE n == Len(new)
    <3>1. n \in Nat /\ n <= MaxEvents
      BY <1>2
    <3> HIDE DEF n
    <3>2. (IF n < MaxEvents THEN n ELSE MaxEvents) = n
      BY <3>1, MaxEventsAssumption
    <3>3. QED
      BY <3>2 DEF n
  <2>3. QED
    BY <2>1, <2>2 DEF AddEvents
<1>6. QED
  BY <1>3, <1>4, <1>5

LEMMA StepReplayed ==
    ASSUME TypeOK, OnePlace, LogStep, N + 2 <= MaxEvents
    PROVE  Places' = FoldLeft(Replay, Places, events')
<1> DEFINE f == EventsBefore(AtPhase5)
<1>1. PICK e : /\ Log(AtPhase5, e)
               /\ \E x : e = <<>> \/ e = <<x>>
               /\ Explains(f \o e, Place(queue, running), Place(queue', running'))
  BY StepExplained
<1>2. IsLog(e) /\ Len(e) \in {0, 1}
  <2>1. PICK x : e = <<>> \/ e = <<x>>
    BY <1>1
  <2>2. <<x>> \in Seq({x}) /\ Len(<<x>>) = 1 /\ <<>> \in Seq({x}) /\ Len(<<>>) = 0
    OBVIOUS
  <2>3. QED
    BY <2>1, <2>2 DEF IsLog
<1>3. IsLog(f) /\ Len(f) \in Nat /\ Len(f) <= N + 1
  BY EventsFit
<1> HIDE DEF f
<1>4. IsLog(f \o e) /\ Len(f \o e) <= N + 2 /\ Len(f \o e) \in Nat
  <2>1. IsLog(f \o e) /\ Len(f \o e) = Len(f) + Len(e)
    BY <1>2, <1>3, LogJoins
  <2>2. PICK m, n : m = Len(f) /\ n = Len(e)
    OBVIOUS
  <2>3. m \in Nat /\ m <= N + 1 /\ n \in {0, 1}
    BY <1>2, <1>3, <2>2
  <2>4. m + n <= N + 2 /\ m + n \in Nat
    BY <2>3, NAssumption
  <2>5. QED
    BY <2>1, <2>2, <2>4
<1>5. AddEvents(<<>>, f \o e) = f \o e
  <2>1. Len(f \o e) <= MaxEvents
    BY <1>4, NAssumption, MaxEventsAssumption
  <2>2. QED
    BY <1>4, <2>1, NothingDropped
<1>6. events' = f \o e
  BY <1>1, <1>5 DEF Log, f
<1>7. Replayed(Place(queue, running), events') = Place(queue', running')
  BY <1>1, <1>6, ExplainedReplayed
<1>8. Places = Place(queue, running) /\ Places' = Place(queue', running')
  BY DEF Places, Place
<1>9. QED
  BY <1>7, <1>8 DEF Replayed

\* The log of a tick is a complete account of it: replayed event by event, in
\* the order in which sim_step added them, it leads from the queues and the CPU
\* before the step to those after it.  Phases 1 to 4 add at most one event per
\* process and the dispatch, phase 5 at most one more, so that a log of
\* MaxEvents holds every tick of MaxEvents - 2 processes; add_event drops what
\* does not fit, and with it the account.
THEOREM LogReplayed ==
    ASSUME N + 2 <= MaxEvents
    PROVE  LogSpec => LogExplainsStep
<1>1. TypeOK /\ OnePlace /\ [LogStep]_allVars
        => [Places' = FoldLeft(Replay, Places, events')]_allVars
  BY StepReplayed
<1>2. QED
  BY <1>1, LogOfRun, TypeCorrect, PlacesCorrect, PTL DEF LogSpec, LogExplainsStep
=============================================================================
