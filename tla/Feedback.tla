------------------------------ MODULE Feedback ------------------------------
(***************************************************************************)
(* The Round Robin with Feedback rules of the README, on the steps of      *)
(* Simulation.  A slice is the stretch from the dispatch of a process to   *)
(* the moment it leaves the CPU; the history variable slice remembers      *)
(* where the current one began, which the code does not keep.              *)
(***************************************************************************)
EXTENDS Simulation

VARIABLE slice      \* the last dispatch: the queue it served, the service so far

sliceVars == <<vars, slice>>

NoSlice == slice = [from |-> "hi", service |-> 0]
Dispatch ==
    slice' = IF AtPhase5.dispatched
             THEN [from |-> AtPhase5.from, service |-> cpuTicks[AtPhase5.cpu]]
             ELSE slice

SliceInit == Init /\ NoSlice
SliceStep == Step /\ Dispatch
SliceSpec == SliceInit /\ [][SliceStep]_sliceVars

-----------------------------------------------------------------------------
\* What the process that leaves or holds the CPU has consumed in its slice.
Consumed(p) == cpuTicks[p] - slice.service

\* A process is preempted in this step: it loses the CPU for the lo queue.
PreemptedNow(p) ==
    /\ AtPhase5.cpu = p
    /\ cpuTicks'[p] > cpuTicks[p]
    /\ status'[p] = "READY"

AtLeastOne(n) == IF n > 0 THEN n ELSE 1

\* A slice is cut when the process has consumed its whole quantum in it, and
\* not before: ticks used by the process that held the CPU earlier, or in an
\* earlier slice of the same process, do not count.  quantum_used survives a
\* departure for I/O and is reset by the next dispatch only.
SliceIsWholeQuantum ==
    [][\A p \in Pid : PreemptedNow(p) =>
          Consumed(p)' = AtLeastOne(QuantumOf(p))]_sliceVars

\* A process that goes on running has quantum left, and quantum_used is what
\* it has consumed since it was dispatched.
QuantumUsedIsSlice ==
    running # NULL =>
        /\ quantumUsed = Consumed(running)
        /\ quantumUsed < QuantumOf(running)

\* A process that was never demoted has never used up a quantum: each I/O it
\* started, and the present, ended a stretch of less than quantum_hi ticks.
\* (A demoted process stays LOW: no rule of the code raises it again.)
Undemoted ==
    \A p \in Pid : priority[p] = "HIGH" /\ status[p] # "DONE" /\ scn.quantum["HIGH"] > 0
        => cpuTicks[p] <= (ioCount[p] + 1) * (scn.quantum["HIGH"] - 1)

\* "a process re-scheduled from lo_queue runs for quantum_lo ticks"
\* (tests/simulation/test_round_robin.cpp), for every way into the lo queue:
\* a slice that was dispatched from lo is cut at quantum_lo.
LoSliceIsQuantumLo ==
    [][\A p \in Pid : PreemptedNow(p) /\ slice'.from = "lo" =>
          Consumed(p)' = AtLeastOne(scn.quantum["LOW"])]_sliceVars
=============================================================================
