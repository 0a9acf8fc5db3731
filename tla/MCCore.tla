------------------------------- MODULE MCCore -------------------------------
(***************************************************************************)
(* The core on small workloads: Simulation with its log and views          *)
(* (TickLog), the slices of Feedback and the contract it implements        *)
(* (Refinement), every step seen by all of them at once.                   *)
(***************************************************************************)
EXTENDS Workloads, TickLog, Feedback, Refinement

CONSTANT Horizon        \* ticks of a workload that may never end

-----------------------------------------------------------------------------
\* Scripted workloads: no random I/O, every burst finite.
ScriptedShapes ==
    {Shape(0, 2, <<>>), Shape(1, 3, <<>>),
     Shape(0, 3, <<At(0, "disk"), AtFor(2, "printer", 1)>>),
     Shape(0, 2, <<At(1, "disk")>>),
     Shape(1, 3, <<AtFor(1, "tape", 2), At(2, "disk")>>),
     Shape(2, 1, <<AtFor(0, "disk", 3)>>),
     Shape(0, 2, <<AtFor(0, "tape", 0), At(1, "tape")>>)}

ScriptedScenarios ==
    {Build(sh, hi, lo, m, dur, 0) :
        sh \in [Pid -> ScriptedShapes], hi \in {1, 2}, lo \in {1, 2},
        m \in Modes, dur \in {Fixed(1), Between(2, 3)}}

\* Long bursts: processes are preempted, leave for I/O with part of a quantum
\* used, and come back to either queue.
SlicedShapes ==
    {Shape(0, 6, <<>>),
     Shape(0, 7, <<At(1, "disk"), At(4, "tape")>>),
     Shape(1, 6, <<At(3, "printer")>>)}

SlicedScenarios ==
    {Build(sh, q[1], q[2], [d \in Device |-> "concurrent"], dur, 0) :
        sh \in [Pid -> SlicedShapes],
        q \in {<<2, 3>>, <<3, 1>>, <<1, 2>>}, dur \in {Fixed(1), Between(2, 3)}}

\* Random I/O on top of scripts, bursts that never end, I/O of no ticks: a
\* process can return, run and leave again within one tick.  Two processes
\* play; the others arrive after the horizon.
RandomShapes == {Shape(0, 2, <<>>), Shape(1, 0, <<At(1, "disk")>>)}

RandomScenarios ==
    {Build([p \in Pid |-> IF p <= 2 THEN sh[p] ELSE Shape(Horizon + 1, 1, <<>>)],
           hi, 2, m, Between(0, 1), io) :
        sh \in [1..2 -> RandomShapes], hi \in {1, 2}, m \in Modes, io \in {50, 100}}

\* Workloads no driver would refuse and that never end: a process without a
\* burst, one whose arrival lies before the first tick, an I/O on every tick.
\* All the rest of the work fits in the horizon, so that nothing else keeps
\* them from being done.
Endlessly(sh, m, io) ==
    Build([p \in Pid |-> IF p = 1 THEN sh ELSE Shape(p - 2, 1, <<>>)],
          1, 2, m, Fixed(1), io)

EndlessScenarios ==
    {Endlessly(sh, m, 0) :
        sh \in {Shape(0, 0, <<At(2, "tape")>>), Shape(-1, 2, <<>>)}, m \in Modes}
    \cup {Endlessly(Shape(0, 1, <<>>), m, 100) : m \in Modes}

CoreScenarios == ScriptedScenarios \cup SlicedScenarios \cup RandomScenarios
                    \cup EndlessScenarios

-----------------------------------------------------------------------------
\* The driver: sim_step while sim_is_done says no, with every observer.  Only
\* workloads that need not end are cut at the horizon.  The fairness is that of
\* the loop, of which only the counting of ticks need be said.
CoreVars == <<allVars, slice>>
CoreInit == LogInit /\ NoSlice
Running == ~IsDone /\ tick < (IF Finite THEN MaxTick ELSE Horizon)
CoreStep == Running /\ LogStep /\ Dispatch
CoreSpec ==
    /\ CoreInit
    /\ [][CoreStep]_CoreVars
    /\ WF_tick(Running /\ tick' = tick + 1)
=============================================================================
