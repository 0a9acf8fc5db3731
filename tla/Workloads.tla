----------------------------- MODULE Workloads ------------------------------
(* How the MC modules write down scenarios.                                *)
EXTENDS Simulation

Fixed(n) == [min |-> n, max |-> n]
Between(a, b) == [min |-> a, max |-> b]

\* A script entry with the duration of its device, and one with its own.
At(t, d) == [serviceTick |-> t, device |-> d,
             hasDuration |-> FALSE, duration |-> Fixed(0)]
AtFor(t, d, n) == [serviceTick |-> t, device |-> d,
                   hasDuration |-> TRUE, duration |-> Fixed(n)]

\* The shapes of a process: when it arrives, its burst, its script.
Shape(a, b, s) == [arrival |-> a, burst |-> b, script |-> s]

Modes == {[d \in Device |-> m] : m \in {"concurrent", "queue"}}

\* A scenario from a tuple of shapes, quanta, device modes and a duration.
Build(shapes, hi, lo, modes, dur, io) ==
    [quantum  |-> [HIGH |-> hi, LOW |-> lo],
     pIo      |-> io, pDisk |-> 34, pTape |-> 33,
     mode     |-> modes,
     duration |-> [d \in Device |-> dur],
     arrival  |-> [p \in Pid |-> shapes[p].arrival],
     burst    |-> [p \in Pid |-> shapes[p].burst],
     script   |-> [p \in Pid |-> shapes[p].script]]
=============================================================================
