---------------------------- MODULE ArrivalScan -----------------------------
(***************************************************************************)
(* Phase 1 of sim_step (src/simulation.c) on its arrays, statement by      *)
(* statement: the processes that arrive on this tick are taken out of      *)
(* pending[] by moving the last element into the hole, collected in        *)
(* arrived[], and sorted by insertion on creation_seq.  Simulation says of *)
(* all this only: the arriving ones enter hi_queue in increasing order and *)
(* leave the pending set.                                                  *)
(*                                                                         *)
(* Indices are those of the code, from 0; arrays are functions.            *)
(***************************************************************************)
EXTENDS QueueOrder

CONSTANTS
    Proc,       \* the pending processes, as their creation_seq
    Junk        \* what malloc leaves in the scratch array

ASSUME ProcAssumption == Proc \subseteq Int /\ IsFiniteSet(Proc)

Size == Cardinality(Proc)

VARIABLES
    due,        \* the processes whose arrival_tick is this tick
    pc,         \* "scan", the outer and the inner loop of the sort, "done"
    pending,    \* s->pending[]
    count,      \* s->pending_count
    arrived, n, \* the scratch array and n_arrived
    i, j, key   \* the loop variables

scanVars == <<due, pc, pending, count, arrived, n, i, j, key>>

\* The first k elements of the array f.
Prefix(f, k) == {f[m] : m \in 0..(k - 1)}

\* Earlier ticks have left the pending processes in any order.
Init ==
    /\ due \in SUBSET Proc
    /\ pc = "scan"
    /\ pending \in {f \in [0..(Size - 1) -> Proc] : Prefix(f, Size) = Proc}
    /\ count = Size
    /\ arrived = [m \in 0..(Size - 1) |-> Junk]
    /\ n = 0
    /\ i = 0
    /\ j = 0
    /\ key = Junk

-----------------------------------------------------------------------------
(* Slips (README, "Mutations").                                            *)

\* The index moved on past the element that has just filled the hole.
ScanOnAlways(p) == i + 1

\* The first place never looked at.
ShiftsShort == j > 0 /\ arrived[j] > key

-----------------------------------------------------------------------------
(* The scan.                                                               *)

\* Where the scan goes on after process p: the hole is looked at again.
ScanOn(p) == IF p \in due THEN i ELSE i + 1

Scan ==
    /\ pc = "scan"
    /\ i < count
    /\ LET p == pending[i]
       IN  /\ IF p \in due
              THEN /\ arrived' = [arrived EXCEPT ![n] = p]
                   /\ n' = n + 1
                   /\ pending' = [pending EXCEPT ![i] = pending[count - 1]]
                   /\ count' = count - 1
              ELSE UNCHANGED <<arrived, n, pending, count>>
           /\ i' = ScanOn(p)
    /\ UNCHANGED <<due, pc, j, key>>

ScanEnds ==
    /\ pc = "scan"
    /\ i >= count
    /\ pc' = "outer"
    /\ i' = 1
    /\ UNCHANGED <<due, pending, count, arrived, n, j, key>>

-----------------------------------------------------------------------------
(* The insertion sort.                                                     *)

Outer ==
    /\ pc = "outer"
    /\ i < n
    /\ key' = arrived[i]
    /\ j' = i - 1
    /\ pc' = "inner"
    /\ UNCHANGED <<due, pending, count, arrived, n, i>>

\* The condition of the inner loop.
Shifts == j >= 0 /\ arrived[j] > key

Inner ==
    /\ pc = "inner"
    /\ Shifts
    /\ arrived' = [arrived EXCEPT ![j + 1] = arrived[j]]
    /\ j' = j - 1
    /\ UNCHANGED <<due, pc, pending, count, n, i, key>>

InnerEnds ==
    /\ pc = "inner"
    /\ ~Shifts
    /\ arrived' = [arrived EXCEPT ![j + 1] = key]
    /\ i' = i + 1
    /\ pc' = "outer"
    /\ UNCHANGED <<due, pending, count, n, j, key>>

OuterEnds ==
    /\ pc = "outer"
    /\ i >= n
    /\ pc' = "done"
    /\ UNCHANGED <<due, pending, count, arrived, n, i, j, key>>

Next == Scan \/ ScanEnds \/ Outer \/ Inner \/ InnerEnds \/ OuterEnds
Spec == Init /\ [][Next]_scanVars

-----------------------------------------------------------------------------
(* Properties.                                                             *)

\* The arrays are never read or written outside their bounds, and the moved
\* elements are neither lost nor doubled: at every point of the scan the
\* pending array and the scratch array hold each process once.
ScanKeepsAll ==
    pc = "scan" =>
        /\ 0 <= i /\ i <= count /\ count + n = Size
        /\ Prefix(pending, count) \cup Prefix(arrived, n) = Proc
        /\ Prefix(pending, i) \cap due = {}
        /\ Prefix(arrived, n) \subseteq due

\* When phase 1 is over the scratch array lists exactly the arrivals of the
\* tick, in increasing creation_seq, and the others are still pending:
\* Ascending(Arriving) and pending \ Arriving of Simulation.
ArrivalsInOrder ==
    pc = "done" =>
        /\ [k \in 1..n |-> arrived[k - 1]] = Ascending(due)
        /\ count = Cardinality(Proc \ due)
        /\ Prefix(pending, count) = Proc \ due
=============================================================================
