----------------------------- MODULE QueueOrder -----------------------------
(***************************************************************************)
(* The two orders the simulator's queues are built from: a batch of        *)
(* arrivals enters the ready queue in increasing creation_seq              *)
(* (sim_step, phase 1), and the processes whose I/O is over leave a device *)
(* queue in queue order (sim_step, phase 2).                               *)
(*                                                                         *)
(* Both are written with CHOOSE over positions, not with the recursive     *)
(* operators of the community modules, so that QueueOrderProofs can reason *)
(* about them.  ArrivalScan and LinkedQueue show that the loops of the     *)
(* code compute them.                                                      *)
(***************************************************************************)
EXTENDS Integers, FiniteSets, Sequences

\* The place of x in the increasing order of S: 1 for the smallest element.
Rank(S, x) == Cardinality({y \in S : y <= x})

\* The elements of the finite set S of integers, in increasing order.
Ascending(S) ==
    [k \in 1..Cardinality(S) |-> CHOOSE x \in S : Rank(S, x) = k]

\* The sequence q without the elements outside T; the order is kept.
Keep(q, T) ==
    LET kept == Ascending({i \in DOMAIN q : q[i] \in T})
    IN  [k \in DOMAIN kept |-> q[kept[k]]]

\* The elements of the sequence q, as a set.
Members(q) == {q[i] : i \in DOMAIN q}
=============================================================================
