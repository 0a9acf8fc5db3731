---------------------------- MODULE LinkedQueue -----------------------------
(***************************************************************************)
(* struct Queue (src/queue.c): a singly linked list with a head, a tail    *)
(* and a size, on a heap of nodes; and the loop of sim_step, phase 2, that *)
(* reaches into it to unlink the finished processes.                       *)
(*                                                                         *)
(* malloc may fail at any time; it returns any node that is not in use.    *)
(* free leaves the contents of the node behind, as the build does.         *)
(***************************************************************************)
EXTENDS QueueOrder, SequencesExt

CONSTANTS
    Data,       \* what the data pointers point to
    Node        \* the addresses malloc can return
NIL == "NULL"

ASSUME NodeAssumption == NIL \notin Node /\ IsFiniteSet(Node)

VARIABLES
    head, tail, size,
    data, next,     \* the fields of every node, in use or not
    used            \* the nodes handed out by malloc and not freed

queueVars == <<head, tail, size, data, next, used>>
list == [head |-> head, tail |-> tail, size |-> size, next |-> next, used |-> used]

Init ==
    /\ head = NIL /\ tail = NIL /\ size = 0
    /\ data \in [Node -> Data]
    /\ next = [n \in Node |-> NIL]
    /\ used = {}

-----------------------------------------------------------------------------
(* Slips (README, "Mutations").                                            *)

\* The tail left alone when the last node is unlinked, and when a dequeue
\* empties the queue.
UnlinkForgetsTail(l, prev, cur) ==
    [head |-> IF prev = NIL THEN l.next[cur] ELSE l.head,
     tail |-> l.tail,
     size |-> l.size - 1,
     next |-> IF prev = NIL THEN l.next ELSE [l.next EXCEPT ![prev] = l.next[cur]],
     used |-> l.used \ {cur}]
TailKeptWhenEmpty(h, t) == t

-----------------------------------------------------------------------------
(* queue_enqueue and queue_dequeue.                                        *)

Enqueue(x) ==
    \E n \in Node \ used :
        /\ used' = used \cup {n}
        /\ data' = [data EXCEPT ![n] = x]
        /\ next' = IF tail = NIL THEN [next EXCEPT ![n] = NIL]
                                 ELSE [next EXCEPT ![n] = NIL, ![tail] = n]
        /\ head' = IF tail = NIL THEN n ELSE head
        /\ tail' = n
        /\ size' = size + 1

\* No memory.
EnqueueFails == UNCHANGED queueVars

TailAfterDequeue(h, t) == IF h = NIL THEN NIL ELSE t

Dequeue ==
    /\ head # NIL
    /\ head' = next[head]
    /\ tail' = TailAfterDequeue(next[head], tail)
    /\ used' = used \ {head}
    /\ size' = size - 1
    /\ UNCHANGED <<data, next>>

-----------------------------------------------------------------------------
(* Phase 2 of sim_step.                                                    *)

\* The node a walk of k steps from the head ends on.
Walk(l) ==
    LET at[k \in 0..Cardinality(Node)] ==
            IF k = 0 THEN l.head
            ELSE IF at[k - 1] = NIL THEN NIL ELSE l.next[at[k - 1]]
    IN  at

\* The nodes of the list, in order; a walk that does not end is cut.
Chain(l) ==
    LET at == Walk(l)
        steps == {k \in DOMAIN at : at[k] # NIL}
    IN  [i \in 1..Cardinality(steps) |-> at[i - 1]]

\* The node cur, whose predecessor is prev, leaves the list and is freed.
Unlink(l, prev, cur) ==
    [head |-> IF prev = NIL THEN l.next[cur] ELSE l.head,
     tail |-> IF l.next[cur] = NIL THEN prev ELSE l.tail,
     size |-> l.size - 1,
     next |-> IF prev = NIL THEN l.next ELSE [l.next EXCEPT ![prev] = l.next[cur]],
     used |-> l.used \ {cur}]

\* The inner loop: the first node that holds x is unlinked.
UnlinkFirst(l, x) ==
    LET chain == Chain(l)
        holding == {i \in DOMAIN chain : data[chain[i]] = x}
        i == CHOOSE k \in holding : \A m \in holding : k <= m
    IN  IF holding = {} THEN l
        ELSE Unlink(l, IF i = 1 THEN NIL ELSE chain[i - 1], chain[i])

\* The outer loop, over the elements to unlink.
UnlinkAll(l, finished) ==
    LET after[k \in 0..Len(finished)] ==
            IF k = 0 THEN l ELSE UnlinkFirst(after[k - 1], finished[k])
    IN  after[Len(finished)]

\* The whole loop: the elements of T are collected in queue order, then
\* unlinked one by one.
Take(T) ==
    /\ size # 0
    /\ LET chain == Chain(list)
           finished == Keep([i \in DOMAIN chain |-> data[chain[i]]], T)
           l == UnlinkAll(list, finished)
       IN  /\ head' = l.head
           /\ tail' = l.tail
           /\ size' = l.size
           /\ next' = l.next
           /\ used' = l.used
    /\ UNCHANGED data

Next ==
    \/ \E x \in Data : Enqueue(x)
    \/ EnqueueFails
    \/ Dequeue
    \/ \E T \in SUBSET Data : Take(T)
Spec == Init /\ [][Next]_queueVars

-----------------------------------------------------------------------------
(* Properties.                                                             *)

Nodes == Members(Chain(list))
Contents == [i \in DOMAIN Chain(list) |-> data[Chain(list)[i]]]

\* The list is well formed after every operation: every node in use is on it
\* and every node on it is in use (nothing leaks, nothing dangles), it has as
\* many nodes as size says, and the tail is its last node, NULL exactly when
\* the list is empty.  An enqueue writes through the tail, so a tail left on a
\* freed node is a write to freed memory at some later call.
WellFormed ==
    /\ Nodes = used
    /\ size = Len(Chain(list))
    /\ tail = (IF Chain(list) = <<>> THEN NIL ELSE Last(Chain(list)))
    /\ tail # NIL => next[tail] = NIL

Contract == INSTANCE QueueContract WITH items <- Contents, size <- size

\* The linked list is a first-in first-out queue, and unlinking takes exactly
\* the finished processes and leaves the order of the others.
ImplementsQueue == Contract!ContractSpec
=============================================================================
