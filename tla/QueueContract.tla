--------------------------- MODULE QueueContract ----------------------------
(***************************************************************************)
(* What the scheduler relies on from a queue (include/cutesim/queue.h and  *)
(* the unlinking loop of sim_step, phase 2): a sequence of process         *)
(* pointers, first in first out, from which the finished ones can be taken *)
(* without disturbing the others.  Simulation's queues are such sequences; *)
(* LinkedQueue shows that the linked list of the code implements them.     *)
(***************************************************************************)
EXTENDS QueueOrder

CONSTANT Data

VARIABLES
    items,      \* head first
    size        \* what queue_size says

contractVars == <<items, size>>

ContractInit == items = <<>> /\ size = 0

Enqueue(x) == items' = Append(items, x) /\ size' = size + 1

\* queue_enqueue finds no memory: it returns -1 and the queue is as it was.
EnqueueFails == UNCHANGED contractVars

Dequeue == items # <<>> /\ items' = Tail(items) /\ size' = size - 1

\* The elements of T leave, wherever they stand.
Take(T) == items' = Keep(items, Data \ T) /\ size' = Len(items')

ContractNext ==
    \/ \E x \in Data : Enqueue(x)
    \/ EnqueueFails
    \/ Dequeue
    \/ \E T \in SUBSET Data : Take(T)
ContractSpec == ContractInit /\ [][ContractNext]_contractVars
=============================================================================
