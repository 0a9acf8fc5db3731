---------------------------- MODULE CpuContract -----------------------------
(***************************************************************************)
(* What the simulation library promises of one tick, whatever its queues   *)
(* and devices do: the contract a user of Simulation may rely on.          *)
(*                                                                         *)
(*   - one tick of CPU goes to one process, or to none;                    *)
(*   - a process that has the CPU keeps it until it has used a tick, or    *)
(*     leaves it for I/O;                                                  *)
(*   - a process is done in the very tick that completes its burst, and    *)
(*     never receives anything again;                                      *)
(*   - the transitions are those of process.h, several of which may happen *)
(*     to one process within a tick.                                       *)
(*                                                                         *)
(* Simulation implements it (module Refinement).                           *)
(***************************************************************************)
EXTENDS Integers

CONSTANT Pid

VARIABLES
    burst,      \* the CPU ticks a process needs; 0 when it never ends
    status,
    service     \* the CPU ticks a process has received

contractVars == <<burst, status, service>>

Complete(p, s) == burst[p] > 0 /\ s >= burst[p]

\* The statuses process p may have after a tick in which it worked, or not.
AfterWork(p) ==
    IF Complete(p, service[p] + 1) THEN {"DONE"} ELSE {"RUNNING", "READY"}
AfterRest(p) ==
    CASE status[p] = "READY"   -> {"READY", "BLOCKED"}
      [] status[p] = "RUNNING" -> {"BLOCKED"}
      [] status[p] = "BLOCKED" -> {"BLOCKED", "READY"}
      [] OTHER                 -> {status[p]}

ContractInit ==
    /\ burst \in [Pid -> Int]
    /\ status = [p \in Pid |-> "READY"]
    /\ service = [p \in Pid |-> 0]

\* A tick in which the processes of W work: one process, or none.
Tick(W) ==
    /\ \A p \in W : status[p] # "DONE"
    /\ service' = [p \in Pid |-> IF p \in W THEN service[p] + 1 ELSE service[p]]
    /\ DOMAIN status' = Pid
    /\ \A p \in Pid : status'[p] \in (IF p \in W THEN AfterWork(p) ELSE AfterRest(p))
    /\ UNCHANGED burst

ContractNext == \E W \in {{}} \cup {{p} : p \in Pid} : Tick(W)
ContractSpec == ContractInit /\ [][ContractNext]_contractVars
=============================================================================
