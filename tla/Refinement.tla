----------------------------- MODULE Refinement -----------------------------
(* Simulation implements CpuContract: the status and the CPU ticks of the  *)
(* processes are those of the contract, the burst is the scenario's.       *)
EXTENDS Simulation

Contract == INSTANCE CpuContract WITH
                burst <- scn.burst, status <- status, service <- cpuTicks

\* Every step of the simulation is a tick the contract allows.  At most one
\* process is RUNNING after it follows from the contract's rules.
ImplementsContract == Contract!ContractSpec
=============================================================================
