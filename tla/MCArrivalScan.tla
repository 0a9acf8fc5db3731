--------------------------- MODULE MCArrivalScan ----------------------------
(* ArrivalScan on five pending processes: every order they can be in, and  *)
(* every set of them due on the tick.                                      *)
EXTENDS ArrivalScan

FiveProcesses == 1..5
=============================================================================
