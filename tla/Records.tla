------------------------------ MODULE Records -------------------------------
(***************************************************************************)
(* The records that the parts of cutesim hand to each other: devices,      *)
(* durations and I/O scripts (include/cutesim/config.h, process.h), with   *)
(* what the parser of scenario files guarantees of a script.               *)
(***************************************************************************)
EXTENDS Integers, Sequences

Device == {"disk", "tape", "printer"}
Duration == [min : Int, max : Int]
ScriptedIO == [serviceTick : Int, device : Device,
               hasDuration : BOOLEAN, duration : Duration]

\* validate() of scenario.c: the service ticks of a script increase, and stay
\* below the burst when there is one.
ValidScript(script, burst) ==
    \A j \in DOMAIN script :
        /\ script[j].serviceTick > (IF j = 1 THEN -1 ELSE script[j - 1].serviceTick)
        /\ burst > 0 => script[j].serviceTick < burst

\* rng_range: any value of the range; the lower bound if the range is empty.
SampleDuration(d) == IF d.min >= d.max THEN {d.min} ELSE d.min..d.max
=============================================================================
