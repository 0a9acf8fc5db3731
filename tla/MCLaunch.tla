------------------------------ MODULE MCLaunch ------------------------------
(***************************************************************************)
(* The ways into a run: rr-feedback started from a shell with every short  *)
(* command line, and from the screens of the viewer.                       *)
(***************************************************************************)
EXTENDS LaunchScreen

Number(k, n) == Option("int", k, Num(n))
Share(d, n) == Option("share", d, Num(n))

Options ==
    {Number("arrivalRate", 0), Number("arrivalRate", 30), Number("arrivalInterval", 5000),
     Number("quantumHi", 0), Number("processCount", 2), Number("steps", 7),
     Option("int", "pIo", NumThen(20, "junk")), Option("lambda", "", Num(50)),
     Share("disk", 45), Share("tape", 90), Share("printer", 55), Share("disk", 16301),
     Option("duration", "tape", NumRange(4, 2)), Option("duration", "disk", NumThen(4, "open")),
     Option("service", "", Word("none")), Option("mode", "disk", Word("quick")),
     Option("arrivalMode", "", Word("uniform")), Option("arrivalMode", "", Word("poisson")),
     Option("interactive", "", Num(0)), Option("emit", "", Num(0)),
     Option("serve", "", Num(0)), Option("file", "a", Num(0)), Option("help", "", Num(0))}

\* Every one, two or three options, in every order.
ShortLines == UNION {[1..n -> Options] : n \in 0..3}

-----------------------------------------------------------------------------
\* Numbers that no box of the editor can hold: one in its first row, the others
\* in a second one that has to be scrolled to; and a script that is longer than
\* what a box makes of the burst.
Script ==
    <<Option("mode", "tape", Word("queue")), Option("service", "", NumRange(2, 4)),
      ProcessHeader, Option("arrival", "", Num(-1)),
      Timeline(<<EventFor(Num(0), "printer", Num(4))>>),
      ProcessHeader, Option("burst", "", Num(12000)),
      Timeline(<<Event(Num(1), "disk"), EventFor(Num(3), "tape", NumRange(2, 6))>>)>>
LongScript ==
    <<ProcessHeader, Option("burst", "", Num(12000)), Timeline(<<Event(Num(11000), "disk")>>)>>
RandomFile ==
    <<Number("quantumLo", 9), Number("pIo", 40), Share("disk", 90), Number("processCount", 2),
      Option("duration", "tape", NumRange(3, 7))>>
MixedFile == <<Number("pIo", 30), ProcessHeader, Option("burst", "", Num(2))>>
Unordered == <<ProcessHeader, Timeline(<<Event(Num(2), "disk"), Event(Num(2), "tape")>>)>>
GlobalInProcess == <<ProcessHeader, Number("quantumHi", 1)>>

SomeFiles ==
    {[p \in Path |-> NoFile]} \cup
    {[p \in Path |-> IF p = "a" THEN FileOf(f) ELSE NoFile] :
        f \in {<<>>, Script, RandomFile, MixedFile, Unordered, GlobalInProcess}}
OnScreen == {[p \in Path |-> NoFile]} \cup
            {[p \in Path |-> FileOf(f)] : f \in {Script, LongScript, RandomFile, Unordered}}

SomeTimelines ==
    {<<Event(Num(0), "tape")>>, <<EventFor(Num(4), "disk", NumThen(3, "open"))>>,
     <<EventFor(Num(1), "disk", NumRange(3, 9)), Event(Num(1), "disk")>>}

-----------------------------------------------------------------------------
\* From the shell, the files matter only to a line that names one.
FromShell ==
    /\ ShellInit
    /\ \/ \E i \in DOMAIN argv : argv[i].opt = "file"
       \/ files["a"] = NoFile
    /\ NoUser

SetupInit == (ScreenInit /\ files \in OnScreen) \/ FromShell
SetupSpec == SetupInit /\ [][ScreenNext]_screenVars /\ ScreenFairness
=============================================================================
