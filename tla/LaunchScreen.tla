---------------------------- MODULE LaunchScreen ----------------------------
(***************************************************************************)
(* How the viewer comes to start rr-feedback: the overlay with the form of *)
(* a random workload or the choice of a scenario file (LaunchOverlay.qml), *)
(* the editor of such files (ScenarioEditor.qml), and the command line     *)
(* that SimController makes of the choice.  The program started is the one *)
(* of Startup; what comes after its start is the subject of Viewer.        *)
(*                                                                         *)
(* A form is modelled by its properties, not by what the boxes show.       *)
(***************************************************************************)
EXTENDS Startup, SequencesExt

CONSTANTS
    Tried,      \* the numbers the user types or clicks to
    Timelines,  \* the texts the user types for the I/O of a process
    InView,     \* the rows of processes the editor shows without scrolling
    MaxEdits    \* bound: the changes to a form; once it is changed, the other
                \* form is not used

ASSUME TimelinesAssumption == Timelines \subseteq Seq(TimelineEvent)
ASSUME InViewAssumption == InView \in Nat

VARIABLES
    overlay,    \* the properties of LaunchOverlay
    editor,     \* the properties of ScenarioEditor, and of its save dialog
    lastParams, \* m_lastParams of the controller
    edits       \* the changes to each form so far (not in the code)

userVars == <<overlay, editor, lastParams, edits>>
screenVars == <<startVars, userVars>>

\* The properties that both forms have; the printer gets what is left.
FormStart ==
    [num |-> [DefaultConfig.num EXCEPT !["arrivalRate"] = 20, !["lambda"] = 50,
                                       !["arrivalInterval"] = 3],
     service |-> DefaultConfig.service, duration |-> DefaultConfig.duration,
     mode |-> DefaultConfig.mode, arrivalMode |-> "batch",
     share |-> [d \in {"disk", "tape"} |-> IF d = "disk" THEN 34 ELSE 33]]
PrinterShare(form) ==
    LET left == 100 - form.share["disk"] - form.share["tape"]
    IN  IF left > 0 THEN left ELSE 0

\* reset() of the editor.
EditorStart ==
    [open |-> FALSE, form |-> [FormStart EXCEPT !.num["pIo"] = 20],
     procs |-> <<>>, path |-> "", valid |-> TRUE, pendingUse |-> FALSE,
     dialog |-> FALSE]

NoParams == [mode |-> "none"]

NoUser ==
    /\ overlay = [mode |-> "random", form |-> FormStart, path |-> "", summaryOk |-> FALSE]
    /\ editor = EditorStart
    /\ lastParams = NoParams
    /\ edits = [overlay |-> 0, editor |-> 0]
ScreenInit ==
    /\ files \in FileSystems
    /\ Fresh(<<>>)
    /\ phase = "idle"
    /\ NoUser

-----------------------------------------------------------------------------
(* Slips, as in Arguments.                                                 *)

\* Changed text is not validated again.
RevalidatedLater(e) == e

\* The flag of one device for all.
DeviceArgsDisk(form, d) ==
    LET dur == form.duration["disk"]
    IN  <<Option("duration", d, NumRange(dur.min, dur.max)),
          Option("mode", d, Word(form.mode[d]))>>

-----------------------------------------------------------------------------
(* Text from forms.                                                        *)

\* toScn: the keys of a random workload are written only without processes.
ProcessText(p) ==
    <<ProcessHeader, Option("arrival", "", Num(p.arrival)),
      Option("burst", "", Num(p.burst))>>
    \o (IF p.events = <<>> THEN <<>> ELSE <<Timeline(p.events)>>)

NumText(form, k) == Option("int", k, Num(form.num[k]))
ToScn(e) ==
    LET f == e.form
    IN  <<NumText(f, "quantumHi"), NumText(f, "quantumLo"), NumText(f, "seed"),
          Option("duration", "disk", DurText(f.duration["disk"])),
          Option("duration", "tape", DurText(f.duration["tape"])),
          Option("duration", "printer", DurText(f.duration["printer"])),
          Option("mode", "disk", Word(f.mode["disk"])),
          Option("mode", "tape", Word(f.mode["tape"])),
          Option("mode", "printer", Word(f.mode["printer"]))>>
        \o (IF e.procs # <<>> THEN <<>>
            ELSE <<NumText(f, "processCount"), NumText(f, "pIo"),
                   Option("share", "disk", Num(f.share["disk"])),
                   Option("share", "tape", Num(f.share["tape"])),
                   Option("share", "printer", Num(PrinterShare(f))),
                   Option("service", "", DurText(f.service))>>)
        \o FlattenSeq([i \in DOMAIN e.procs |-> ProcessText(e.procs[i])])

\* buildArgs for a form; the port is any that is free.
ArrivalArgs(form) ==
    CASE form.arrivalMode \in {"bernoulli", "geometric"} ->
           <<Option("arrivalMode", "", Word("bernoulli")), NumText(form, "arrivalRate")>>
      [] form.arrivalMode = "poisson" ->
           <<Option("arrivalMode", "", Word("poisson")),
             Option("lambda", "", Num(form.num["lambda"]))>>
      [] form.arrivalMode = "uniform" ->
           <<Option("arrivalMode", "", Word("uniform")), NumText(form, "arrivalInterval")>>
      [] OTHER -> <<>>
DeviceArgs(form, d) ==
    LET dur == form.duration[d]
    IN  <<Option("duration", d, NumRange(dur.min, dur.max)),
          Option("mode", d, Word(form.mode[d]))>>
ServeArg == Option("serve", "=", Num(1))

BuildArgs(params) ==
    IF params.mode = "scenario" THEN <<Option("file", params.path, Num(0)), ServeArg>>
    ELSE LET f == params.form
         IN  <<NumText(f, "processCount"), NumText(f, "quantumHi"),
               NumText(f, "quantumLo"), NumText(f, "pIo"),
               Option("service", "", NumRange(f.service.min, f.service.max)),
               NumText(f, "seed")>>
             \o ArrivalArgs(f)
             \o <<Option("share", "disk", Num(f.share["disk"])),
                  Option("share", "tape", Num(f.share["tape"]))>>
             \o DeviceArgs(f, "disk") \o DeviceArgs(f, "tape") \o DeviceArgs(f, "printer")
             \o <<ServeArg>>

-----------------------------------------------------------------------------
(* Changes to a form.  Each box has its range, and none moves another: the *)
(* upper end of a range does not follow the lower one, nor the tape's      *)
(* share the disk's.                                                       *)

WithNum(form, k, range) == {[form EXCEPT !.num[k] = n] : n \in Tried \cap range}
WithDuration(form, d) ==
    {[form EXCEPT !.duration[d].min = n] : n \in Tried \cap (1..100)}
    \cup {[form EXCEPT !.duration[d].max = n] : n \in Tried \cap (form.duration[d].min..100)}
WithSpans(form) ==
    {[form EXCEPT !.service.min = n] : n \in Tried \cap (1..100)}
    \cup {[form EXCEPT !.service.max = n] : n \in Tried \cap (form.service.min..100)}
    \cup UNION {WithDuration(form, d) : d \in Device}
WithModes(form) == {[form EXCEPT !.mode[d] = m] : d \in Device, m \in IoMode}
WithShares(form) ==
    {[form EXCEPT !.share["disk"] = n] : n \in Tried \cap (0..100)}
    \cup {[form EXCEPT !.share["tape"] = n] : n \in Tried \cap (0..100 - form.share["disk"])}

\* The overlay counts to 20 where the editor counts to 50.
SeedMost == 99999
Changed(form, most) ==
    WithNum(form, "processCount", 1..most) \cup WithNum(form, "quantumHi", 1..most)
    \cup WithNum(form, "quantumLo", 1..most) \cup WithNum(form, "pIo", 0..100)
    \cup WithNum(form, "seed", 0..SeedMost)
    \cup WithSpans(form) \cup WithModes(form) \cup WithShares(form)
WithArrivals(form) ==
    {[form EXCEPT !.arrivalMode = m] : m \in {"batch", "bernoulli", "poisson", "uniform"}}
    \cup WithNum(form, "arrivalRate", 1..100) \cup WithNum(form, "lambda", 1..300)
    \cup WithNum(form, "arrivalInterval", 1..50)

-----------------------------------------------------------------------------
(* The overlay.                                                            *)

OverlayShown == phase = "idle" /\ ~editor.open

EditOverlay ==
    /\ OverlayShown
    /\ overlay.mode = "random"
    /\ edits.overlay < MaxEdits /\ edits.editor = 0
    /\ \E f \in Changed(overlay.form, 20) \cup WithArrivals(overlay.form) :
           overlay' = [overlay EXCEPT !.form = f]
    /\ edits' = [edits EXCEPT !.overlay = @ + 1]
    /\ UNCHANGED <<startVars, editor, lastParams>>

\* refreshSummary, of the file as it is now.
SummaryOk(path, fs) == path # "" /\ Summarize(fs[path]).ok
WithScenario(path, fs) ==
    [overlay EXCEPT !.mode = "scenario", !.path = path, !.summaryOk = SummaryOk(path, fs)]

SelectMode ==
    /\ OverlayShown
    /\ edits.overlay = 0 /\ edits.editor = 0
    /\ overlay' = IF overlay.mode = "random" THEN WithScenario(overlay.path, files)
                  ELSE [overlay EXCEPT !.mode = "random"]
    /\ UNCHANGED <<startVars, editor, lastParams, edits>>

\* A file picked in the dialog, or one of those shipped.
Browse ==
    /\ OverlayShown
    /\ overlay.mode = "scenario"
    /\ \E p \in Path : files[p].exists /\ overlay' = WithScenario(p, files)
    /\ UNCHANGED <<startVars, editor, lastParams, edits>>

CanLaunch == overlay.mode = "random" \/ (overlay.path # "" /\ overlay.summaryOk)
Params ==
    IF overlay.mode = "scenario" THEN [mode |-> "scenario", path |-> overlay.path]
    ELSE [mode |-> "random", form |-> overlay.form]

\* applyParams, which each change of the state of the launch calls with the
\* parameters of the last one while the overlay is up.
Applied(params) ==
    IF params.mode = "scenario" THEN WithScenario(params.path, files)
    ELSE [overlay EXCEPT !.mode = "random", !.form = params.form]

\* launch: the parameters are remembered and the program is started.
Launch ==
    /\ OverlayShown
    /\ CanLaunch
    /\ lastParams' = Params
    /\ overlay' = Applied(Params)
    /\ Start(BuildArgs(Params))
    /\ UNCHANGED <<files, editor, edits>>

\* The overlay comes back after a failure or a reconfiguration.
ShowAgain ==
    /\ phase \in Settled
    /\ lastParams # NoParams
    /\ phase' = "idle"
    /\ overlay' = Applied(lastParams)
    /\ UNCHANGED <<files, argv, ps, job, spawned, spawnTick, editor, lastParams, edits>>

-----------------------------------------------------------------------------
(* The editor.                                                             *)

\* revalidate, which every change of a form or of a process ends with.
Revalidated(e) == [e EXCEPT !.valid = ParseLines(ToScn(e), BridgeDefaults).ok]

\* The row of a process has a box for its arrival and one for its burst.  A box
\* cuts its number to its range when the row is made, and what it changed goes
\* back to the process; rows out of view have not been made.
TimeMost == 9999
InBox(n) == IF n < 0 THEN 0 ELSE IF n > TimeMost THEN TimeMost ELSE n
Boxed(p) == [p EXCEPT !.arrival = InBox(p.arrival), !.burst = InBox(p.burst)]
Viewed(procs) == [i \in DOMAIN procs |-> IF i <= InView THEN Boxed(procs[i]) ELSE procs[i]]

\* openWith: the form is filled from what the parser made of the file; a file
\* that is not valid, like none, leaves an empty form.
FormOf(sc, form) ==
    [form EXCEPT
        !.num = [k \in NumKey |->
                   IF \/ k \in {"quantumHi", "quantumLo", "seed", "pIo"}
                      \/ k = "processCount" /\ sc.procs = <<>>
                   THEN sc.cfg.num[k] ELSE form.num[k]],
        !.service = sc.cfg.service, !.duration = sc.cfg.duration, !.mode = sc.cfg.mode,
        !.share = [d \in {"disk", "tape"} |-> sc.cfg.share[d]]]
OpenWith(e, path) ==
    LET sc == Summarize(files[path])
        loaded == [e EXCEPT !.path = path, !.form = FormOf(sc, e.form),
                            !.procs = Viewed([i \in DOMAIN sc.procs |->
                                         [arrival |-> sc.procs[i].arrival,
                                          burst |-> sc.procs[i].burst,
                                          events |-> TimelineText(sc.procs[i].script)]])]
        blank == [EditorStart EXCEPT !.pendingUse = e.pendingUse]
    IN  Revalidated(IF path # "" /\ sc.ok THEN loaded ELSE blank)

OpenEditor ==
    /\ OverlayShown
    /\ overlay.mode = "scenario"
    /\ editor' = [OpenWith(editor, overlay.path) EXCEPT !.open = TRUE]
    /\ UNCHANGED <<startVars, overlay, lastParams, edits>>

\* Other rows come into view: the list is scrolled, or the window grows.
Scroll ==
    /\ editor.open /\ ~editor.dialog
    /\ \E i \in DOMAIN editor.procs :
           editor' = Revalidated([editor EXCEPT !.procs[i] = Boxed(@)])
    /\ UNCHANGED <<startVars, overlay, lastParams, edits>>

\* What the user can make of a process whose row is there, and of the list of
\* them, in which other rows come into view.
ChangedProc(p) ==
    {[p EXCEPT !.arrival = n] : n \in Tried \cap (0..TimeMost)}
    \cup {[p EXCEPT !.burst = n] : n \in Tried \cap (0..TimeMost)}
    \cup {[p EXCEPT !.events = t] : t \in Timelines}
ChangedProcs(procs) ==
    {Append(procs, [arrival |-> 0, burst |-> 10, events |-> <<>>])}
    \cup {Viewed(RemoveAt(procs, i)) : i \in DOMAIN procs}
    \cup UNION {{[procs EXCEPT ![i] = p] : p \in ChangedProc(Boxed(procs[i]))} :
                    i \in DOMAIN procs}

\* The boxes of a random workload are disabled while there are processes.
ScriptedForm(f, g) ==
    /\ g.service = f.service /\ g.share = f.share
    /\ \A k \in {"processCount", "pIo"} : g.num[k] = f.num[k]

EditEditor ==
    /\ editor.open /\ ~editor.dialog
    /\ edits.editor < MaxEdits /\ edits.overlay = 0
    /\ \/ \E f \in Changed(editor.form, 50) :
             /\ editor.procs # <<>> => ScriptedForm(editor.form, f)
             /\ editor' = Revalidated([editor EXCEPT !.form = f])
       \/ \E ps2 \in ChangedProcs(editor.procs) :
             editor' = Revalidated([editor EXCEPT !.procs = ps2])
    /\ edits' = [edits EXCEPT !.editor = @ + 1]
    /\ UNCHANGED <<startVars, overlay, lastParams>>

\* saveTo, when the file can be opened; then, if asked for, useScenario.
SaveTo(path, use) ==
    /\ files' = [files EXCEPT ![path] = FileOf(ToScn(editor))]
    /\ editor' = [editor EXCEPT !.path = path, !.dialog = FALSE, !.open = ~use,
                                !.pendingUse = @ /\ ~use]
    /\ overlay' = IF use THEN WithScenario(path, files') ELSE overlay
    /\ UNCHANGED <<progVars, lastParams, edits>>

SaveAs ==
    /\ editor.open /\ ~editor.dialog
    /\ editor.valid
    /\ editor' = [editor EXCEPT !.dialog = TRUE]
    /\ UNCHANGED <<startVars, overlay, lastParams, edits>>

\* A file that cannot be written leaves everything as it was.
SaveAndUse ==
    /\ editor.open /\ ~editor.dialog
    /\ editor.valid
    /\ IF editor.path # "" THEN SaveTo(editor.path, TRUE)
       ELSE /\ editor' = [editor EXCEPT !.dialog = TRUE, !.pendingUse = TRUE]
            /\ UNCHANGED <<startVars, overlay, lastParams, edits>>

DialogAccepted ==
    /\ editor.dialog
    /\ \E p \in Path : SaveTo(p, editor.pendingUse)

\* The dialog ends without a file: it was cancelled, or the file could not be
\* written, and then pendingUse stays as it is.
DialogEnds ==
    /\ editor.dialog
    /\ \E use \in {FALSE, editor.pendingUse} :
           editor' = [editor EXCEPT !.dialog = FALSE, !.pendingUse = use]
    /\ UNCHANGED <<startVars, overlay, lastParams, edits>>

CloseEditor ==
    /\ editor.open /\ ~editor.dialog
    /\ editor' = [editor EXCEPT !.open = FALSE]
    /\ UNCHANGED <<startVars, overlay, lastParams, edits>>

User ==
    \/ EditOverlay \/ SelectMode \/ Browse \/ Launch \/ ShowAgain
    \/ OpenEditor \/ Scroll \/ EditEditor \/ SaveAs \/ SaveAndUse
    \/ DialogAccepted \/ DialogEnds \/ CloseEditor

ScreenNext == User \/ (Program /\ UNCHANGED userVars)

\* The program runs whenever it can; the user need not do anything.
ScreenFairness == WF_startVars(Program /\ UNCHANGED userVars)
ScreenSpec == ScreenInit /\ [][ScreenNext]_screenVars /\ ScreenFairness

-----------------------------------------------------------------------------
(* What must hold.                                                         *)

\* The form of a random workload is one the program can run.
SpansFit(form) == \A d \in Device : form.duration[d].min <= form.duration[d].max
SharesFitForm(form) == form.share["disk"] + form.share["tape"] <= 100

\* What a configuration says of a random workload is what the form says.
Shows(cfg, form) ==
    /\ \A k \in {"quantumHi", "quantumLo", "processCount", "pIo", "seed"} :
           cfg.num[k] = form.num[k]
    /\ cfg.arrivalMode = form.arrivalMode
    /\ cfg.arrivalMode = "bernoulli" => cfg.num["arrivalRate"] = form.num["arrivalRate"]
    /\ cfg.arrivalMode = "poisson" => cfg.num["lambda"] = form.num["lambda"]
    /\ cfg.arrivalMode = "uniform" => cfg.num["arrivalInterval"] = form.num["arrivalInterval"]
    /\ cfg.service = form.service /\ cfg.duration = form.duration /\ cfg.mode = form.mode
    /\ \A d \in {"disk", "tape"} : cfg.share[d] = form.share[d]
    /\ cfg.share["printer"] = PrinterShare(form)

\* Launching the form runs what it says, the printer's share included that no
\* flag carries, and the program refuses it only if a range is upside down or
\* disk and tape alone exceed 100: the boxes allow both, in two edits.
FormIsRun ==
    lastParams.mode = "random" =>
        /\ phase \in {"spawning", "running"} => Shows(job.cfg, lastParams.form)
        /\ phase \in Settled \ {"running"} =>
              phase = "usage" /\ ~(SpansFit(lastParams.form) /\ SharesFitForm(lastParams.form))

\* "a scenario that validates here always launches" (ScenarioEditor.qml:9-11):
\* a file that the overlay lets the user launch is read by the program without
\* error, though it may have been saved again since the overlay looked at it.
ScenarioLaunches ==
    lastParams.mode = "scenario" => phase \notin {"help", "usage", "failed"}

\* What a parsed file says besides its processes: shares matter if there is
\* random I/O, the generator's keys if there are no processes.
SettingsOf(sc) ==
    LET random == sc.procs = <<>>
        keys == {"quantumHi", "quantumLo", "seed", "pIo"}
                    \cup (IF random THEN {"processCount"} ELSE {})
    IN  [num |-> [k \in keys |-> sc.cfg.num[k]],
         duration |-> sc.cfg.duration, mode |-> sc.cfg.mode,
         share |-> IF sc.cfg.num["pIo"] > 0
                   THEN <<sc.cfg.share["disk"], sc.cfg.share["tape"]>> ELSE <<>>,
         service |-> IF random THEN <<sc.cfg.service>> ELSE <<>>]

\* The processes q are the processes p, but for what no box can hold.
SameInBoxes(p, q) ==
    /\ Len(q) = Len(p)
    /\ \A i \in DOMAIN p :
           /\ q[i].script = p[i].script
           /\ p[i].arrival \in 0..TimeMost => q[i].arrival = p[i].arrival
           /\ p[i].burst \in 0..TimeMost => q[i].burst = p[i].burst

\* What rr-feedback makes of a file without other options.
Launched(file) == LoadScenario(file, Validate(ParserStart).cfg)

\* A valid file opened in the editor and saved again describes the same run,
\* whatever the file left out (the defaults of the bridge are those of the
\* program), with two exceptions: random I/O on top of scripted processes is
\* lost, which the form does not show, and an arrival or a burst that no box can
\* hold is cut.  Only a burst that is cut can make the editor refuse the file,
\* where the script goes on behind it.
OpeningLosesNothing ==
    OverlayShown /\ overlay.mode = "scenario" /\ overlay.path # "" =>
        LET before == Launched(files[overlay.path])
            after == Launched(FileOf(ToScn(OpenWith(editor, overlay.path))))
        IN  before.ok /\ (before.procs # <<>> => before.cfg.num["pIo"] = 0) =>
                /\ SettingsOf(after) = SettingsOf(before)
                /\ SameInBoxes(before.procs, after.procs)
                /\ (\A i \in DOMAIN before.procs : before.procs[i].burst <= TimeMost) => after.ok

\* "the binary assigns the remainder to the printer, so the three always sum to
\* 100" (SimController.cpp:101-102): no split that the form can show is refused.
SplitCompleted ==
    lastParams.mode = "random" /\ SpansFit(lastParams.form) => phase # "usage"
=============================================================================
