---------------------------- MODULE ScenarioFile ----------------------------
(***************************************************************************)
(* The parser of scenario files (src/scenario.c), and what its two users   *)
(* make of it: main of rr-feedback and the ScenarioBridge of the viewer.   *)
(*                                                                         *)
(* A file is a sequence of lines, without the blank ones and the comments. *)
(* A line names what it sets as an option of the command line does, and    *)
(* has the text of the value, or the events of an I/O timeline; opt "?"    *)
(* is a line that is not allowed: an unknown key or block, or no "=".      *)
(***************************************************************************)
EXTENDS Arguments

ProcessHeader == [opt |-> "[process]", key |-> ""]
Timeline(events) == [opt |-> "io", key |-> "", events |-> events]

\* An event "tick:device" or "tick:device:duration".
Event(t, d) == [tick |-> t, device |-> d, hasDuration |-> FALSE, duration |-> Num(0)]
EventFor(t, d, dur) == [Event(t, d) EXCEPT !.hasDuration = TRUE, !.duration = dur]

\* Any line that is neither blank nor a comment.
TimelineEvent == [tick : Text, device : STRING, hasDuration : BOOLEAN, duration : Text]
ScenarioLine ==
    {o \in CommandOption : o.opt # "io"} \cup {ProcessHeader} \cup
    [opt : {"io"}, key : {""}, events : Seq(TimelineEvent)]

\* struct Scenario, with the verdict of the parser.
ScenarioProcess == [arrival : Int, burst : Int, script : Seq(ScriptedIO)]
Scenario == [ok : BOOLEAN, cfg : SimConfig, procs : Seq(ScenarioProcess)]
Parsed(ok, cfg, procs) == [ok |-> ok, cfg |-> cfg, procs |-> procs]
Reject(sc) == [sc EXCEPT !.ok = FALSE]

-----------------------------------------------------------------------------
(* Slips, as in Arguments.                                                 *)

\* The text of a duration without its upper end.
DurTextLow(d) == Num(d.min)

-----------------------------------------------------------------------------
(* Values.                                                                 *)

\* range_to_duration looks for the first dash, so that no duration begins
\* with a negative number; what comes after the dash is any number.
DurationOk(t) == t.head /\ t.lo >= 0 /\ t.tail \in {"end", "range"}
RangeToDuration(t) == Span(AsInt(t.lo), AsInt(IF t.tail = "range" THEN t.hi ELSE t.lo))

EventOk(e) ==
    /\ Strict(e.tick)
    /\ e.device \in Device
    /\ e.hasDuration => DurationOk(e.duration)
ParseIoEvent(e) ==
    [serviceTick |-> AsInt(e.tick.lo), device |-> e.device,
     hasDuration |-> e.hasDuration,
     duration |-> IF e.hasDuration THEN RangeToDuration(e.duration) ELSE Span(0, 0)]

-----------------------------------------------------------------------------
(* Lines.                                                                  *)

\* The numbers a file may set.
FileKey == {"quantumHi", "quantumLo", "processCount", "pIo", "seed"}

\* Outside any process.  No value is checked against another, or at all.
ApplyGlobal(sc, ln) ==
    LET t == ln.text
        d == RangeToDuration(t)
    IN  CASE ln.opt = "int" /\ ln.key \in FileKey /\ Strict(t) ->
               [sc EXCEPT !.cfg.num[ln.key] = AsInt(t.lo)]
          [] ln.opt = "share" /\ Strict(t) -> [sc EXCEPT !.cfg.share[ln.key] = AsInt(t.lo)]
          [] ln.opt = "duration" /\ DurationOk(t) -> [sc EXCEPT !.cfg.duration[ln.key] = d]
          [] ln.opt = "service" /\ DurationOk(t) -> [sc EXCEPT !.cfg.service = d]
          [] ln.opt = "mode" /\ t.word \in IoMode -> [sc EXCEPT !.cfg.mode[ln.key] = t.word]
          [] OTHER -> Reject(sc)

\* In a process: the last arrival and burst count, all timelines add up.
ApplyProcess(sc, ln) ==
    LET i == Len(sc.procs)
    IN  CASE ln.opt = "arrival" /\ Strict(ln.text) ->
               [sc EXCEPT !.procs[i].arrival = AsInt(ln.text.lo)]
          [] ln.opt = "burst" /\ Strict(ln.text) ->
               [sc EXCEPT !.procs[i].burst = AsInt(ln.text.lo)]
          [] ln.opt = "io" /\ \A j \in DOMAIN ln.events : EventOk(ln.events[j]) ->
               [sc EXCEPT !.procs[i].script =
                    @ \o [j \in DOMAIN ln.events |-> ParseIoEvent(ln.events[j])]]
          [] OTHER -> Reject(sc)

\* Nothing leads back from a process to the lines outside any.
ApplyLine(sc, ln) ==
    IF ln.opt = "[process]"
    THEN [sc EXCEPT !.procs = Append(@, [arrival |-> 0, burst |-> 0, script |-> <<>>])]
    ELSE IF sc.procs = <<>> THEN ApplyGlobal(sc, ln) ELSE ApplyProcess(sc, ln)

\* validate, of what all lines made.
Validated(sc) ==
    IF \A i \in DOMAIN sc.procs : ValidScript(sc.procs[i].script, sc.procs[i].burst)
    THEN sc ELSE Reject(sc)

\* scenario_parse_string on top of the configuration cfg: the lines are applied
\* until one is refused; Left[k] is what k more lines make of a scenario.
ParseLines(lines, cfg) ==
    LET Left[k \in 0..Len(lines)] ==
            [sc \in Scenario |->
               IF ~sc.ok THEN sc
               ELSE IF k = 0 THEN Validated(sc)
               ELSE Left[k - 1][ApplyLine(sc, lines[Len(lines) - k + 1])]]
    IN  Left[Len(lines)][Parsed(TRUE, cfg, <<>>)]

-----------------------------------------------------------------------------
(* The users.  A file is what can be opened, and its lines.                *)

NoFile == [exists |-> FALSE, lines |-> <<>>]
FileOf(lines) == [exists |-> TRUE, lines |-> lines]

ParseFile(file, cfg) ==
    IF file.exists THEN ParseLines(file.lines, cfg) ELSE Parsed(FALSE, cfg, <<>>)

\* main: the file on top of the options; its processes count themselves.
LoadScenario(file, cfg) ==
    LET sc == ParseFile(file, cfg)
    IN  IF sc.procs = <<>> THEN sc
        ELSE [sc EXCEPT !.cfg.num["processCount"] = Len(sc.procs)]

\* bridgeDefaults, and summarize with its parse.
BridgeDefaults ==
    [DefaultConfig EXCEPT !.share = [d \in Device |-> IF d = "disk" THEN 34 ELSE 33]]
Summarize(file) == ParseFile(file, BridgeDefaults)

\* A duration as text (durStr of the editor), and a timeline (ioTimelineStr).
DurText(d) == IF d.min = d.max THEN Num(d.min) ELSE NumRange(d.min, d.max)
EventText(ev) ==
    IF ev.hasDuration THEN EventFor(Num(ev.serviceTick), ev.device, DurText(ev.duration))
    ELSE Event(Num(ev.serviceTick), ev.device)
TimelineText(script) == [j \in DOMAIN script |-> EventText(script[j])]
=============================================================================
