----------------------------- MODULE Arguments ------------------------------
(***************************************************************************)
(* The command line of rr-feedback (apps/rr-feedback/args.c).  parse_args  *)
(* takes one option after the other, as getopt_long delivers them, and     *)
(* then validates and completes the configuration; each is an operator     *)
(* from a parser state to a parser state, used by the actions of Startup.  *)
(*                                                                         *)
(* An argument is abstracted to what strtol and strtod find in it.  An int *)
(* has the values -IntHalf .. IntHalf - 1, and a longer number is cut to   *)
(* it, as the conversions from long in the code do.                        *)
(***************************************************************************)
EXTENDS Records, FiniteSets

CONSTANTS
    IntHalf,        \* 2^31 in the program
    Path            \* names of scenario files

ASSUME IntHalfAssumption == IntHalf \in Nat /\ IntHalf >= 512

AsInt(n) == IF n \in -IntHalf..IntHalf - 1 THEN n
            ELSE ((n + IntHalf) % (2 * IntHalf)) - IntHalf

-----------------------------------------------------------------------------
(* The texts of arguments: a number at the head or not, and what follows   *)
(* it: the end, "-M" (range), "-" and the end (open), or anything else.    *)

Text == [head : BOOLEAN, lo : Int, tail : {"end", "range", "open", "junk"},
         hi : Int, word : STRING]

Num(n) == [head |-> TRUE, lo |-> n, tail |-> "end", hi |-> 0, word |-> ""]
NumThen(n, t) == [Num(n) EXCEPT !.tail = t]
NumRange(n, m) == [head |-> TRUE, lo |-> n, tail |-> "range", hi |-> m, word |-> ""]
Word(w) == [head |-> FALSE, lo |-> 0, tail |-> "junk", hi |-> 0, word |-> w]

\* parse_int_strict and parse_double_strict take a number and nothing else.
Strict(t) == t.head /\ t.tail = "end"

\* parse_duration: "N" or "N-M"; nothing is refused.  No number at all reads
\* as 0, "N-" as N to 0, and junk is cut off.
ParseDuration(t) ==
    IF ~t.head THEN [min |-> 0, max |-> 0]
    ELSE [min |-> AsInt(t.lo),
          max |-> CASE t.tail = "range" -> AsInt(t.hi)
                    [] t.tail = "open" -> 0
                    [] OTHER -> AsInt(t.lo)]

\* parse_io_mode: whatever does not begin with q means concurrent.
ParseIoMode(t) == IF t.word \in {"queue", "quick"} THEN "queue" ELSE "concurrent"

-----------------------------------------------------------------------------
(* SimConfig, and the locals of parse_args.                                *)

NumKey == {"quantumHi", "quantumLo", "processCount", "arrivalRate",
           "arrivalInterval", "lambda", "pIo", "seed", "steps"}
IoMode == {"concurrent", "queue"}
ArrivalMode == {"batch", "bernoulli", "geometric", "poisson", "uniform"}

\* lambda counts hundredths; scenario is the file named, "" for none.
SimConfig ==
    [num : [NumKey -> Int], service : Duration, share : [Device -> Int],
     duration : [Device -> Duration], mode : [Device -> IoMode],
     arrivalMode : ArrivalMode, runMode : {"batch", "steps", "interactive"},
     trace : BOOLEAN, scenario : Path \cup {""}, emit : BOOLEAN, port : Int]

Span(a, b) == [min |-> a, max |-> b]
DefaultConfig ==
    [num |-> [k \in NumKey |-> CASE k = "quantumHi" -> 3 [] k = "quantumLo" -> 6
                                 [] k = "processCount" -> 5 [] k = "seed" -> 42
                                 [] OTHER -> 0],
     service |-> Span(5, 15),
     share |-> [d \in Device |-> 0],
     duration |-> [d \in Device |-> CASE d = "disk" -> Span(5, 5)
                                      [] d = "tape" -> Span(8, 8)
                                      [] OTHER -> Span(12, 12)],
     mode |-> [d \in Device |-> "concurrent"],
     arrivalMode |-> "batch", runMode |-> "batch",
     trace |-> FALSE, scenario |-> "", emit |-> FALSE, port |-> 0]

\* The devices whose share was given, whether a rate and a mode were, and what
\* *error will be: 0, 1 (usage) or 2 (help).
ParserState ==
    [cfg : SimConfig, explicit : SUBSET Device, rateSet : BOOLEAN,
     modeSet : BOOLEAN, error : {0, 1, 2}]
ParserStart ==
    [cfg |-> DefaultConfig, explicit |-> {}, rateSet |-> FALSE,
     modeSet |-> FALSE, error |-> 0]

Refuse(ps) == [ps EXCEPT !.error = 1]

-----------------------------------------------------------------------------
(* Slips: what the code could say by a small mistake.  Nothing uses them;  *)
(* each takes the place of the definition it resembles to show that a      *)
(* property would notice (README, "Mutations").                            *)

\* The rate means Bernoulli arrivals when it is read, whatever the mode.
TakeIntDeciding(ps, o) ==
    IF ~Strict(o.text) THEN Refuse(ps)
    ELSE [ps EXCEPT !.cfg.num[o.key] = AsInt(o.text.lo),
                    !.rateSet = FALSE,
                    !.cfg.arrivalMode =
                        IF o.key = "arrivalRate" THEN "bernoulli" ELSE @,
                    !.cfg.runMode = IF o.key = "steps" THEN "steps" ELSE @]

\* The odd percent forgotten.
RemainderDropped(rem, n, first) == rem \div n

-----------------------------------------------------------------------------
(* One option of the command line: which one, its key, its argument.       *)

Option(opt, key, t) == [opt |-> opt, key |-> key, text |-> t]
CommandOption ==
    {o \in [opt : STRING, key : STRING, text : Text] :
        /\ o.opt = "int" => o.key \in NumKey \ {"lambda"}
        /\ o.opt \in {"share", "duration", "mode"} => o.key \in Device
        /\ o.opt = "file" => o.key \in Path
        /\ o.opt \in {"lambda", "service", "arrivalMode"} => o.key = ""}

TakeInt(ps, o) ==
    IF ~Strict(o.text) THEN Refuse(ps)
    ELSE [ps EXCEPT !.cfg.num[o.key] = AsInt(o.text.lo),
                    !.rateSet = @ \/ o.key = "arrivalRate",
                    !.cfg.runMode = IF o.key = "steps" THEN "steps" ELSE @]

TakeLambda(ps, o) ==
    IF ~Strict(o.text) THEN Refuse(ps)
    ELSE [ps EXCEPT !.cfg.num["lambda"] = o.text.lo]

TakeShare(ps, o) ==
    IF ~Strict(o.text) THEN Refuse(ps)
    ELSE [ps EXCEPT !.cfg.share[o.key] = AsInt(o.text.lo),
                    !.explicit = @ \cup {o.key}]

TakeArrivalMode(ps, o) ==
    IF o.text.word \notin ArrivalMode THEN Refuse(ps)
    ELSE [ps EXCEPT !.cfg.arrivalMode = o.text.word, !.modeSet = TRUE]

\* --serve without a port leaves the choice to the server.
AnyPort == -1
IsPort(n) == 0 < n /\ n <= 65535
TakeServe(ps, o) ==
    IF o.key = "" THEN [ps EXCEPT !.cfg.port = AnyPort]
    ELSE IF Strict(o.text) /\ IsPort(AsInt(o.text.lo))
         THEN [ps EXCEPT !.cfg.port = AsInt(o.text.lo)] ELSE Refuse(ps)

\* The first argument that is no option is the scenario file; getopt_long
\* moves those behind the options, and any further one is ignored.
TakeFile(ps, o) ==
    IF ps.cfg.scenario = "" THEN [ps EXCEPT !.cfg.scenario = o.key] ELSE ps

Take(ps, o) ==
    CASE o.opt = "int" -> TakeInt(ps, o)
      [] o.opt = "lambda" -> TakeLambda(ps, o)
      [] o.opt = "share" -> TakeShare(ps, o)
      [] o.opt = "duration" -> [ps EXCEPT !.cfg.duration[o.key] = ParseDuration(o.text)]
      [] o.opt = "service" -> [ps EXCEPT !.cfg.service = ParseDuration(o.text)]
      [] o.opt = "mode" -> [ps EXCEPT !.cfg.mode[o.key] = ParseIoMode(o.text)]
      [] o.opt = "arrivalMode" -> TakeArrivalMode(ps, o)
      [] o.opt = "trace" -> [ps EXCEPT !.cfg.trace = TRUE]
      [] o.opt = "interactive" -> [ps EXCEPT !.cfg.runMode = "interactive"]
      [] o.opt = "emit" -> [ps EXCEPT !.cfg.emit = TRUE]
      [] o.opt = "serve" -> TakeServe(ps, o)
      [] o.opt = "file" -> TakeFile(ps, o)
      [] o.opt = "help" -> [ps EXCEPT !.error = 2]
      [] OTHER -> Refuse(ps)

-----------------------------------------------------------------------------
(* After the options: validation and completion.                           *)

Given(ps, d) == IF d \in ps.explicit THEN ps.cfg.share[d] ELSE 0
Assigned(ps) == AsInt(Given(ps, "disk") + Given(ps, "tape") + Given(ps, "printer"))
Remainder(ps) == AsInt(100 - Assigned(ps))

SharesFit(ps) ==
    CASE ps.explicit = {} -> TRUE
      [] ps.explicit = Device -> Assigned(ps) = 100
      [] OTHER -> Remainder(ps) >= 0

\* What one of n unset devices gets of the remainder; the first of them, in
\* the order disk, tape, printer, gets what does not divide.
RemainderPart(rem, n, first) == (rem \div n) + (IF first THEN rem % n ELSE 0)

FirstUnset(explicit) ==
    IF "disk" \notin explicit THEN "disk"
    ELSE IF "tape" \notin explicit THEN "tape" ELSE "printer"

FilledShares(ps) ==
    IF ps.explicit = {}
    THEN [d \in Device |-> IF d = "disk" THEN 34 ELSE 33]
    ELSE [d \in Device |->
            IF d \in ps.explicit THEN ps.cfg.share[d]
            ELSE RemainderPart(Remainder(ps), Cardinality(Device \ ps.explicit),
                               d = FirstUnset(ps.explicit))]

\* A rate without a mode means Bernoulli arrivals.
EffectiveMode(ps) ==
    IF ps.rateSet /\ ~ps.modeSet THEN "bernoulli" ELSE ps.cfg.arrivalMode

ModeHasParameter(mode, num) ==
    /\ mode \in {"bernoulli", "geometric"} => num["arrivalRate"] > 0
    /\ mode = "poisson" => num["lambda"] > 0
    /\ mode = "uniform" => num["arrivalInterval"] > 0

Acceptable(ps) ==
    /\ ps.cfg.num["quantumHi"] > 0
    /\ ps.cfg.num["quantumLo"] > 0
    /\ ~(ps.cfg.port # 0 /\ ps.cfg.emit)
    /\ ps.cfg.num["pIo"] \in 0..100
    /\ SharesFit(ps)
    /\ \A d \in Device : /\ ps.cfg.duration[d].min <= ps.cfg.duration[d].max
                         /\ ps.cfg.duration[d].min >= 1
    /\ ModeHasParameter(EffectiveMode(ps), ps.cfg.num)

Validate(ps) ==
    IF ~Acceptable(ps) THEN Refuse(ps)
    ELSE [ps EXCEPT !.cfg.share = FilledShares(ps),
                    !.cfg.arrivalMode = EffectiveMode(ps)]

\* parse_args of a whole command line.
ParseArgs(options) ==
    LET After[i \in 0..Len(options)] ==
            IF i = 0 THEN ParserStart
            ELSE LET ps == After[i - 1]
                 IN  IF ps.error = 0 THEN Take(ps, options[i]) ELSE ps
        end == After[Len(options)]
    IN  IF end.error # 0 THEN end ELSE Validate(end)
=============================================================================
