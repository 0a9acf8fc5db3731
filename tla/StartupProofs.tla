--------------------------- MODULE StartupProofs ----------------------------
(***************************************************************************)
(* What rr-feedback makes of its command line and its scenario file, for   *)
(* every command line and every file: the device shares of a line that is  *)
(* accepted sum to 100, options for different things can change places,    *)
(* and what the core is handed is what it assumes.  And what the viewer    *)
(* launches: a form runs as it shows, a file that the overlay offers is    *)
(* accepted, and the editor saves what it has opened.                      *)
(***************************************************************************)
EXTENDS LaunchScreen, QueueOrderProofs

-----------------------------------------------------------------------------
(* Values.                                                                 *)

LEMMA AsIntType == ASSUME NEW n \in Int PROVE AsInt(n) \in Int
BY IntHalfAssumption DEF AsInt

LEMMA AsIntFits ==
    ASSUME NEW n \in Int, -IntHalf <= n, n < IntHalf
    PROVE  AsInt(n) = n
BY IntHalfAssumption DEF AsInt

LEMMA DurationType ==
    ASSUME NEW t, t.lo \in Int, t.hi \in Int
    PROVE  ParseDuration(t) \in Duration
<1>1. AsInt(t.lo) \in Int /\ AsInt(t.hi) \in Int
  BY AsIntType
<1>2. QED
  BY <1>1 DEF ParseDuration, Duration

-----------------------------------------------------------------------------
(* The state of the parser keeps its type.                                   *)

LEMMA BatchConfig ==
    ASSUME NEW num \in [NumKey -> Int], NEW service \in Duration,
           NEW share \in [Device -> Int], NEW duration \in [Device -> Duration],
           NEW mode \in [Device -> IoMode]
    PROVE  [num |-> num, service |-> service, share |-> share, duration |-> duration,
            mode |-> mode, arrivalMode |-> "batch", runMode |-> "batch",
            trace |-> FALSE, scenario |-> "", emit |-> FALSE, port |-> 0] \in SimConfig
BY DEF SimConfig, ArrivalMode

LEMMA StartShape == ParserStart \in ParserState
<1>1. \A a, b \in Int : Span(a, b) \in Duration
  BY DEF Span, Duration
<1>2. DefaultConfig.num \in [NumKey -> Int]
  BY DEF DefaultConfig, NumKey
<1>3. DefaultConfig.duration \in [Device -> Duration]
  BY <1>1 DEF DefaultConfig
<1>4. DefaultConfig.mode \in [Device -> IoMode] /\ DefaultConfig.share \in [Device -> Int]
  BY DEF DefaultConfig, IoMode
<1>5. DefaultConfig \in SimConfig
  <2>1. DefaultConfig.service \in Duration
    BY <1>1 DEF DefaultConfig
  <2> DEFINE c == [num |-> DefaultConfig.num, service |-> DefaultConfig.service,
                   share |-> DefaultConfig.share, duration |-> DefaultConfig.duration,
                   mode |-> DefaultConfig.mode, arrivalMode |-> "batch",
                   runMode |-> "batch", trace |-> FALSE, scenario |-> "",
                   emit |-> FALSE, port |-> 0]
  <2>2. DefaultConfig = c
    BY DEF DefaultConfig
  <2>3. c \in SimConfig
    BY <1>2, <1>3, <1>4, <2>1, BatchConfig
  <2> HIDE DEF c
  <2>4. QED
    BY <2>2, <2>3
<1>6. QED
  BY <1>5 DEF ParserStart, ParserState

\* What parse_args relies on in an option.
Legible(o) ==
    /\ o.text.lo \in Int /\ o.text.hi \in Int
    /\ o.opt = "int" => o.key \in NumKey
    /\ o.opt \in {"share", "duration", "mode"} => o.key \in Device
    /\ o.opt = "file" => o.key \in Path

LEMMA OptionsLegible == ASSUME NEW o \in CommandOption PROVE Legible(o)
BY DEF CommandOption, Text, Legible

LEMMA TakeShape ==
    ASSUME NEW s \in ParserState, NEW o, Legible(o)
    PROVE  Take(s, o) \in ParserState
<1>1. /\ s.cfg \in SimConfig /\ s.explicit \in SUBSET Device /\ s.rateSet \in BOOLEAN
      /\ s.modeSet \in BOOLEAN /\ o.text.lo \in Int /\ o.text.hi \in Int
  BY DEF ParserState, Legible
<1>2. AsInt(o.text.lo) \in Int
  BY <1>1, AsIntType
<1>3. Refuse(s) \in ParserState
  BY DEF Refuse, ParserState
<1>4. CASE o.opt = "int"
  <2>1. ASSUME NEW n \in Int, NEW r \in BOOLEAN, NEW m \in {"batch", "steps", "interactive"}
        PROVE  [s EXCEPT !.cfg.num[o.key] = n, !.rateSet = r, !.cfg.runMode = m]
                 \in ParserState
    BY <1>1 DEF ParserState, SimConfig
  <2>2. s.cfg.runMode \in {"batch", "steps", "interactive"}
    BY <1>1 DEF SimConfig
  <2>3. TakeInt(s, o) \in ParserState
    BY <1>1, <1>2, <1>3, <2>1, <2>2 DEF TakeInt
  <2>4. QED
    BY <1>4, <2>3 DEF Take
<1>5. CASE o.opt = "lambda"
  <2>1. TakeLambda(s, o) \in ParserState
    BY <1>1, <1>3 DEF TakeLambda, ParserState, SimConfig
  <2>2. QED
    BY <1>5, <2>1 DEF Take
<1>6. CASE o.opt = "share"
  <2>1. o.key \in Device
    BY <1>6 DEF Legible
  <2>2. TakeShare(s, o) \in ParserState
    <3>1. CASE ~Strict(o.text)
      BY <1>3, <3>1 DEF TakeShare
    <3>2. CASE Strict(o.text)
      <4> DEFINE c == [s.cfg EXCEPT !.share[o.key] = AsInt(o.text.lo)]
      <4>1. c \in SimConfig
        BY <1>1, <1>2, <2>1 DEF SimConfig
      <4>2. TakeShare(s, o) = [s EXCEPT !.cfg = c, !.explicit = s.explicit \cup {o.key}]
        BY <1>1, <3>2 DEF TakeShare, ParserState
      <4> HIDE DEF c
      <4>3. s.explicit \cup {o.key} \in SUBSET Device
        BY <1>1, <2>1
      <4>4. QED
        BY <4>1, <4>2, <4>3 DEF ParserState
    <3>3. QED
      BY <3>1, <3>2
  <2>3. QED
    BY <1>6, <2>2 DEF Take
<1>7. CASE o.opt = "duration"
  BY <1>1, <1>7, DurationType DEF Take, ParserState, SimConfig
<1>8. CASE o.opt = "service"
  BY <1>1, <1>8, DurationType DEF Take, ParserState, SimConfig
<1>9. CASE o.opt = "mode"
  BY <1>1, <1>9 DEF Take, ParseIoMode, IoMode, ParserState, SimConfig
<1>10. CASE o.opt = "arrivalMode"
  <2>1. TakeArrivalMode(s, o) \in ParserState
    BY <1>1, <1>3 DEF TakeArrivalMode, ParserState, SimConfig
  <2>2. QED
    BY <1>10, <2>1 DEF Take
<1>11. CASE o.opt = "trace"
  BY <1>1, <1>11 DEF Take, ParserState, SimConfig
<1>12. CASE o.opt = "interactive"
  BY <1>1, <1>12 DEF Take, ParserState, SimConfig
<1>13. CASE o.opt = "emit"
  BY <1>1, <1>13 DEF Take, ParserState, SimConfig
<1>14. CASE o.opt = "serve"
  <2>1. \A port \in Int : [s EXCEPT !.cfg.port = port] \in ParserState
    BY <1>1 DEF ParserState, SimConfig
  <2>2. /\ [s EXCEPT !.cfg.port = AnyPort] \in ParserState
        /\ [s EXCEPT !.cfg.port = AsInt(o.text.lo)] \in ParserState
    <3>1. AnyPort \in Int
      BY DEF AnyPort
    <3>2. QED
      BY <1>2, <2>1, <3>1
  <2>3. TakeServe(s, o) \in ParserState
    BY <1>3, <2>2 DEF TakeServe
  <2>4. QED
    BY <1>14, <2>3 DEF Take
<1>15. CASE o.opt = "file"
  <2>1. o.key \in Path
    BY <1>15 DEF Legible
  <2>2. TakeFile(s, o) \in ParserState
    BY <1>1, <2>1 DEF TakeFile, ParserState, SimConfig
  <2>3. QED
    BY <1>15, <2>2 DEF Take
<1>16. CASE o.opt = "help"
  BY <1>16 DEF Take, ParserState
<1>17. QED
  BY <1>3, <1>4, <1>5, <1>6, <1>7, <1>8, <1>9, <1>10, <1>11, <1>12, <1>13, <1>14,
     <1>15, <1>16 DEF Take

-----------------------------------------------------------------------------
(* Shares.                                                                 *)

Total(share) == share["disk"] + share["tape"] + share["printer"]

LEMMA Permuted ==
    ASSUME NEW f \in [Device -> Int], NEW a \in Device, NEW b \in Device, NEW c \in Device,
           a # b, a # c, b # c
    PROVE  Total(f) = f[a] + f[b] + f[c]
<1>1. f["disk"] \in Int /\ f["tape"] \in Int /\ f["printer"] \in Int
  BY DEF Device
<1>2. CASE a = "disk"
  BY <1>1, <1>2 DEF Total, Device
<1>3. CASE a = "tape"
  BY <1>1, <1>3 DEF Total, Device
<1>4. CASE a = "printer"
  BY <1>1, <1>4 DEF Total, Device
<1>5. QED
  BY <1>2, <1>3, <1>4 DEF Device

\* What is given is at most three quarters of an int, whoever is left out.
LEMMA AssignedFits ==
    ASSUME NEW s \in ParserState, SmallShares(s)
    PROVE  /\ Assigned(s) = Given(s, "disk") + Given(s, "tape") + Given(s, "printer")
           /\ Remainder(s) = 100 - Assigned(s)
           /\ \A d \in Device : Given(s, d) \in Int
<1>1. s.cfg.share \in [Device -> Int]
  BY DEF ParserState, SimConfig
<1>2. ASSUME NEW d \in Device
      PROVE  Given(s, d) \in Int /\ 4 * Given(s, d) <= IntHalf /\ -4 * Given(s, d) <= IntHalf
  BY <1>1, IntHalfAssumption DEF Given, SmallShares
<1> DEFINE sum == Given(s, "disk") + Given(s, "tape") + Given(s, "printer")
<1>3. /\ sum \in Int /\ -IntHalf <= sum /\ sum < IntHalf
      /\ -IntHalf <= 100 - sum /\ 100 - sum < IntHalf
  <2>1. /\ Given(s, "disk") \in Int /\ Given(s, "tape") \in Int /\ Given(s, "printer") \in Int
        /\ 4 * Given(s, "disk") <= IntHalf /\ -4 * Given(s, "disk") <= IntHalf
        /\ 4 * Given(s, "tape") <= IntHalf /\ -4 * Given(s, "tape") <= IntHalf
        /\ 4 * Given(s, "printer") <= IntHalf /\ -4 * Given(s, "printer") <= IntHalf
    BY <1>2 DEF Device
  <2>2. QED
    BY <2>1, IntHalfAssumption
<1>4. Assigned(s) = sum
  BY <1>3, AsIntFits DEF Assigned
<1>5. Remainder(s) = 100 - sum
  BY <1>3, <1>4, AsIntFits DEF Remainder
<1>6. QED
  BY <1>2, <1>4, <1>5

\* The parts of the remainder make the remainder.
LEMMA OnePart ==
    ASSUME NEW rem \in Int
    PROVE  RemainderPart(rem, 1, TRUE) = rem
BY DEF RemainderPart
LEMMA TwoParts ==
    ASSUME NEW rem \in Int
    PROVE  RemainderPart(rem, 2, TRUE) + RemainderPart(rem, 2, FALSE) = rem
BY DEF RemainderPart

\* The devices that were not given a share.
LEMMA Unset ==
    ASSUME NEW given, given # Device, given \subseteq Device
    PROVE  Cardinality(Device \ given) \in Nat \ {0}
<1>1. IsFiniteSet({"disk"}) /\ IsFiniteSet({"tape"}) /\ IsFiniteSet({"printer"})
  BY FS_Singleton
<1>2. IsFiniteSet(({"disk"} \cup {"tape"}) \cup {"printer"})
  BY <1>1, FS_Union
<1>3. Device = ({"disk"} \cup {"tape"}) \cup {"printer"}
  BY DEF Device
<1>4. IsFiniteSet(Device \ given)
  BY <1>2, <1>3, FS_Difference
<1>5. Device \ given # {}
  OBVIOUS
<1>6. QED
  BY <1>4, <1>5, FS_CardinalityType, FS_EmptySet

LEMMA FilledType == ASSUME NEW s \in ParserState PROVE FilledShares(s) \in [Device -> Int]
<1>1. s.cfg.share \in [Device -> Int] /\ Remainder(s) \in Int
  <2>1. s.cfg.share \in [Device -> Int]
    BY DEF ParserState, SimConfig
  <2>2. \A d \in Device : Given(s, d) \in Int
    BY <2>1 DEF Given
  <2>3. Assigned(s) \in Int
    BY <2>2, AsIntType DEF Assigned, Device
  <2>4. Remainder(s) \in Int
    BY <2>3, AsIntType DEF Remainder
  <2>5. QED
    BY <2>1, <2>4
<1>2. ASSUME NEW first \in BOOLEAN, NEW n \in Nat \ {0}
      PROVE  RemainderPart(Remainder(s), n, first) \in Int
  <2>1. Remainder(s) \div n \in Int /\ Remainder(s) % n \in Int
    BY <1>1
  <2>2. QED
    BY <2>1 DEF RemainderPart
<1>3. ASSUME NEW d \in Device, d \notin s.explicit
      PROVE  RemainderPart(Remainder(s), Cardinality(Device \ s.explicit),
                           d = FirstUnset(s.explicit)) \in Int
  <2>1. Cardinality(Device \ s.explicit) \in Nat \ {0}
    BY <1>3, Unset DEF ParserState
  <2>2. QED
    BY <1>2, <2>1
<1>4. FilledShares(s) = [d \in Device |-> FilledShares(s)[d]]
  BY DEF FilledShares
<1>5. ASSUME NEW d \in Device PROVE FilledShares(s)[d] \in Int
  <2>1. CASE s.explicit = {}
    BY <2>1 DEF FilledShares
  <2>2. CASE s.explicit # {} /\ d \in s.explicit
    BY <1>1, <2>2 DEF FilledShares
  <2>3. CASE s.explicit # {} /\ d \notin s.explicit
    BY <1>3, <2>3 DEF FilledShares
  <2>4. QED
    BY <2>1, <2>2, <2>3
<1>6. QED
  BY <1>4, <1>5

\* Completed shares sum to 100.
LEMMA Completed ==
    ASSUME NEW s \in ParserState, SmallShares(s), SharesFit(s)
    PROVE  Total(FilledShares(s)) = 100
<1> DEFINE rem == Remainder(s)
           share == s.cfg.share
<1>1. s.explicit \subseteq Device /\ share \in [Device -> Int]
  BY DEF ParserState, SimConfig
<1>2. /\ Assigned(s) = Given(s, "disk") + Given(s, "tape") + Given(s, "printer")
      /\ rem = 100 - Assigned(s)
      /\ Given(s, "disk") \in Int /\ Given(s, "tape") \in Int /\ Given(s, "printer") \in Int
  BY AssignedFits DEF Device
<1>3. rem \in Int
  BY <1>2
<1>4. ASSUME NEW a, NEW b, a # b
      PROVE  Cardinality({a}) = 1 /\ Cardinality({a, b}) = 2
  <2>1. Cardinality({a}) = 1 /\ IsFiniteSet({a})
    BY FS_Singleton
  <2>2. Cardinality({a} \cup {b}) = Cardinality({a}) + 1
    BY <1>4, <2>1, FS_AddElement
  <2>3. {a} \cup {b} = {a, b}
    OBVIOUS
  <2>4. QED
    BY <2>1, <2>2, <2>3
<1> HIDE DEF rem, share
<1>5. CASE s.explicit = {}
  BY <1>5 DEF FilledShares, Total, Device
<1>6. CASE s.explicit = Device
  <2>1. Assigned(s) = 100
    BY <1>6 DEF SharesFit, Device
  <2>2. FilledShares(s) = [d \in Device |-> share[d]]
    BY <1>6 DEF FilledShares, share, Device
  <2>3. \A d \in Device : Given(s, d) = share[d]
    BY <1>6 DEF Given, share
  <2>4. QED
    BY <1>2, <2>1, <2>2, <2>3 DEF Total, Device
<1>7. CASE s.explicit # {} /\ s.explicit # Device
  <2>1. ASSUME NEW d \in Device
        PROVE  FilledShares(s)[d] =
                 IF d \in s.explicit THEN Given(s, d)
                 ELSE RemainderPart(rem, Cardinality(Device \ s.explicit),
                                    d = FirstUnset(s.explicit))
    BY <1>7 DEF FilledShares, Given, rem
  <2>2. \A d \in Device : d \notin s.explicit => Given(s, d) = 0
    BY DEF Given
  <2>3. ASSUME NEW d \in Device, NEW first \in Device, NEW last \in Device,
               d # first, d # last, first # last, s.explicit = {d},
               first = FirstUnset(s.explicit)
        PROVE  Total(FilledShares(s)) = 100
    <3>1. Device \ s.explicit = {first, last}
      BY <2>3 DEF Device
    <3>2. Cardinality(Device \ s.explicit) = 2
      <4>1. Cardinality({first, last}) = 2
        BY <1>4, <2>3
      <4>2. QED
        BY <3>1, <4>1
    <3>3. /\ FilledShares(s)[d] = Given(s, d)
          /\ FilledShares(s)[first] = RemainderPart(rem, 2, TRUE)
          /\ FilledShares(s)[last] = RemainderPart(rem, 2, FALSE)
      BY <2>1, <2>3, <3>2
    <3>4. \A e \in Device : e # d => Given(s, e) = 0
      BY <2>2, <2>3
    <3>5. /\ RemainderPart(rem, 2, TRUE) + RemainderPart(rem, 2, FALSE) = rem
          /\ RemainderPart(rem, 2, TRUE) \in Int /\ RemainderPart(rem, 2, FALSE) \in Int
      BY <1>3, TwoParts DEF RemainderPart
    <3>6. rem + Given(s, d) = 100
      <4>1. CASE d = "disk"
        BY <1>2, <3>4, <4>1 DEF Device
      <4>2. CASE d = "tape"
        BY <1>2, <3>4, <4>2 DEF Device
      <4>3. CASE d = "printer"
        BY <1>2, <3>4, <4>3 DEF Device
      <4>4. QED
        BY <4>1, <4>2, <4>3 DEF Device
    <3>7. Total(FilledShares(s))
            = FilledShares(s)[d] + FilledShares(s)[first] + FilledShares(s)[last]
      BY <2>3, FilledType, Permuted
    <3>8. Given(s, d) \in Int
      BY <1>2 DEF Device
    <3>9. QED
      <4> DEFINE x == RemainderPart(rem, 2, TRUE)
                 y == RemainderPart(rem, 2, FALSE)
                 g == Given(s, d)
      <4>1. Total(FilledShares(s)) = g + x + y /\ x + y = rem /\ rem + g = 100
        BY <3>3, <3>5, <3>6, <3>7
      <4>2. x \in Int /\ y \in Int /\ g \in Int
        BY <3>5, <3>8
      <4> HIDE DEF x, y, g
      <4>3. QED
        BY <1>3, <4>1, <4>2
  <2>4. ASSUME NEW d \in Device, NEW e \in Device, NEW last \in Device,
               d # e, d # last, e # last, s.explicit = {d, e},
               last = FirstUnset(s.explicit)
        PROVE  Total(FilledShares(s)) = 100
    <3>1. Device \ s.explicit = {last}
      BY <2>4 DEF Device
    <3>2. Cardinality(Device \ s.explicit) = 1
      BY <3>1, FS_Singleton
    <3>3. /\ FilledShares(s)[d] = Given(s, d)
          /\ FilledShares(s)[e] = Given(s, e)
          /\ FilledShares(s)[last] = RemainderPart(rem, 1, TRUE)
      BY <2>1, <2>4, <3>2
    <3>4. Given(s, last) = 0
      BY <2>2, <2>4
    <3>5. RemainderPart(rem, 1, TRUE) = rem
      BY <1>3, OnePart
    <3>6. rem + Given(s, d) + Given(s, e) = 100 /\ Given(s, d) \in Int /\ Given(s, e) \in Int
      <4>1. Given(s, "disk") + Given(s, "tape") + Given(s, "printer")
              = Given(s, d) + Given(s, e) + Given(s, last)
        <5> DEFINE g == [x \in Device |-> Given(s, x)]
        <5>1. g \in [Device -> Int]
          BY <1>2 DEF Device
        <5>2. Total(g) = g[d] + g[e] + g[last]
          BY <2>4, <5>1, Permuted
        <5>3. QED
          BY <5>2 DEF Total, Device
      <4>2. Given(s, d) \in Int /\ Given(s, e) \in Int
        BY <1>2 DEF Device
      <4>3. QED
        BY <1>2, <3>4, <4>1, <4>2
    <3>7. FilledShares(s)[d] + FilledShares(s)[e] + FilledShares(s)[last] = 100
      <4> DEFINE x == Given(s, d)
                 y == Given(s, e)
      <4>1. FilledShares(s)[d] = x /\ FilledShares(s)[e] = y /\ FilledShares(s)[last] = rem
        BY <3>3, <3>5
      <4>2. x \in Int /\ y \in Int /\ rem + x + y = 100
        BY <3>6
      <4> HIDE DEF x, y
      <4>3. QED
        BY <1>3, <4>1, <4>2
    <3>8. QED
      BY <2>4, <3>7, FilledType, Permuted
  <2>5. CASE s.explicit = {"disk"}
    BY <2>3, <2>5 DEF Device, FirstUnset
  <2>6. CASE s.explicit = {"tape"}
    BY <2>3, <2>6 DEF Device, FirstUnset
  <2>7. CASE s.explicit = {"printer"}
    BY <2>3, <2>7 DEF Device, FirstUnset
  <2>8. CASE s.explicit = {"disk", "tape"}
    BY <2>4, <2>8 DEF Device, FirstUnset
  <2>9. CASE s.explicit = {"disk", "printer"}
    BY <2>4, <2>9 DEF Device, FirstUnset
  <2>10. CASE s.explicit = {"tape", "printer"}
    BY <2>4, <2>10 DEF Device, FirstUnset
  <2>11. QED
    BY <1>1, <1>7, <2>5, <2>6, <2>7, <2>8, <2>9, <2>10 DEF Device
<1>8. QED
  BY <1>5, <1>6, <1>7

-----------------------------------------------------------------------------
(* The invariant: the parser keeps its type, what is left of the options   *)
(* is options, and from the validation on the shares are completed.        *)

ParserInv ==
    /\ argv \in Seq(CommandOption)
    /\ ps \in ParserState
    /\ SharesSumTo100

LEMMA InitParser == ASSUME ShellInit PROVE ParserInv
<1>1. argv \in Seq(CommandOption) /\ ps = ParserStart /\ phase = "parsing"
  BY CommandLinesAssumption DEF ShellInit, Fresh
<1>2. QED
  BY <1>1, StartShape DEF ParserInv, SharesSumTo100

LEMMA StepParser == ASSUME ParserInv, [Program]_startVars PROVE ParserInv'
<1>1. argv \in Seq(CommandOption) /\ ps \in ParserState /\ SharesSumTo100
  BY DEF ParserInv
<1>2. CASE TakeOption
  <2>1. Head(argv) \in CommandOption /\ argv' \in Seq(CommandOption)
    BY <1>1, <1>2 DEF TakeOption
  <2>2. ps' \in ParserState
    BY <1>1, <1>2, <2>1, OptionsLegible, TakeShape DEF TakeOption
  <2>3. SharesSumTo100'
    BY <1>2 DEF TakeOption, SharesSumTo100
  <2>4. QED
    BY <2>1, <2>2, <2>3 DEF ParserInv
<1>3. CASE Refused
  BY <1>1, <1>3 DEF Refused, ParserInv, SharesSumTo100
<1>4. CASE OptionsTaken
  <2>1. argv' = argv /\ ps.error = 0 /\ ps' = Validate(ps)
    BY <1>4 DEF OptionsTaken
  <2>2. CASE ~Acceptable(ps)
    <3>1. ps' = [ps EXCEPT !.error = 1]
      BY <2>1, <2>2 DEF Validate, Refuse
    <3>2. ps' \in ParserState /\ ps'.error # 0
      BY <1>1, <3>1 DEF ParserState
    <3>3. phase' = "usage"
      BY <1>4, <3>2 DEF OptionsTaken
    <3>4. QED
      BY <1>1, <2>1, <3>2, <3>3 DEF ParserInv, SharesSumTo100
  <2>3. CASE Acceptable(ps)
    <3>1. ps' = [ps EXCEPT !.cfg.share = FilledShares(ps),
                           !.cfg.arrivalMode = EffectiveMode(ps)]
      BY <2>1, <2>3 DEF Validate
    <3>2. FilledShares(ps) \in [Device -> Int]
      BY <1>1, FilledType
    <3>3. EffectiveMode(ps) \in ArrivalMode
      BY <1>1 DEF EffectiveMode, ArrivalMode, ParserState, SimConfig
    <3>4. ps' \in ParserState /\ ps'.cfg.share = FilledShares(ps) /\ ps'.explicit = ps.explicit
      BY <1>1, <3>1, <3>2, <3>3 DEF ParserState, SimConfig
    <3>5. ASSUME SmallShares(ps') PROVE Total(FilledShares(ps)) = 100
      <4>1. \A d \in ps.explicit : FilledShares(ps)[d] = ps.cfg.share[d]
        BY <1>1 DEF FilledShares, ParserState
      <4>2. SmallShares(ps)
        BY <3>4, <3>5, <4>1 DEF SmallShares
      <4>3. SharesFit(ps)
        BY <2>3 DEF Acceptable
      <4>4. QED
        BY <1>1, <4>2, <4>3, Completed
    <3>6. SharesSumTo100'
      BY <3>4, <3>5 DEF SharesSumTo100, Total
    <3>7. QED
      BY <1>1, <2>1, <3>4, <3>6 DEF ParserInv
  <2>4. QED
    BY <2>2, <2>3
<1>5. CASE Configure
  <2>1. phase = "configured" /\ ps' = ps /\ argv' = argv
    BY <1>5 DEF Configure
  <2>2. QED
    BY <1>1, <2>1 DEF ParserInv, SharesSumTo100
<1>6. CASE SpawnSome \/ Run
  <2>1. phase = "spawning" /\ ps' = ps /\ argv' = argv
    BY <1>6 DEF SpawnSome, Run
  <2>2. QED
    BY <1>1, <2>1 DEF ParserInv, SharesSumTo100
<1>7. CASE UNCHANGED startVars
  BY <1>1, <1>7 DEF startVars, progVars, ParserInv, SharesSumTo100
<1>8. QED
  BY <1>2, <1>3, <1>4, <1>5, <1>6, <1>7 DEF Program

\* Whatever shares a command line gives, in whatever order and however often,
\* the three that parse_args leaves sum to 100 when the line is accepted.
THEOREM SharesComplete == StartupSpec => []SharesSumTo100
<1>1. ShellInit => ParserInv
  BY InitParser
<1>2. ParserInv /\ [Program]_startVars => ParserInv'
  BY StepParser
<1>3. ParserInv => SharesSumTo100
  BY DEF ParserInv
<1>4. QED
  BY <1>1, <1>2, <1>3, PTL DEF StartupSpec

-----------------------------------------------------------------------------
(* The order of options.                                                   *)

\* The options that no state of the parser refuses, the help apart.
Accepted(o) ==
    /\ o.opt \in {"int", "lambda", "share", "duration", "service", "mode", "arrivalMode",
                  "trace", "interactive", "emit", "serve", "file"}
    /\ o.opt \in {"int", "lambda", "share"} => Strict(o.text)
    /\ o.opt = "arrivalMode" => o.text.word \in ArrivalMode
    /\ o.opt = "serve" => o.key = "" \/ (Strict(o.text) /\ IsPort(AsInt(o.text.lo)))

\* What such an option makes of each field: a value of its own, or what was
\* there.
NumAfter(num, o) ==
    CASE o.opt = "int" -> [num EXCEPT ![o.key] = AsInt(o.text.lo)]
      [] o.opt = "lambda" -> [num EXCEPT !["lambda"] = o.text.lo]
      [] OTHER -> num
ShareAfter(share, o) ==
    IF o.opt = "share" THEN [share EXCEPT ![o.key] = AsInt(o.text.lo)] ELSE share
DurationAfter(duration, o) ==
    IF o.opt = "duration" THEN [duration EXCEPT ![o.key] = ParseDuration(o.text)] ELSE duration
ModeAfter(mode, o) ==
    IF o.opt = "mode" THEN [mode EXCEPT ![o.key] = ParseIoMode(o.text)] ELSE mode
RunModeAfter(mode, o) ==
    IF o.opt = "int" /\ o.key = "steps" THEN "steps"
    ELSE IF o.opt = "interactive" THEN "interactive" ELSE mode
PortAfter(port, o) ==
    IF o.opt # "serve" THEN port
    ELSE IF o.key = "" THEN AnyPort ELSE AsInt(o.text.lo)

Effect(s, o, t) ==
    /\ t.cfg.num = NumAfter(s.cfg.num, o)
    /\ t.cfg.service = IF o.opt = "service" THEN ParseDuration(o.text) ELSE s.cfg.service
    /\ t.cfg.share = ShareAfter(s.cfg.share, o)
    /\ t.cfg.duration = DurationAfter(s.cfg.duration, o)
    /\ t.cfg.mode = ModeAfter(s.cfg.mode, o)
    /\ t.cfg.arrivalMode = IF o.opt = "arrivalMode" THEN o.text.word ELSE s.cfg.arrivalMode
    /\ t.cfg.runMode = RunModeAfter(s.cfg.runMode, o)
    /\ t.cfg.trace = IF o.opt = "trace" THEN TRUE ELSE s.cfg.trace
    /\ t.cfg.scenario = IF o.opt = "file" /\ s.cfg.scenario = "" THEN o.key ELSE s.cfg.scenario
    /\ t.cfg.emit = IF o.opt = "emit" THEN TRUE ELSE s.cfg.emit
    /\ t.cfg.port = PortAfter(s.cfg.port, o)
    /\ t.explicit = IF o.opt = "share" THEN s.explicit \cup {o.key} ELSE s.explicit
    /\ t.rateSet = IF o.opt = "int" /\ o.key = "arrivalRate" THEN TRUE ELSE s.rateSet
    /\ t.modeSet = IF o.opt = "arrivalMode" THEN TRUE ELSE s.modeSet
    /\ t.error = s.error

\* A state of the parser is its fields.
Whole(c) ==
    [num |-> c.num, service |-> c.service, share |-> c.share, duration |-> c.duration,
     mode |-> c.mode, arrivalMode |-> c.arrivalMode, runMode |-> c.runMode,
     trace |-> c.trace, scenario |-> c.scenario, emit |-> c.emit, port |-> c.port]

LEMMA ConfigWhole == ASSUME NEW c \in SimConfig PROVE c = Whole(c)
BY DEF SimConfig, Whole

LEMMA SameFields ==
    ASSUME NEW s \in ParserState, NEW t \in ParserState,
           s.cfg.num = t.cfg.num, s.cfg.service = t.cfg.service, s.cfg.share = t.cfg.share,
           s.cfg.duration = t.cfg.duration, s.cfg.mode = t.cfg.mode,
           s.cfg.arrivalMode = t.cfg.arrivalMode, s.cfg.runMode = t.cfg.runMode,
           s.cfg.trace = t.cfg.trace, s.cfg.scenario = t.cfg.scenario,
           s.cfg.emit = t.cfg.emit, s.cfg.port = t.cfg.port,
           s.explicit = t.explicit, s.rateSet = t.rateSet, s.modeSet = t.modeSet,
           s.error = t.error
    PROVE  s = t
<1>1. s.cfg \in SimConfig /\ t.cfg \in SimConfig
  BY DEF ParserState
<1>2. s.cfg = t.cfg
  <2>1. s.cfg = Whole(s.cfg) /\ t.cfg = Whole(t.cfg)
    BY <1>1, ConfigWhole
  <2>2. Whole(s.cfg) = Whole(t.cfg)
    BY DEF Whole
  <2>3. QED
    BY <2>1, <2>2
<1>3. QED
  BY <1>2 DEF ParserState

LEMMA Refusing ==
    ASSUME NEW s \in ParserState, NEW o, o.opt # "help", ~Accepted(o)
    PROVE  Take(s, o).error = 1
<1>1. Refuse(s).error = 1
  BY DEF Refuse, ParserState
<1>2. CASE o.opt = "int"
  BY <1>1, <1>2 DEF Accepted, Take, TakeInt
<1>3. CASE o.opt = "lambda"
  BY <1>1, <1>3 DEF Accepted, Take, TakeLambda
<1>4. CASE o.opt = "share"
  BY <1>1, <1>4 DEF Accepted, Take, TakeShare
<1>5. CASE o.opt = "arrivalMode"
  BY <1>1, <1>5 DEF Accepted, Take, TakeArrivalMode
<1>6. CASE o.opt = "serve"
  BY <1>1, <1>6 DEF Accepted, Take, TakeServe
<1>7. QED
  BY <1>1, <1>2, <1>3, <1>4, <1>5, <1>6 DEF Accepted, Take

\* An option that is accepted has its effect and no other.
LEMMA Accepting ==
    ASSUME NEW s \in ParserState, NEW o, Legible(o), Accepted(o)
    PROVE  Take(s, o) \in ParserState /\ Effect(s, o, Take(s, o))
<1>1. Take(s, o) \in ParserState
  BY TakeShape
<1>2. s.cfg \in SimConfig
  BY DEF ParserState
<1> DEFINE Kept(c) ==
        /\ c.arrivalMode = s.cfg.arrivalMode /\ c.runMode = s.cfg.runMode
        /\ c.trace = s.cfg.trace /\ c.scenario = s.cfg.scenario
        /\ c.emit = s.cfg.emit /\ c.port = s.cfg.port
           Data(c) ==
        /\ c.num = s.cfg.num /\ c.service = s.cfg.service /\ c.share = s.cfg.share
        /\ c.duration = s.cfg.duration /\ c.mode = s.cfg.mode
<1>3. ASSUME NEW c, Take(s, o) = [s EXCEPT !.cfg = c]
      PROVE  /\ Take(s, o).cfg = c /\ Take(s, o).explicit = s.explicit
             /\ Take(s, o).rateSet = s.rateSet /\ Take(s, o).modeSet = s.modeSet
             /\ Take(s, o).error = s.error
  BY <1>3 DEF ParserState
<1>4. CASE o.opt = "int"
  <2> DEFINE r == s.rateSet \/ o.key = "arrivalRate"
             m == IF o.key = "steps" THEN "steps" ELSE s.cfg.runMode
             c == [s.cfg EXCEPT !.num[o.key] = AsInt(o.text.lo), !.runMode = m]
             t == [s EXCEPT !.cfg = c, !.rateSet = r]
  <2>1. o.key \in NumKey /\ Strict(o.text)
    BY <1>4 DEF Legible, Accepted
  <2>2. Take(s, o) = t
    BY <1>2, <1>4, <2>1 DEF Take, TakeInt, ParserState, SimConfig
  <2>3. /\ c.num = [s.cfg.num EXCEPT ![o.key] = AsInt(o.text.lo)]
        /\ c.service = s.cfg.service /\ c.share = s.cfg.share
        /\ c.duration = s.cfg.duration /\ c.mode = s.cfg.mode
        /\ c.arrivalMode = s.cfg.arrivalMode /\ c.runMode = m
        /\ c.trace = s.cfg.trace /\ c.scenario = s.cfg.scenario
        /\ c.emit = s.cfg.emit /\ c.port = s.cfg.port
    BY <1>2 DEF SimConfig
  <2> HIDE DEF c, m
  <2>4. /\ t.cfg = c /\ t.rateSet = (s.rateSet \/ o.key = "arrivalRate")
        /\ t.explicit = s.explicit /\ t.modeSet = s.modeSet /\ t.error = s.error
    BY DEF ParserState
  <2>5. t.rateSet = IF o.key = "arrivalRate" THEN TRUE ELSE s.rateSet
    BY <2>4 DEF ParserState
  <2> HIDE DEF t
  <2>6. QED
    BY <1>1, <1>4, <2>2, <2>3, <2>4, <2>5
       DEF Effect, NumAfter, ShareAfter, DurationAfter, ModeAfter, RunModeAfter, PortAfter, m
<1>5. CASE o.opt = "lambda"
  <2> DEFINE c == [s.cfg EXCEPT !.num["lambda"] = o.text.lo]
  <2>1. Take(s, o) = [s EXCEPT !.cfg = c]
    BY <1>2, <1>5 DEF Take, TakeLambda, Accepted, ParserState
  <2>2. /\ c.num = [s.cfg.num EXCEPT !["lambda"] = o.text.lo]
        /\ c.service = s.cfg.service /\ c.share = s.cfg.share
        /\ c.duration = s.cfg.duration /\ c.mode = s.cfg.mode /\ Kept(c)
    BY <1>2 DEF SimConfig
  <2> HIDE DEF c
  <2>3. QED
    BY <1>1, <1>3, <1>5, <2>1, <2>2
       DEF Effect, NumAfter, ShareAfter, DurationAfter, ModeAfter, RunModeAfter, PortAfter
<1>6. CASE o.opt = "duration"
  <2> DEFINE c == [s.cfg EXCEPT !.duration[o.key] = ParseDuration(o.text)]
  <2>1. Take(s, o) = [s EXCEPT !.cfg = c]
    BY <1>2, <1>6 DEF Take, ParserState
  <2>2. /\ c.num = s.cfg.num /\ c.service = s.cfg.service
        /\ c.share = s.cfg.share /\ c.duration = [s.cfg.duration EXCEPT ![o.key] = ParseDuration(o.text)]
        /\ c.mode = s.cfg.mode /\ Kept(c)
    BY <1>2 DEF SimConfig
  <2> HIDE DEF c
  <2>3. QED
    BY <1>1, <1>3, <1>6, <2>1, <2>2
       DEF Effect, NumAfter, ShareAfter, DurationAfter, ModeAfter, RunModeAfter, PortAfter
<1>7. CASE o.opt = "service"
  <2> DEFINE c == [s.cfg EXCEPT !.service = ParseDuration(o.text)]
  <2>1. Take(s, o) = [s EXCEPT !.cfg = c]
    BY <1>2, <1>7 DEF Take, ParserState
  <2>2. /\ c.num = s.cfg.num /\ c.service = ParseDuration(o.text)
        /\ c.share = s.cfg.share /\ c.duration = s.cfg.duration
        /\ c.mode = s.cfg.mode /\ Kept(c)
    BY <1>2 DEF SimConfig
  <2> HIDE DEF c
  <2>3. QED
    BY <1>1, <1>3, <1>7, <2>1, <2>2
       DEF Effect, NumAfter, ShareAfter, DurationAfter, ModeAfter, RunModeAfter, PortAfter
<1>8. CASE o.opt = "mode"
  <2> DEFINE c == [s.cfg EXCEPT !.mode[o.key] = ParseIoMode(o.text)]
  <2>1. Take(s, o) = [s EXCEPT !.cfg = c]
    BY <1>2, <1>8 DEF Take, ParserState
  <2>2. /\ c.num = s.cfg.num /\ c.service = s.cfg.service
        /\ c.share = s.cfg.share /\ c.duration = s.cfg.duration
        /\ c.mode = [s.cfg.mode EXCEPT ![o.key] = ParseIoMode(o.text)] /\ Kept(c)
    BY <1>2 DEF SimConfig
  <2> HIDE DEF c
  <2>3. QED
    BY <1>1, <1>3, <1>8, <2>1, <2>2
       DEF Effect, NumAfter, ShareAfter, DurationAfter, ModeAfter, RunModeAfter, PortAfter
<1>9. CASE o.opt = "trace"
  <2> DEFINE c == [s.cfg EXCEPT !.trace = TRUE]
  <2>1. Take(s, o) = [s EXCEPT !.cfg = c]
    BY <1>2, <1>9 DEF Take, ParserState
  <2>2. /\ Data(c) /\ c.arrivalMode = s.cfg.arrivalMode
        /\ c.runMode = s.cfg.runMode /\ c.trace = TRUE
        /\ c.scenario = s.cfg.scenario /\ c.emit = s.cfg.emit
        /\ c.port = s.cfg.port
    BY <1>2 DEF SimConfig
  <2> HIDE DEF c
  <2>3. QED
    BY <1>1, <1>3, <1>9, <2>1, <2>2
       DEF Effect, NumAfter, ShareAfter, DurationAfter, ModeAfter, RunModeAfter, PortAfter
<1>10. CASE o.opt = "interactive"
  <2> DEFINE c == [s.cfg EXCEPT !.runMode = "interactive"]
  <2>1. Take(s, o) = [s EXCEPT !.cfg = c]
    BY <1>2, <1>10 DEF Take, ParserState
  <2>2. /\ Data(c) /\ c.arrivalMode = s.cfg.arrivalMode
        /\ c.runMode = "interactive" /\ c.trace = s.cfg.trace
        /\ c.scenario = s.cfg.scenario /\ c.emit = s.cfg.emit
        /\ c.port = s.cfg.port
    BY <1>2 DEF SimConfig
  <2> HIDE DEF c
  <2>3. QED
    BY <1>1, <1>3, <1>10, <2>1, <2>2
       DEF Effect, NumAfter, ShareAfter, DurationAfter, ModeAfter, RunModeAfter, PortAfter
<1>11. CASE o.opt = "emit"
  <2> DEFINE c == [s.cfg EXCEPT !.emit = TRUE]
  <2>1. Take(s, o) = [s EXCEPT !.cfg = c]
    BY <1>2, <1>11 DEF Take, ParserState
  <2>2. /\ Data(c) /\ c.arrivalMode = s.cfg.arrivalMode
        /\ c.runMode = s.cfg.runMode /\ c.trace = s.cfg.trace
        /\ c.scenario = s.cfg.scenario /\ c.emit = TRUE
        /\ c.port = s.cfg.port
    BY <1>2 DEF SimConfig
  <2> HIDE DEF c
  <2>3. QED
    BY <1>1, <1>3, <1>11, <2>1, <2>2
       DEF Effect, NumAfter, ShareAfter, DurationAfter, ModeAfter, RunModeAfter, PortAfter
<1>12. CASE o.opt = "serve"
  <2> DEFINE n == IF o.key = "" THEN AnyPort ELSE AsInt(o.text.lo)
             c == [s.cfg EXCEPT !.port = n]
  <2>1. Take(s, o) = [s EXCEPT !.cfg = c]
    BY <1>2, <1>12 DEF Take, TakeServe, Accepted, ParserState
  <2>2. /\ Data(c) /\ c.arrivalMode = s.cfg.arrivalMode
        /\ c.runMode = s.cfg.runMode /\ c.trace = s.cfg.trace
        /\ c.scenario = s.cfg.scenario /\ c.emit = s.cfg.emit
        /\ c.port = n
    BY <1>2 DEF SimConfig
  <2> HIDE DEF c
  <2>3. QED
    BY <1>1, <1>3, <1>12, <2>1, <2>2
       DEF Effect, NumAfter, ShareAfter, DurationAfter, ModeAfter, RunModeAfter, PortAfter
<1>13. CASE o.opt = "file"
  <2> DEFINE f == IF s.cfg.scenario = "" THEN o.key ELSE s.cfg.scenario
             c == [s.cfg EXCEPT !.scenario = f]
  <2>1. Take(s, o) = [s EXCEPT !.cfg = c]
    BY <1>2, <1>13 DEF Take, TakeFile, ParserState, SimConfig
  <2>2. /\ Data(c) /\ c.arrivalMode = s.cfg.arrivalMode
        /\ c.runMode = s.cfg.runMode /\ c.trace = s.cfg.trace
        /\ c.scenario = f /\ c.emit = s.cfg.emit
        /\ c.port = s.cfg.port
    BY <1>2 DEF SimConfig
  <2> HIDE DEF c
  <2>3. QED
    BY <1>1, <1>3, <1>13, <2>1, <2>2
       DEF Effect, NumAfter, ShareAfter, DurationAfter, ModeAfter, RunModeAfter, PortAfter
<1>14. CASE o.opt = "share"
  <2> DEFINE c == [s.cfg EXCEPT !.share[o.key] = AsInt(o.text.lo)]
             e == s.explicit \cup {o.key}
             t == [s EXCEPT !.cfg = c, !.explicit = e]
  <2>1. Take(s, o) = t
    BY <1>2, <1>14 DEF Take, TakeShare, Accepted, ParserState
  <2>2. /\ c.num = s.cfg.num /\ c.service = s.cfg.service
        /\ c.share = [s.cfg.share EXCEPT ![o.key] = AsInt(o.text.lo)]
        /\ c.duration = s.cfg.duration /\ c.mode = s.cfg.mode /\ Kept(c)
    BY <1>2 DEF SimConfig
  <2> HIDE DEF c, e
  <2>3. /\ t.cfg = c /\ t.explicit = e /\ t.rateSet = s.rateSet
        /\ t.modeSet = s.modeSet /\ t.error = s.error
    BY DEF ParserState
  <2> HIDE DEF t
  <2>4. QED
    BY <1>1, <1>14, <2>1, <2>2, <2>3
       DEF Effect, NumAfter, ShareAfter, DurationAfter, ModeAfter, RunModeAfter, PortAfter, e
<1>15. CASE o.opt = "arrivalMode"
  <2> DEFINE c == [s.cfg EXCEPT !.arrivalMode = o.text.word]
             t == [s EXCEPT !.cfg = c, !.modeSet = TRUE]
  <2>1. Take(s, o) = t
    BY <1>2, <1>15 DEF Take, TakeArrivalMode, Accepted, ParserState
  <2>2. /\ Data(c) /\ c.arrivalMode = o.text.word
        /\ c.runMode = s.cfg.runMode /\ c.trace = s.cfg.trace
        /\ c.scenario = s.cfg.scenario /\ c.emit = s.cfg.emit
        /\ c.port = s.cfg.port
    BY <1>2 DEF SimConfig
  <2> HIDE DEF c
  <2>3. /\ t.cfg = c /\ t.explicit = s.explicit /\ t.rateSet = s.rateSet
        /\ t.modeSet = TRUE /\ t.error = s.error
    BY DEF ParserState
  <2> HIDE DEF t
  <2>4. QED
    BY <1>1, <1>15, <2>1, <2>2, <2>3
       DEF Effect, NumAfter, ShareAfter, DurationAfter, ModeAfter, RunModeAfter, PortAfter
<1>16. QED
  BY <1>4, <1>5, <1>6, <1>7, <1>8, <1>9, <1>10, <1>11, <1>12, <1>13, <1>14, <1>15 DEF Accepted

\* Options that decide different things touch different fields, or different
\* places of one.
LEMMA SubjectsDiffer ==
    ASSUME NEW a \in CommandOption, NEW b \in CommandOption, Subject(a) # Subject(b)
    PROVE  /\ a.opt \in {"int", "share", "duration", "mode"} /\ a.opt = b.opt => a.key # b.key
           /\ a.opt \in {"lambda", "service", "arrivalMode", "interactive", "serve", "file"} =>
                 a.opt # b.opt
           /\ a.opt = "interactive" => ~(b.opt = "int" /\ b.key = "steps")
           /\ b.opt = "interactive" => ~(a.opt = "int" /\ a.key = "steps")
           /\ a.opt = "int" => a.key # "lambda"
           /\ b.opt = "int" => b.key # "lambda"
<1>1. /\ a.opt = "int" => a.key # "lambda"
      /\ b.opt = "int" => b.key # "lambda"
      /\ a.opt \in {"lambda", "service", "arrivalMode"} => a.key = ""
      /\ b.opt \in {"lambda", "service", "arrivalMode"} => b.key = ""
  BY DEF CommandOption
<1>2. a.opt \in {"int", "share", "duration", "mode"} /\ a.opt = b.opt => a.key # b.key
  BY DEF Subject
<1>3. a.opt \in {"lambda", "service", "arrivalMode"} => a.opt # b.opt
  BY <1>1 DEF Subject
<1>4. a.opt \in {"interactive", "serve", "file"} => a.opt # b.opt
  BY DEF Subject
<1>5. a.opt = "interactive" => ~(b.opt = "int" /\ b.key = "steps")
  BY DEF Subject
<1>6. b.opt = "interactive" => ~(a.opt = "int" /\ a.key = "steps")
  BY DEF Subject
<1>7. QED
  BY <1>1, <1>2, <1>3, <1>4, <1>5, <1>6

\* Two writes to different places of a function meet in the same function.
LEMMA WritesCommute ==
    ASSUME NEW f, NEW i, NEW j, i # j, NEW x, NEW y
    PROVE  [[f EXCEPT ![i] = x] EXCEPT ![j] = y] = [[f EXCEPT ![j] = y] EXCEPT ![i] = x]
OBVIOUS

\* Accepted options that decide different things can be taken in either order.
LEMMA EffectsCommute ==
    ASSUME NEW s \in ParserState,
           NEW a \in CommandOption, NEW b \in CommandOption, Subject(a) # Subject(b),
           Accepted(a), Accepted(b)
    PROVE  Take(Take(s, a), b) = Take(Take(s, b), a)
<1> DEFINE sa == Take(s, a)
           sb == Take(s, b)
           sab == Take(sa, b)
           sba == Take(sb, a)
<1>1. sa \in ParserState /\ Effect(s, a, sa) /\ sb \in ParserState /\ Effect(s, b, sb)
  BY OptionsLegible, Accepting
<1> HIDE DEF sa, sb
<1>2. sab \in ParserState /\ Effect(sa, b, sab) /\ sba \in ParserState /\ Effect(sb, a, sba)
  BY <1>1, OptionsLegible, Accepting
<1> HIDE DEF sab, sba
<1>3. /\ a.opt \in {"int", "share", "duration", "mode"} /\ a.opt = b.opt => a.key # b.key
      /\ a.opt \in {"lambda", "service", "arrivalMode", "interactive", "serve", "file"} =>
            a.opt # b.opt
      /\ a.opt = "interactive" => ~(b.opt = "int" /\ b.key = "steps")
      /\ b.opt = "interactive" => ~(a.opt = "int" /\ a.key = "steps")
      /\ a.opt = "int" => a.key # "lambda"
      /\ b.opt = "int" => b.key # "lambda"
  BY SubjectsDiffer
<1>4. sab.cfg.num = sba.cfg.num
  <2>1. /\ sab.cfg.num = NumAfter(NumAfter(s.cfg.num, a), b)
        /\ sba.cfg.num = NumAfter(NumAfter(s.cfg.num, b), a)
    BY <1>1, <1>2 DEF Effect
  <2>2. QED
    BY <1>3, <2>1, WritesCommute DEF NumAfter
<1>5. sab.cfg.share = sba.cfg.share
  <2>1. /\ sab.cfg.share = ShareAfter(ShareAfter(s.cfg.share, a), b)
        /\ sba.cfg.share = ShareAfter(ShareAfter(s.cfg.share, b), a)
    BY <1>1, <1>2 DEF Effect
  <2>2. QED
    BY <1>3, <2>1, WritesCommute DEF ShareAfter
<1>6. sab.cfg.duration = sba.cfg.duration
  <2>1. /\ sab.cfg.duration = DurationAfter(DurationAfter(s.cfg.duration, a), b)
        /\ sba.cfg.duration = DurationAfter(DurationAfter(s.cfg.duration, b), a)
    BY <1>1, <1>2 DEF Effect
  <2>2. QED
    BY <1>3, <2>1, WritesCommute DEF DurationAfter
<1>7. sab.cfg.mode = sba.cfg.mode
  <2>1. /\ sab.cfg.mode = ModeAfter(ModeAfter(s.cfg.mode, a), b)
        /\ sba.cfg.mode = ModeAfter(ModeAfter(s.cfg.mode, b), a)
    BY <1>1, <1>2 DEF Effect
  <2>2. QED
    BY <1>3, <2>1, WritesCommute DEF ModeAfter
<1>8. sab.cfg.service = sba.cfg.service /\ sab.cfg.arrivalMode = sba.cfg.arrivalMode
  BY <1>1, <1>2, <1>3 DEF Effect
<1>9. sab.cfg.runMode = sba.cfg.runMode
  BY <1>1, <1>2, <1>3 DEF Effect, RunModeAfter
<1>10. sab.cfg.trace = sba.cfg.trace /\ sab.cfg.emit = sba.cfg.emit
  BY <1>1, <1>2 DEF Effect
<1>11. sab.cfg.scenario = sba.cfg.scenario
  BY <1>1, <1>2, <1>3 DEF Effect
<1>12. sab.cfg.port = sba.cfg.port
  BY <1>1, <1>2, <1>3 DEF Effect, PortAfter
<1>13. sab.explicit = sba.explicit
  BY <1>1, <1>2 DEF Effect
<1>14. /\ sab.rateSet = sba.rateSet /\ sab.modeSet = sba.modeSet /\ sab.error = sba.error
  BY <1>1, <1>2 DEF Effect
<1>15. sab = sba
  BY <1>2, <1>4, <1>5, <1>6, <1>7, <1>8, <1>9, <1>10, <1>11, <1>12, <1>13, <1>14, SameFields
<1>16. QED
  BY <1>15 DEF sa, sb, sab, sba

\* One step of the loop of parse_args.
TakeNext(s, o) == IF s.error = 0 THEN Take(s, o) ELSE s
Agree(s, t) == s = t \/ (s.error = 1 /\ t.error = 1)

LEMMA StepsCommute ==
    ASSUME NEW s \in ParserState,
           NEW a \in CommandOption, NEW b \in CommandOption, Subject(a) # Subject(b),
           a.opt # "help", b.opt # "help"
    PROVE  Agree(TakeNext(TakeNext(s, a), b), TakeNext(TakeNext(s, b), a))
<1>1. CASE s.error # 0
  BY <1>1 DEF TakeNext, Agree
<1>2. CASE s.error = 0
  <2>1. \A t \in ParserState : \A o \in CommandOption :
           t.error = 0 /\ Accepted(o) =>
               TakeNext(t, o) \in ParserState /\ TakeNext(t, o).error = 0
    BY OptionsLegible, Accepting DEF TakeNext, Effect
  <2>2. \A t \in ParserState : \A o \in CommandOption :
           t.error = 0 /\ o.opt # "help" /\ ~Accepted(o) => TakeNext(t, o).error = 1
    BY Refusing DEF TakeNext
  <2>3. CASE Accepted(a) /\ Accepted(b)
    <3>1. Take(s, a).error = 0 /\ Take(s, b).error = 0
      BY <1>2, <2>1, <2>3 DEF TakeNext
    <3>2. QED
      BY <1>2, <2>3, <3>1, EffectsCommute DEF TakeNext, Agree
  <2>4. \A t : t.error = 1 => \A o : TakeNext(t, o) = t
    BY DEF TakeNext
  <2>5. CASE Accepted(a) /\ ~Accepted(b)
    <3>1. TakeNext(s, b).error = 1
      BY <1>2, <2>2, <2>5
    <3>2. TakeNext(s, a) \in ParserState /\ TakeNext(s, a).error = 0
      BY <1>2, <2>1, <2>5
    <3>3. TakeNext(TakeNext(s, a), b).error = 1
      BY <2>2, <2>5, <3>2
    <3>4. QED
      BY <2>4, <3>1, <3>3 DEF Agree
  <2>6. CASE ~Accepted(a) /\ Accepted(b)
    <3>1. TakeNext(s, a).error = 1
      BY <1>2, <2>2, <2>6
    <3>2. TakeNext(s, b) \in ParserState /\ TakeNext(s, b).error = 0
      BY <1>2, <2>1, <2>6
    <3>3. TakeNext(TakeNext(s, b), a).error = 1
      BY <2>2, <2>6, <3>2
    <3>4. QED
      BY <2>4, <3>1, <3>3 DEF Agree
  <2>7. CASE ~Accepted(a) /\ ~Accepted(b)
    <3>1. TakeNext(s, a).error = 1 /\ TakeNext(s, b).error = 1
      BY <1>2, <2>2, <2>7
    <3>2. QED
      BY <2>4, <3>1 DEF Agree
  <2>8. QED
    BY <2>3, <2>5, <2>6, <2>7
<1>3. QED
  BY <1>1, <1>2

\* The loop of parse_args: after[i] is the state after i options.
Loops(after, options) ==
    /\ after[0] = ParserStart
    /\ \A i \in 1..Len(options) : after[i] = TakeNext(after[i - 1], options[i])
Verdict(s) == IF s.error # 0 THEN s ELSE Validate(s)

LEMMA ArgsRecursion ==
    ASSUME NEW options, Len(options) \in Nat
    PROVE  \E after : Loops(after, options) /\ ParseArgs(options) = Verdict(after[Len(options)])
<1> DEFINE n == Len(options)
           Body(s, i) == IF i = 0 THEN ParserStart
                         ELSE IF s.error = 0 THEN Take(s, options[i]) ELSE s
           Loop(a, m) == a = [i \in 0..m |-> Body(a[i - 1], i)]
           T == {m \in Nat : \E a : Loop(a, m)}
<1>1. ParseArgs(options) = Verdict((CHOOSE a : Loop(a, n))[n])
  BY DEF ParseArgs, Verdict
<1>2. \A s, t : Body(s, 0) = Body(t, 0)
  OBVIOUS
<1>3. \A s : Body(s, 0) = ParserStart /\ \A i \in 1..n : Body(s, i) = TakeNext(s, options[i])
  BY DEF TakeNext
<1> HIDE DEF Body
<1>4. 0 \in T
  <2> DEFINE a == [i \in 0..0 |-> Body(0, 0)]
  <2>1. \A i \in 0..0 : a[i] = Body(a[i - 1], i)
    <3> SUFFICES Body(0, 0) = Body(a[0 - 1], 0)
      OBVIOUS
    <3> HIDE DEF a
    <3>1. QED
      BY <1>2
  <2>2. Loop(a, 0)
    BY <2>1
  <2>3. QED
    BY <2>2
<1>5. ASSUME NEW m \in T PROVE m + 1 \in T
  <2>1. PICK a : Loop(a, m)
    OBVIOUS
  <2>2. \A i \in 0..m : a[i] = Body(a[i - 1], i)
    BY <2>1
  <2> DEFINE b == [i \in 0..(m + 1) |-> IF i = m + 1 THEN Body(a[m], m + 1) ELSE a[i]]
  <2>3. ASSUME NEW i \in 0..(m + 1) PROVE b[i] = Body(b[i - 1], i)
    <3>1. CASE i = 0
      <4>1. b[0] = Body(a[0 - 1], 0)
        BY <2>2
      <4> HIDE DEF b
      <4>2. QED
        BY <1>2, <3>1, <4>1
    <3>2. CASE i \in 1..m
      <4>1. b[i] = a[i] /\ b[i - 1] = a[i - 1]
        BY <3>2
      <4>2. QED
        BY <2>2, <3>2, <4>1
    <3>3. CASE i = m + 1
      <4>1. b[i] = Body(a[m], m + 1) /\ b[i - 1] = a[m]
        BY <3>3
      <4>2. QED
        BY <3>3, <4>1
    <3>4. QED
      BY <3>1, <3>2, <3>3
  <2>4. Loop(b, m + 1)
    BY <2>3
  <2> HIDE DEF Loop, b
  <2>5. QED
    BY <2>4
<1>6. n \in T
  <2> HIDE DEF T
  <2>1. T \subseteq Nat
    BY DEF T
  <2>2. QED
    BY <1>4, <1>5, <2>1, SetInduction
<1> DEFINE after == CHOOSE a : Loop(a, n)
<1>7. Loop(after, n)
  <2>1. \E a : Loop(a, n)
    BY <1>6
  <2> HIDE DEF Loop
  <2>2. QED
    BY <2>1
<1>8. ParseArgs(options) = Verdict(after[n])
  BY <1>1
<1> HIDE DEF after
<1>9. \A i \in 0..n : after[i] = Body(after[i - 1], i)
  BY <1>7
<1>10. Loops(after, options)
  <2>1. after[0] = ParserStart
    BY <1>3, <1>9
  <2>2. \A i \in 1..n : after[i] = TakeNext(after[i - 1], options[i])
    BY <1>3, <1>9
  <2>3. QED
    BY <2>1, <2>2 DEF Loops
<1>11. QED
  BY <1>8, <1>10

\* Two options that are next to each other and decide different things change
\* places: the states of the two loops are the same before them, agree after
\* them, and so to the end.
LEMMA SwapAgrees ==
    ASSUME NEW options \in Seq(CommandOption), NEW i \in 1..(Len(options) - 1),
           Subject(options[i]) # Subject(options[i + 1]),
           options[i].opt # "help", options[i + 1].opt # "help"
    PROVE  LET one == ParseArgs(options)
               other == ParseArgs(Swapped(options, i))
           IN  one = other \/ (one.error = 1 /\ other.error = 1)
<1> DEFINE n == Len(options)
           swapped == Swapped(options, i)
<1>1. /\ n \in Nat /\ i \in Nat /\ 1 <= i /\ i + 1 <= n /\ Len(swapped) = n
      /\ \A k \in 1..n : options[k] \in CommandOption
      /\ \A k \in 1..n : k # i /\ k # i + 1 => swapped[k] = options[k]
      /\ swapped[i] = options[i + 1] /\ swapped[i + 1] = options[i]
  BY DEF Swapped
<1> HIDE DEF n, swapped
<1>2. PICK f : Loops(f, options) /\ ParseArgs(options) = Verdict(f[n])
  BY <1>1, ArgsRecursion DEF n
<1>3. PICK g : Loops(g, swapped) /\ ParseArgs(swapped) = Verdict(g[n])
  BY <1>1, ArgsRecursion
<1>4. /\ f[0] = ParserStart /\ \A k \in 1..n : f[k] = TakeNext(f[k - 1], options[k])
      /\ g[0] = ParserStart /\ \A k \in 1..n : g[k] = TakeNext(g[k - 1], swapped[k])
  BY <1>1, <1>2, <1>3 DEF Loops, n
<1> DEFINE Before == {k \in Nat : k < i => f[k] = g[k] /\ f[k] \in ParserState}
<1>5. Before = Nat
  <2>1. 0 \in Before
    BY <1>4, StartShape
  <2>2. ASSUME NEW k \in Before PROVE k + 1 \in Before
    <3> SUFFICES ASSUME k + 1 < i PROVE f[k + 1] = g[k + 1] /\ f[k + 1] \in ParserState
      OBVIOUS
    <3>1. k + 1 \in 1..n /\ k + 1 # i /\ k + 1 # i + 1 /\ (k + 1) - 1 = k
      BY <1>1
    <3>2. f[k + 1] = TakeNext(f[k], options[k + 1]) /\ g[k + 1] = TakeNext(g[k], options[k + 1])
      BY <1>1, <1>4, <3>1
    <3>3. f[k] = g[k] /\ f[k] \in ParserState /\ options[k + 1] \in CommandOption
      BY <1>1, <3>1
    <3>4. TakeNext(f[k], options[k + 1]) \in ParserState
      BY <3>3, OptionsLegible, TakeShape DEF TakeNext
    <3>5. QED
      BY <3>2, <3>3, <3>4
  <2> HIDE DEF Before
  <2>3. Before \subseteq Nat
    BY DEF Before
  <2>4. QED
    BY <2>1, <2>2, <2>3, SetInduction
<1>6. Agree(f[i + 1], g[i + 1])
  <2>1. i - 1 \in Nat /\ i - 1 < i /\ i \in 1..n /\ i + 1 \in 1..n /\ (i + 1) - 1 = i
    BY <1>1
  <2>2. f[i - 1] = g[i - 1] /\ f[i - 1] \in ParserState
    BY <1>5, <2>1
  <2>3. f[i] = TakeNext(f[i - 1], options[i]) /\ g[i] = TakeNext(g[i - 1], options[i + 1])
    BY <1>1, <1>4, <2>1
  <2>4. f[i + 1] = TakeNext(f[i], options[i + 1]) /\ g[i + 1] = TakeNext(g[i], options[i])
    BY <1>1, <1>4, <2>1
  <2>5. options[i] \in CommandOption /\ options[i + 1] \in CommandOption
    BY <1>1, <2>1
  <2>6. QED
    BY <2>2, <2>3, <2>4, <2>5, StepsCommute
<1> DEFINE After == {k \in Nat : i + 1 + k <= n => Agree(f[i + 1 + k], g[i + 1 + k])}
<1>7. After = Nat
  <2>1. 0 \in After
    BY <1>1, <1>6
  <2>2. ASSUME NEW k \in After PROVE k + 1 \in After
    <3> SUFFICES ASSUME i + 1 + (k + 1) <= n
                 PROVE  Agree(f[i + 1 + (k + 1)], g[i + 1 + (k + 1)])
      OBVIOUS
    <3> DEFINE m == i + 1 + k
    <3>1. /\ k \in Nat /\ m \in Nat /\ m + 1 \in 1..n /\ m + 1 # i /\ m + 1 # i + 1
          /\ (m + 1) - 1 = m /\ i + 1 + (k + 1) = m + 1 /\ m <= n
      BY <1>1
    <3>2. Agree(f[m], g[m])
      BY <3>1
    <3> HIDE DEF m
    <3>3. f[m + 1] = TakeNext(f[m], options[m + 1]) /\ g[m + 1] = TakeNext(g[m], options[m + 1])
      BY <1>1, <1>4, <3>1
    <3>4. Agree(f[m + 1], g[m + 1])
      BY <3>2, <3>3 DEF Agree, TakeNext
    <3>5. QED
      BY <3>1, <3>4
  <2> HIDE DEF After
  <2>3. After \subseteq Nat
    BY DEF After
  <2>4. QED
    BY <2>1, <2>2, <2>3, SetInduction
<1>8. Agree(f[n], g[n])
  <2>1. n - (i + 1) \in Nat /\ i + 1 + (n - (i + 1)) = n /\ n <= n
    BY <1>1
  <2>2. QED
    BY <1>7, <2>1
<1>9. QED
  BY <1>2, <1>3, <1>8 DEF Agree, Verdict, swapped

\* However long the command line, two options next to each other that decide
\* different things, the help apart, can change places: parse_args refuses both
\* lines or makes the same of them.
THEOREM OptionsInAnyOrder == StartupSpec => []OrderIrrelevant
<1>1. ParserInv => OrderIrrelevant
  <2> SUFFICES ASSUME argv \in Seq(CommandOption), NEW i \in 1..(Len(argv) - 1),
                      Subject(argv[i]) # Subject(argv[i + 1]),
                      argv[i].opt # "help", argv[i + 1].opt # "help"
               PROVE  LET one == ParseArgs(argv)
                          other == ParseArgs(Swapped(argv, i))
                      IN  one = other \/ (one.error = 1 /\ other.error = 1)
    BY DEF ParserInv, OrderIrrelevant
  <2>1. QED
    BY SwapAgrees
<1>2. ShellInit => ParserInv
  BY InitParser
<1>3. ParserInv /\ [Program]_startVars => ParserInv'
  BY StepParser
<1>4. QED
  BY <1>1, <1>2, <1>3, PTL DEF StartupSpec

-----------------------------------------------------------------------------
(* Scenario files: the parser keeps the type of what it has parsed, and    *)
(* never touches what only options set.                                    *)

OptionsKept(c, d) ==
    /\ c.arrivalMode = d.arrivalMode
    /\ c.num["arrivalInterval"] = d.num["arrivalInterval"]
    /\ c.emit = d.emit

AllValid(procs) == \A i \in DOMAIN procs : ValidScript(procs[i].script, procs[i].burst)

\* What the parser of files relies on in a line: its numbers are numbers, and
\* its events a sequence.
LegibleText(t) == t.lo \in Int /\ t.hi \in Int
LegibleEvent(e) ==
    LegibleText(e.tick) /\ LegibleText(e.duration) /\ e.hasDuration \in BOOLEAN
LegibleLine(ln) ==
    /\ ln.opt \in {"int", "share", "duration", "service", "mode", "arrival", "burst"} =>
          LegibleText(ln.text)
    /\ ln.opt \in {"share", "duration", "mode"} => ln.key \in Device
    /\ ln.opt = "io" => /\ Len(ln.events) \in Nat
                        /\ ln.events = [j \in 1..Len(ln.events) |-> ln.events[j]]
                        /\ \A j \in 1..Len(ln.events) : LegibleEvent(ln.events[j])
LegibleLines(lines) ==
    Len(lines) \in Nat /\ \A i \in 1..Len(lines) : LegibleLine(lines[i])

LEMMA RangeType == ASSUME NEW t, LegibleText(t) PROVE RangeToDuration(t) \in Duration
<1>1. AsInt(t.lo) \in Int /\ AsInt(t.hi) \in Int
  BY AsIntType DEF LegibleText
<1>2. QED
  BY <1>1 DEF RangeToDuration, Span, Duration

LEMMA RejectType ==
    ASSUME NEW sc \in Scenario
    PROVE  Reject(sc) \in Scenario /\ Reject(sc).cfg = sc.cfg /\ ~Reject(sc).ok
BY DEF Reject, Scenario

LEMMA LinesLegible == ASSUME NEW lines \in Seq(ScenarioLine) PROVE LegibleLines(lines)
<1>1. ASSUME NEW ln \in ScenarioLine PROVE LegibleLine(ln)
  <2>1. CASE ln \in {o \in CommandOption : o.opt # "io"}
    BY <2>1 DEF CommandOption, Text, LegibleLine, LegibleText
  <2>2. CASE ln = ProcessHeader
    BY <2>2 DEF ProcessHeader, LegibleLine
  <2>3. CASE ln \in [opt : {"io"}, key : {""}, events : Seq(TimelineEvent)]
    <3>1. ln.events \in Seq(TimelineEvent) /\ ln.opt = "io"
      BY <2>3
    <3>2. \A e \in TimelineEvent : LegibleEvent(e)
      BY DEF TimelineEvent, Text, LegibleEvent, LegibleText
    <3>3. QED
      BY <3>1, <3>2 DEF LegibleLine
  <2>4. QED
    BY <2>1, <2>2, <2>3 DEF ScenarioLine
<1>2. QED
  BY <1>1 DEF LegibleLines

LEMMA GlobalType ==
    ASSUME NEW sc \in Scenario, NEW ln, LegibleLine(ln)
    PROVE  ApplyGlobal(sc, ln) \in Scenario /\ OptionsKept(ApplyGlobal(sc, ln).cfg, sc.cfg)
<1> DEFINE r == ApplyGlobal(sc, ln)
           t == ln.text
<1>1. sc.cfg \in SimConfig /\ sc.ok \in BOOLEAN /\ sc.procs \in Seq(ScenarioProcess)
  BY DEF Scenario
<1>2. ASSUME NEW c \in SimConfig, OptionsKept(c, sc.cfg), r = [sc EXCEPT !.cfg = c]
      PROVE  r \in Scenario /\ OptionsKept(r.cfg, sc.cfg)
  <2>1. [sc EXCEPT !.cfg = c] \in Scenario /\ [sc EXCEPT !.cfg = c].cfg = c
    BY <1>1, <1>2 DEF Scenario
  <2>2. QED
    BY <1>2, <2>1
<1>3. ASSUME r = Reject(sc) PROVE r \in Scenario /\ OptionsKept(r.cfg, sc.cfg)
  BY <1>3, RejectType DEF OptionsKept
<1>4. ASSUME ln.opt \in {"int", "share", "duration", "service", "mode"}
      PROVE  /\ LegibleText(t) /\ AsInt(t.lo) \in Int
             /\ ln.opt \in {"share", "duration", "mode"} => ln.key \in Device
  BY <1>4, AsIntType DEF LegibleLine, LegibleText
<1>5. CASE ln.opt = "int" /\ ln.key \in FileKey /\ Strict(t)
  <2> DEFINE c == [sc.cfg EXCEPT !.num[ln.key] = AsInt(t.lo)]
  <2>1. r = [sc EXCEPT !.cfg = c]
    BY <1>5 DEF ApplyGlobal
  <2>2. c \in SimConfig
    BY <1>1, <1>4, <1>5 DEF SimConfig, FileKey, NumKey
  <2>3. OptionsKept(c, sc.cfg)
    BY <1>1, <1>5 DEF SimConfig, FileKey, NumKey, OptionsKept
  <2>4. QED
    BY <1>2, <2>1, <2>2, <2>3
<1>6. CASE ln.opt = "share" /\ Strict(t)
  <2> DEFINE c == [sc.cfg EXCEPT !.share[ln.key] = AsInt(t.lo)]
  <2>1. r = [sc EXCEPT !.cfg = c]
    BY <1>6 DEF ApplyGlobal
  <2>2. c \in SimConfig /\ OptionsKept(c, sc.cfg)
    BY <1>1, <1>4, <1>6 DEF SimConfig, OptionsKept
  <2>3. QED
    BY <1>2, <2>1, <2>2
<1>7. CASE ln.opt = "duration" /\ DurationOk(t)
  <2> DEFINE c == [sc.cfg EXCEPT !.duration[ln.key] = RangeToDuration(t)]
  <2>1. r = [sc EXCEPT !.cfg = c]
    BY <1>7 DEF ApplyGlobal
  <2>2. RangeToDuration(t) \in Duration
    BY <1>4, <1>7, RangeType
  <2>3. c \in SimConfig /\ OptionsKept(c, sc.cfg)
    BY <1>1, <1>4, <1>7, <2>2 DEF SimConfig, OptionsKept
  <2>4. QED
    BY <1>2, <2>1, <2>3
<1>8. CASE ln.opt = "service" /\ DurationOk(t)
  <2> DEFINE c == [sc.cfg EXCEPT !.service = RangeToDuration(t)]
  <2>1. r = [sc EXCEPT !.cfg = c]
    BY <1>8 DEF ApplyGlobal
  <2>2. RangeToDuration(t) \in Duration
    BY <1>4, <1>8, RangeType
  <2>3. c \in SimConfig /\ OptionsKept(c, sc.cfg)
    BY <1>1, <2>2 DEF SimConfig, OptionsKept
  <2>4. QED
    BY <1>2, <2>1, <2>3
<1>9. CASE ln.opt = "mode" /\ t.word \in IoMode
  <2> DEFINE c == [sc.cfg EXCEPT !.mode[ln.key] = t.word]
  <2>1. r = [sc EXCEPT !.cfg = c]
    BY <1>9 DEF ApplyGlobal
  <2>2. c \in SimConfig /\ OptionsKept(c, sc.cfg)
    BY <1>1, <1>4, <1>9 DEF SimConfig, OptionsKept
  <2>3. QED
    BY <1>2, <2>1, <2>2
<1>10. QED
  BY <1>3, <1>5, <1>6, <1>7, <1>8, <1>9 DEF ApplyGlobal

LEMMA TimelineType ==
    ASSUME NEW ln, LegibleLine(ln), ln.opt = "io",
           \A j \in DOMAIN ln.events : EventOk(ln.events[j])
    PROVE  [j \in DOMAIN ln.events |-> ParseIoEvent(ln.events[j])] \in Seq(ScriptedIO)
<1> DEFINE ev == ln.events
<1>1. Len(ev) \in Nat /\ ev = [j \in 1..Len(ev) |-> ev[j]]
  BY DEF LegibleLine
<1>2. Len(ev) \in Nat /\ DOMAIN ev = 1..Len(ev) /\ \A j \in DOMAIN ev : LegibleEvent(ev[j])
  BY <1>1 DEF LegibleLine
<1>3. ASSUME NEW j \in DOMAIN ev PROVE ParseIoEvent(ev[j]) \in ScriptedIO
  <2>1. ev[j].device \in Device /\ ev[j].hasDuration \in BOOLEAN
    BY <1>2 DEF EventOk, LegibleEvent
  <2>2. AsInt(ev[j].tick.lo) \in Int
    BY <1>2, AsIntType DEF LegibleText, LegibleEvent
  <2>3. RangeToDuration(ev[j].duration) \in Duration
    BY <1>2, RangeType DEF LegibleEvent
  <2>4. Span(0, 0) \in Duration
    BY DEF Span, Duration
  <2>5. QED
    BY <2>1, <2>2, <2>3, <2>4 DEF ParseIoEvent, ScriptedIO
<1>4. [j \in 1..Len(ev) |-> ParseIoEvent(ev[j])] \in [1..Len(ev) -> ScriptedIO]
  BY <1>2, <1>3
<1>5. QED
  BY <1>2, <1>4

LEMMA ProcessType ==
    ASSUME NEW sc \in Scenario, sc.procs # <<>>, NEW ln, LegibleLine(ln)
    PROVE  ApplyProcess(sc, ln) \in Scenario /\ ApplyProcess(sc, ln).cfg = sc.cfg
<1> DEFINE r == ApplyProcess(sc, ln)
           i == Len(sc.procs)
           p == sc.procs[i]
<1>1. sc.cfg \in SimConfig /\ sc.ok \in BOOLEAN /\ sc.procs \in Seq(ScenarioProcess)
  BY DEF Scenario
<1>2. i \in DOMAIN sc.procs /\ p \in ScenarioProcess
  BY <1>1
<1>3. ASSUME NEW q \in ScenarioProcess, r = [sc EXCEPT !.procs[i] = q]
      PROVE  r \in Scenario /\ r.cfg = sc.cfg
  <2>1. [sc.procs EXCEPT ![i] = q] \in Seq(ScenarioProcess)
    BY <1>1, <1>2
  <2>2. r = [sc EXCEPT !.procs = [sc.procs EXCEPT ![i] = q]]
    BY <1>3
  <2>3. QED
    BY <2>1, <2>2 DEF Scenario
<1>4. ASSUME ln.opt \in {"arrival", "burst"} PROVE AsInt(ln.text.lo) \in Int
  <2>1. ln.text.lo \in Int
    BY <1>4 DEF LegibleLine, LegibleText
  <2>2. QED
    BY <2>1, AsIntType
<1>5. CASE ln.opt = "arrival" /\ Strict(ln.text)
  <2> DEFINE q == [p EXCEPT !.arrival = AsInt(ln.text.lo)]
  <2>1. q \in ScenarioProcess
    BY <1>2, <1>4, <1>5 DEF ScenarioProcess
  <2>2. r = [sc EXCEPT !.procs[i] = q]
    BY <1>5 DEF ApplyProcess
  <2>3. QED
    BY <1>3, <2>1, <2>2
<1>6. CASE ln.opt = "burst" /\ Strict(ln.text)
  <2> DEFINE q == [p EXCEPT !.burst = AsInt(ln.text.lo)]
  <2>1. q \in ScenarioProcess
    BY <1>2, <1>4, <1>6 DEF ScenarioProcess
  <2>2. r = [sc EXCEPT !.procs[i] = q]
    BY <1>6 DEF ApplyProcess
  <2>3. QED
    BY <1>3, <2>1, <2>2
<1>7. CASE ln.opt = "io" /\ \A j \in DOMAIN ln.events : EventOk(ln.events[j])
  <2> DEFINE more == [j \in DOMAIN ln.events |-> ParseIoEvent(ln.events[j])]
             q == [p EXCEPT !.script = @ \o more]
  <2>1. more \in Seq(ScriptedIO)
    BY <1>7, TimelineType
  <2>2. r = [sc EXCEPT !.procs[i] = q]
    BY <1>7 DEF ApplyProcess
  <2> HIDE DEF more
  <2>3. q \in ScenarioProcess
    <3>1. p.script \in Seq(ScriptedIO) /\ p.script \o more \in Seq(ScriptedIO)
      BY <1>2, <2>1 DEF ScenarioProcess
    <3>2. q = [p EXCEPT !.script = p.script \o more]
      BY <1>2
    <3>3. QED
      BY <1>2, <3>1, <3>2 DEF ScenarioProcess
  <2>4. QED
    BY <1>3, <2>2, <2>3
<1>8. CASE r = Reject(sc)
  BY <1>8, RejectType
<1>9. QED
  BY <1>5, <1>6, <1>7, <1>8 DEF ApplyProcess

LEMMA LineType ==
    ASSUME NEW sc \in Scenario, NEW ln, LegibleLine(ln)
    PROVE  ApplyLine(sc, ln) \in Scenario /\ OptionsKept(ApplyLine(sc, ln).cfg, sc.cfg)
<1>1. CASE ln.opt = "[process]"
  <2> DEFINE q == [arrival |-> 0, burst |-> 0, script |-> <<>>]
  <2>1. q \in ScenarioProcess
    BY DEF ScenarioProcess
  <2>2. Append(sc.procs, q) \in Seq(ScenarioProcess)
    BY <2>1 DEF Scenario
  <2>3. ApplyLine(sc, ln) = [sc EXCEPT !.procs = Append(sc.procs, q)]
    BY <1>1 DEF ApplyLine
  <2> HIDE DEF q
  <2>4. QED
    BY <2>2, <2>3 DEF Scenario, OptionsKept
<1>2. CASE ln.opt # "[process]" /\ sc.procs = <<>>
  BY <1>2, GlobalType DEF ApplyLine
<1>3. CASE ln.opt # "[process]" /\ sc.procs # <<>>
  BY <1>3, ProcessType DEF ApplyLine, OptionsKept
<1>4. QED
  BY <1>1, <1>2, <1>3

\* left[k] is the function that k more lines are.
Parses(left, lines) ==
    \A k \in 0..Len(lines) : \A sc \in Scenario :
        left[k][sc] = IF ~sc.ok THEN sc
                      ELSE IF k = 0 THEN Validated(sc)
                      ELSE left[k - 1][ApplyLine(sc, lines[Len(lines) - k + 1])]

LEMMA ParseRecursion ==
    ASSUME NEW lines, Len(lines) \in Nat, NEW cfg
    PROVE  \E left : /\ Parses(left, lines)
                     /\ ParseLines(lines, cfg) = left[Len(lines)][Parsed(TRUE, cfg, <<>>)]
<1> DEFINE n == Len(lines)
           Body(g, k) == [sc \in Scenario |->
                            IF ~sc.ok THEN sc
                            ELSE IF k = 0 THEN Validated(sc)
                            ELSE g[ApplyLine(sc, lines[n - k + 1])]]
           Loop(a, m) == a = [k \in 0..m |-> Body(a[k - 1], k)]
           T == {m \in Nat : \E a : Loop(a, m)}
<1>1. ParseLines(lines, cfg) = (CHOOSE a : Loop(a, n))[n][Parsed(TRUE, cfg, <<>>)]
  BY DEF ParseLines
<1>2. \A g, h : Body(g, 0) = Body(h, 0)
  OBVIOUS
<1> HIDE DEF Body
<1>3. 0 \in T
  <2> DEFINE a == [k \in 0..0 |-> Body(0, 0)]
  <2>1. \A k \in 0..0 : a[k] = Body(a[k - 1], k)
    <3> SUFFICES Body(0, 0) = Body(a[0 - 1], 0)
      OBVIOUS
    <3> HIDE DEF a
    <3>1. QED
      BY <1>2
  <2>2. Loop(a, 0)
    BY <2>1
  <2>3. QED
    BY <2>2
<1>4. ASSUME NEW m \in T PROVE m + 1 \in T
  <2>1. PICK a : Loop(a, m)
    OBVIOUS
  <2>2. \A k \in 0..m : a[k] = Body(a[k - 1], k)
    BY <2>1
  <2> DEFINE b == [k \in 0..(m + 1) |-> IF k = m + 1 THEN Body(a[m], m + 1) ELSE a[k]]
  <2>3. ASSUME NEW k \in 0..(m + 1) PROVE b[k] = Body(b[k - 1], k)
    <3>1. CASE k = 0
      <4>1. b[0] = Body(a[0 - 1], 0)
        BY <2>2
      <4> HIDE DEF b
      <4>2. QED
        BY <1>2, <3>1, <4>1
    <3>2. CASE k \in 1..m
      <4>1. b[k] = a[k] /\ b[k - 1] = a[k - 1]
        BY <3>2
      <4>2. QED
        BY <2>2, <3>2, <4>1
    <3>3. CASE k = m + 1
      <4>1. b[k] = Body(a[m], m + 1) /\ b[k - 1] = a[m]
        BY <3>3
      <4>2. QED
        BY <3>3, <4>1
    <3>4. QED
      BY <3>1, <3>2, <3>3
  <2>4. Loop(b, m + 1)
    BY <2>3
  <2> HIDE DEF Loop, b
  <2>5. QED
    BY <2>4
<1>5. n \in T
  <2> HIDE DEF T
  <2>1. T \subseteq Nat
    BY DEF T
  <2>2. QED
    BY <1>3, <1>4, <2>1, SetInduction
<1> DEFINE left == CHOOSE a : Loop(a, n)
<1>6. Loop(left, n)
  <2>1. \E a : Loop(a, n)
    BY <1>5
  <2> HIDE DEF Loop
  <2>2. QED
    BY <2>1
<1>7. ParseLines(lines, cfg) = left[n][Parsed(TRUE, cfg, <<>>)]
  BY <1>1
<1> HIDE DEF left
<1>8. \A k \in 0..n : left[k] = Body(left[k - 1], k)
  BY <1>6
<1>9. Parses(left, lines)
  <2> SUFFICES ASSUME NEW k \in 0..n, NEW sc \in Scenario
               PROVE  left[k][sc] = IF ~sc.ok THEN sc
                                    ELSE IF k = 0 THEN Validated(sc)
                                    ELSE left[k - 1][ApplyLine(sc, lines[n - k + 1])]
    BY DEF Parses
  <2> DEFINE g == left[k - 1]
  <2>1. left[k] = Body(g, k)
    BY <1>8
  <2> HIDE DEF g
  <2>2. left[k][sc] = IF ~sc.ok THEN sc
                      ELSE IF k = 0 THEN Validated(sc)
                      ELSE g[ApplyLine(sc, lines[n - k + 1])]
    BY <2>1 DEF Body
  <2>3. QED
    BY <2>2 DEF g
<1>10. QED
  BY <1>7, <1>9

\* What is parsed, and what a parse without error guarantees.
LEMMA ParseType ==
    ASSUME NEW lines, LegibleLines(lines), NEW cfg \in SimConfig
    PROVE  /\ ParseLines(lines, cfg) \in Scenario
           /\ OptionsKept(ParseLines(lines, cfg).cfg, cfg)
           /\ ParseLines(lines, cfg).ok => AllValid(ParseLines(lines, cfg).procs)
<1> DEFINE n == Len(lines)
           Sound(r, sc) == /\ r \in Scenario
                           /\ OptionsKept(r.cfg, sc.cfg)
                           /\ r.ok => AllValid(r.procs)
<1>1. n \in Nat /\ \A k \in 1..n : LegibleLine(lines[n - k + 1])
  BY DEF LegibleLines
<1>2. PICK left : Parses(left, lines) /\ ParseLines(lines, cfg) = left[n][Parsed(TRUE, cfg, <<>>)]
  BY <1>1, ParseRecursion
<1>3. ASSUME NEW k \in 0..n, NEW sc \in Scenario
      PROVE  left[k][sc] = IF ~sc.ok THEN sc
                           ELSE IF k = 0 THEN Validated(sc)
                           ELSE left[k - 1][ApplyLine(sc, lines[n - k + 1])]
  BY <1>2 DEF Parses
<1>4. \A sc \in Scenario : ~sc.ok => Sound(sc, sc)
  BY DEF OptionsKept
<1>5. \A sc \in Scenario : Sound(Validated(sc), sc)
  BY RejectType DEF Validated, AllValid, OptionsKept
<1> DEFINE K == {k \in Nat : k <= n => \A sc \in Scenario : Sound(left[k][sc], sc)}
<1> HIDE DEF n
<1>6. 0 \in K
  <2> SUFFICES ASSUME NEW sc \in Scenario PROVE Sound(left[0][sc], sc)
    OBVIOUS
  <2>1. left[0][sc] = IF ~sc.ok THEN sc ELSE Validated(sc)
    BY <1>1, <1>3
  <2> HIDE DEF Sound
  <2>2. QED
    BY <1>4, <1>5, <2>1
<1>7. ASSUME NEW k \in K PROVE k + 1 \in K
  <2> SUFFICES ASSUME k + 1 <= n, NEW sc \in Scenario PROVE Sound(left[k + 1][sc], sc)
    OBVIOUS
  <2>1. k \in Nat /\ k <= n /\ k + 1 \in 1..n /\ (k + 1) - 1 = k /\ k + 1 # 0 /\ k + 1 \in 0..n
    BY <1>1
  <2> DEFINE next == ApplyLine(sc, lines[n - (k + 1) + 1])
  <2>2. left[k + 1][sc] = IF ~sc.ok THEN sc ELSE left[k][next]
    BY <1>3, <2>1
  <2>3. next \in Scenario /\ OptionsKept(next.cfg, sc.cfg)
    BY <1>1, <2>1, LineType
  <2>4. Sound(left[k][next], next)
    BY <2>1, <2>3
  <2> HIDE DEF next
  <2>5. Sound(left[k][next], sc)
    BY <2>3, <2>4 DEF OptionsKept
  <2> HIDE DEF Sound
  <2>6. QED
    BY <1>4, <2>2, <2>5
<1>8. \A sc \in Scenario : Sound(left[n][sc], sc)
  <2> HIDE DEF K
  <2>1. K \subseteq Nat
    BY DEF K
  <2>2. K = Nat
    BY <1>6, <1>7, <2>1, SetInduction
  <2>3. QED
    BY <1>1, <2>2 DEF K
<1>9. Parsed(TRUE, cfg, <<>>) \in Scenario /\ Parsed(TRUE, cfg, <<>>).cfg = cfg
  BY DEF Parsed, Scenario
<1>10. QED
  BY <1>2, <1>8, <1>9 DEF n

LEMMA LoadType ==
    ASSUME NEW file, file.exists => LegibleLines(file.lines), NEW cfg \in SimConfig
    PROVE  LET r == LoadScenario(file, cfg)
           IN  /\ r \in Scenario
               /\ OptionsKept(r.cfg, cfg)
               /\ r.ok => AllValid(r.procs)
               /\ r.procs # <<>> => r.cfg.num["processCount"] = Len(r.procs)
<1> DEFINE sc == ParseFile(file, cfg)
           r == LoadScenario(file, cfg)
<1>1. sc \in Scenario /\ OptionsKept(sc.cfg, cfg) /\ (sc.ok => AllValid(sc.procs))
  <2>1. CASE file.exists
    BY <2>1, ParseType DEF ParseFile
  <2>2. CASE ~file.exists
    BY <2>2 DEF ParseFile, Parsed, Scenario, OptionsKept
  <2>3. QED
    BY <2>1, <2>2
<1>2. r = IF sc.procs = <<>> THEN sc
          ELSE [sc EXCEPT !.cfg.num["processCount"] = Len(sc.procs)]
  BY DEF LoadScenario
<1> HIDE DEF sc, r
<1>3. CASE sc.procs = <<>>
  BY <1>1, <1>2, <1>3 DEF r
<1>4. CASE sc.procs # <<>>
  <2> DEFINE c == [sc.cfg EXCEPT !.num["processCount"] = Len(sc.procs)]
  <2>1. sc.cfg \in SimConfig /\ Len(sc.procs) \in Int
    BY <1>1 DEF Scenario
  <2>2. c \in SimConfig /\ c.num["processCount"] = Len(sc.procs) /\ OptionsKept(c, sc.cfg)
    BY <2>1 DEF SimConfig, NumKey, OptionsKept
  <2>3. r = [sc EXCEPT !.cfg = c]
    BY <1>2, <1>4
  <2> HIDE DEF c
  <2>4. r \in Scenario /\ r.cfg = c /\ r.procs = sc.procs /\ r.ok = sc.ok
    BY <1>1, <2>2, <2>3 DEF Scenario
  <2>5. QED
    BY <1>1, <2>2, <2>4 DEF OptionsKept, r
<1>5. QED
  BY <1>3, <1>4

-----------------------------------------------------------------------------
(* What is spawned.                                                        *)

SpawnedProcess == [arrival : Int, burst : Duration, script : Seq(ScriptedIO)]
Interval == job.cfg.num["arrivalInterval"]

\* The configuration and the scripts that a start goes on with.
JobType ==
    /\ job.cfg \in SimConfig
    /\ job.procs \in Seq(ScenarioProcess)
    /\ AllValid(job.procs)
    /\ job.procs # <<>> => Count = Len(job.procs)
    /\ job.cfg.arrivalMode = "uniform" => Interval > 0

InOrder(s) == \A i \in DOMAIN s : s[i].arrival >= (IF i = 1 THEN 0 ELSE s[i - 1].arrival)
Until(s, t) == \A i \in DOMAIN s : s[i].arrival <= t
ScriptsValid(s) == \A i \in DOMAIN s : ValidScript(s[i].script, s[i].burst.min)
Bounded(s) == s = <<>> \/ Len(s) <= Count

\* How far the generators are.
Generated ==
    /\ job.cfg.arrivalMode = "batch" => spawnTick = 0
    /\ job.cfg.arrivalMode # "uniform" => InOrder(spawned) /\ Until(spawned, spawnTick)
    /\ job.cfg.arrivalMode = "uniform" =>
          /\ Missing = 0 \/ spawned = <<>>
          /\ (Count - 1) * Interval < IntHalf => InOrder(spawned)

SpawnedSoFar ==
    /\ spawned \in Seq(SpawnedProcess)
    /\ ScriptsValid(spawned)
    /\ Bounded(spawned)
    /\ job.procs = <<>> => Generated

FilesType == files \in [Path -> [exists : BOOLEAN, lines : Seq(ScenarioLine)]]

HandedInv ==
    /\ FilesType
    /\ spawnTick \in Nat
    /\ phase = "configured" =>
          (ps.cfg.arrivalMode = "uniform" => ps.cfg.num["arrivalInterval"] > 0)
    /\ phase \notin {"spawning", "running"} => spawned = <<>> /\ spawnTick = 0
    /\ phase \in {"spawning", "running"} => JobType /\ SpawnedSoFar
    /\ phase = "running" => Missing = 0

LEMMA CountType == ASSUME JobType PROVE Count \in Int /\ Interval \in Int
<1>1. job.cfg.num \in [NumKey -> Int]
  BY DEF JobType, SimConfig
<1>2. QED
  BY <1>1 DEF Count, Interval, NumKey

LEMMA HandedImplies == ASSUME HandedInv PROVE HandedOver
<1> SUFFICES ASSUME phase = "running" PROVE HandedOver
  BY DEF HandedOver
<1>1. JobType /\ SpawnedSoFar /\ Missing = 0
  BY DEF HandedInv
<1>2. Count \in Int /\ Len(spawned) \in Nat
  BY <1>1, CountType DEF SpawnedSoFar
<1>3. Len(spawned) = IF Count > 0 THEN Count ELSE 0
  <2>1. ~(Count > Len(spawned))
    BY <1>1, <1>2 DEF Missing
  <2>2. Len(spawned) = 0 \/ Len(spawned) <= Count
    BY <1>1 DEF SpawnedSoFar, Bounded
  <2> HIDE DEF Count
  <2>3. QED
    BY <1>2, <2>1, <2>2
<1>4. \A i \in DOMAIN spawned : ValidScript(spawned[i].script, spawned[i].burst.min)
  BY <1>1 DEF SpawnedSoFar, ScriptsValid
<1>5. ASSUME job.procs = <<>>, (Count - 1) * Interval < IntHalf PROVE InOrder(spawned)
  BY <1>1, <1>5 DEF SpawnedSoFar, Generated
<1>6. QED
  BY <1>3, <1>4, <1>5 DEF HandedOver, InOrder, Interval

\* More processes at the end.
LEMMA SpawnIs ==
    ASSUME JobType, SpawnedSoFar, NEW n \in Nat, NEW a \in [1..n -> Int],
           spawned' = spawned \o [i \in 1..n |-> NewProcess(a[i])]
    PROVE  /\ spawned' \in Seq(SpawnedProcess)
           /\ ScriptsValid(spawned')
           /\ Len(spawned) \in Nat /\ Len(spawned') = Len(spawned) + n
           /\ DOMAIN spawned = 1..Len(spawned) /\ DOMAIN spawned' = 1..(Len(spawned) + n)
           /\ \A i \in 1..Len(spawned) : spawned'[i] = spawned[i]
           /\ \A i \in (Len(spawned) + 1)..(Len(spawned) + n) :
                  spawned'[i].arrival = a[i - Len(spawned)]
<1> DEFINE more == [i \in 1..n |-> NewProcess(a[i])]
           m == Len(spawned)
<1>1. spawned \in Seq(SpawnedProcess) /\ m \in Nat /\ DOMAIN spawned = 1..m
  BY DEF SpawnedSoFar
<1>2. Service \in Duration
  <2>1. job.cfg.service \in Duration
    BY DEF JobType, SimConfig
  <2>2. Span(0, 0) \in Duration
    BY DEF Span, Duration
  <2>3. QED
    BY <2>1, <2>2 DEF Service
<1>3. \A i \in 1..n : /\ NewProcess(a[i]) \in SpawnedProcess
                      /\ NewProcess(a[i]).arrival = a[i]
                      /\ NewProcess(a[i]).script = <<>>
  BY <1>2 DEF NewProcess, SpawnedProcess
<1>4. more \in Seq(SpawnedProcess) /\ Len(more) = n /\ \A i \in 1..n : more[i] = NewProcess(a[i])
  <2>1. more \in [1..n -> SpawnedProcess]
    BY <1>3
  <2>2. QED
    BY <2>1
<1> HIDE DEF more, m
<1>5. spawned' = spawned \o more
  BY DEF more
<1>6. /\ spawned' \in Seq(SpawnedProcess) /\ Len(spawned') = m + n
      /\ DOMAIN spawned' = 1..(m + n)
      /\ \A i \in 1..m : spawned'[i] = spawned[i]
      /\ \A i \in (m + 1)..(m + n) : spawned'[i] = more[i - m]
  BY <1>1, <1>4, <1>5 DEF m
<1>7. ASSUME NEW i \in (m + 1)..(m + n)
      PROVE  spawned'[i].arrival = a[i - m] /\ spawned'[i].script = <<>>
  <2>1. i - m \in 1..n
    BY <1>1
  <2>2. QED
    BY <1>3, <1>4, <1>6, <2>1
<1>8. ScriptsValid(spawned')
  <2> SUFFICES ASSUME NEW i \in 1..(m + n)
               PROVE  ValidScript(spawned'[i].script, spawned'[i].burst.min)
    BY <1>6 DEF ScriptsValid
  <2>1. CASE i \in 1..m
    <3>1. spawned'[i] = spawned[i]
      BY <1>6, <2>1
    <3>2. ValidScript(spawned[i].script, spawned[i].burst.min)
      BY <1>1, <2>1 DEF SpawnedSoFar, ScriptsValid
    <3>3. QED
      BY <3>1, <3>2
  <2>2. CASE i \in (m + 1)..(m + n)
    <3>1. \A b : ValidScript(<<>>, b)
      BY DEF ValidScript
    <3>2. spawned'[i].script = <<>>
      BY <1>7, <2>2
    <3>3. QED
      BY <3>1, <3>2
  <2>3. QED
    BY <1>1, <2>1, <2>2
<1>9. QED
  BY <1>1, <1>6, <1>7, <1>8 DEF m

\* All at one tick, not before any that is there.
LEMMA SpawnInOrder ==
    ASSUME JobType, SpawnedSoFar, InOrder(spawned), Until(spawned, spawnTick),
           spawnTick \in Nat, NEW n \in Nat,
           spawned' = spawned \o [i \in 1..n |-> NewProcess(spawnTick)]
    PROVE  /\ spawned' \in Seq(SpawnedProcess)
           /\ ScriptsValid(spawned')
           /\ Len(spawned') = Len(spawned) + n
           /\ InOrder(spawned') /\ Until(spawned', spawnTick)
<1> DEFINE a == [i \in 1..n |-> spawnTick]
           m == Len(spawned)
<1>1. spawned' = spawned \o [i \in 1..n |-> NewProcess(a[i])]
  OBVIOUS
<1>2. a \in [1..n -> Int]
  OBVIOUS
<1>3. \A i \in 1..n : a[i] = spawnTick
  OBVIOUS
<1> HIDE DEF a
<1>4. /\ spawned' \in Seq(SpawnedProcess)
      /\ ScriptsValid(spawned')
      /\ m \in Nat /\ Len(spawned') = m + n
      /\ DOMAIN spawned = 1..m /\ DOMAIN spawned' = 1..(m + n)
      /\ \A i \in 1..m : spawned'[i] = spawned[i]
      /\ \A i \in (m + 1)..(m + n) : spawned'[i].arrival = a[i - m]
  BY <1>1, <1>2, SpawnIs
<1> HIDE DEF m
<1>5. \A i \in 1..(m + n) : i \in 1..m \/ spawned'[i].arrival = spawnTick
  <2> SUFFICES ASSUME NEW i \in 1..(m + n), i \notin 1..m PROVE spawned'[i].arrival = spawnTick
    OBVIOUS
  <2>1. i \in (m + 1)..(m + n) /\ i - m \in 1..n
    BY <1>4
  <2>2. QED
    BY <1>3, <1>4, <2>1
<1>6. Until(spawned', spawnTick)
  BY <1>4, <1>5 DEF Until
<1>7. InOrder(spawned')
  <2> SUFFICES ASSUME NEW i \in 1..(m + n)
               PROVE  spawned'[i].arrival >= (IF i = 1 THEN 0 ELSE spawned'[i - 1].arrival)
    BY <1>4 DEF InOrder
  <2>1. CASE i \in 1..m
    <3>1. i # 1 => i - 1 \in 1..m
      BY <1>4, <2>1
    <3>2. spawned'[i] = spawned[i] /\ (i # 1 => spawned'[i - 1] = spawned[i - 1])
      BY <1>4, <2>1, <3>1
    <3>3. spawned[i].arrival >= (IF i = 1 THEN 0 ELSE spawned[i - 1].arrival)
      BY <1>4, <2>1 DEF InOrder
    <3>4. QED
      BY <3>2, <3>3
  <2>2. CASE i \notin 1..m
    <3>1. spawned'[i].arrival = spawnTick
      BY <1>5, <2>2
    <3>2. i # 1 => spawned'[i - 1].arrival <= spawnTick
      <4>1. i # 1 => i - 1 \in DOMAIN spawned'
        BY <1>4
      <4>2. QED
        BY <1>6, <4>1 DEF Until
    <3>3. CASE i = 1
      <4>1. spawnTick >= 0
        OBVIOUS
      <4>2. spawned'[i].arrival >= 0
        BY <3>1, <4>1, Zenon
      <4>3. QED
        BY <3>3, <4>2, Zenon
    <3>4. CASE i # 1
      BY <3>1, <3>2, <3>4
    <3>5. QED
      BY <3>3, <3>4
  <2>3. QED
    BY <2>1, <2>2
<1>8. QED
  BY <1>4, <1>6, <1>7 DEF m

\* A range of arrivals that are multiples of the interval.
LEMMA UniformInOrder ==
    ASSUME JobType, SpawnedSoFar, spawned = <<>>, Interval > 0,
           NEW n \in Nat, (n - 1) * Interval < IntHalf,
           spawned' = spawned \o [i \in 1..n |-> NewProcess(AsInt((i - 1) * Interval))]
    PROVE  InOrder(spawned')
<1> DEFINE v == Interval
           a == [i \in 1..n |-> AsInt((i - 1) * v)]
<1>1. v \in Int /\ v > 0
  BY CountType
<1>2. a \in [1..n -> Int]
  <2>1. \A i \in 1..n : (i - 1) * v \in Int
    BY <1>1
  <2>2. QED
    BY <2>1, AsIntType
<1>3. spawned' = spawned \o [i \in 1..n |-> NewProcess(a[i])]
  OBVIOUS
<1>4. \A i \in 1..n : a[i] = AsInt((i - 1) * v)
  OBVIOUS
<1>5. (n - 1) * v < IntHalf
  OBVIOUS
<1> HIDE DEF v, a
<1>6. \A i \in 1..n : (i - 1) * v >= 0 /\ (i - 1) * v <= (n - 1) * v
  <2> SUFFICES ASSUME NEW i \in 1..n
               PROVE  (i - 1) * v >= 0 /\ (i - 1) * v <= (n - 1) * v
    OBVIOUS
  <2>1. \A x, y \in Nat : x <= y => x * v >= 0 /\ x * v <= y * v
    BY <1>1
  <2>2. i - 1 \in Nat /\ n - 1 \in Nat /\ i - 1 <= n - 1
    OBVIOUS
  <2>3. QED
    BY <2>1, <2>2
<1>7. \A i \in 1..n : a[i] = (i - 1) * v
  <2> SUFFICES ASSUME NEW i \in 1..n PROVE a[i] = (i - 1) * v
    OBVIOUS
  <2>1. PICK x : x = (i - 1) * v
    OBVIOUS
  <2>2. PICK y : y = (n - 1) * v
    OBVIOUS
  <2>3. x \in Int /\ y \in Int
    BY <1>1, <2>1, <2>2
  <2>4. x >= 0 /\ x <= y /\ y < IntHalf
    BY <1>5, <1>6, <2>1, <2>2
  <2>5. AsInt(x) = x
    BY <2>3, <2>4, AsIntFits, IntHalfAssumption
  <2>6. QED
    BY <1>4, <2>1, <2>5
<1>8. DOMAIN spawned' = 1..n /\ \A i \in 1..n : spawned'[i].arrival = a[i]
  <2>1. Len(spawned) = 0
    OBVIOUS
  <2>2. /\ DOMAIN spawned' = 1..(Len(spawned) + n)
        /\ \A i \in (Len(spawned) + 1)..(Len(spawned) + n) :
               spawned'[i].arrival = a[i - Len(spawned)]
    BY <1>2, <1>3, SpawnIs
  <2>3. QED
    BY <2>1, <2>2
<1>9. SUFFICES ASSUME NEW i \in 1..n
               PROVE  spawned'[i].arrival >= (IF i = 1 THEN 0 ELSE spawned'[i - 1].arrival)
  BY <1>8 DEF InOrder
<1>10. CASE i = 1
  <2>1. spawned'[i].arrival = (1 - 1) * v
    BY <1>7, <1>8, <1>10
  <2>2. QED
    BY <1>1, <1>10, <2>1
<1>11. CASE i # 1
  <2>1. i - 1 \in 1..n
    BY <1>11
  <2>2. spawned'[i].arrival = (i - 1) * v /\ spawned'[i - 1].arrival = ((i - 1) - 1) * v
    BY <1>7, <1>8, <2>1
  <2>3. \A x, y \in Nat : x <= y => x * v <= y * v
    BY <1>1
  <2>4. (i - 1) - 1 \in Nat /\ i - 1 \in Nat /\ (i - 1) - 1 <= i - 1
    BY <2>1
  <2>5. ((i - 1) - 1) * v <= (i - 1) * v
    BY <2>3, <2>4
  <2>6. ((i - 1) - 1) * v \in Int /\ (i - 1) * v \in Int
    BY <1>1
  <2>7. PICK x : x = (i - 1) * v
    OBVIOUS
  <2>8. PICK y : y = ((i - 1) - 1) * v
    OBVIOUS
  <2>9. QED
    BY <1>11, <2>2, <2>5, <2>6, <2>7, <2>8
<1>12. QED
  BY <1>10, <1>11

\* Processes that arrive now, no more of them than are missing.
LEMMA SpawnNow ==
    ASSUME JobType, SpawnedSoFar, job.procs = <<>>, job' = job,
           job.cfg.arrivalMode # "uniform",
           spawnTick \in Nat, spawnTick' \in Nat, spawnTick <= spawnTick',
           job.cfg.arrivalMode = "batch" => spawnTick' = spawnTick,
           NEW n \in Nat, Len(spawned) + n <= Count,
           spawned' = spawned \o [i \in 1..n |-> NewProcess(spawnTick)]
    PROVE  SpawnedSoFar'
<1>1. Generated
  BY DEF SpawnedSoFar
<1>2. InOrder(spawned) /\ Until(spawned, spawnTick)
  BY <1>1 DEF Generated
<1>3. /\ spawned' \in Seq(SpawnedProcess)
      /\ ScriptsValid(spawned')
      /\ Len(spawned') = Len(spawned) + n
      /\ InOrder(spawned') /\ Until(spawned', spawnTick)
  BY <1>2, SpawnInOrder
<1>4. Count' = Count
  BY DEF Count
<1>5. Bounded(spawned)'
  BY <1>3, <1>4 DEF Bounded
<1>6. Until(spawned', spawnTick')
  <2> SUFFICES ASSUME NEW i \in DOMAIN spawned' PROVE spawned'[i].arrival <= spawnTick'
    BY DEF Until
  <2>1. PICK t : t = spawned'[i].arrival
    OBVIOUS
  <2>2. t \in Int
    <3>1. \A s \in Seq(SpawnedProcess) : \A j \in DOMAIN s : s[j] \in SpawnedProcess
      OBVIOUS
    <3>2. spawned'[i] \in SpawnedProcess
      BY <1>3, <3>1, Zenon
    <3>3. QED
      BY <2>1, <3>2 DEF SpawnedProcess
  <2>3. t <= spawnTick
    BY <1>3, <2>1 DEF Until
  <2>4. t <= spawnTick'
    BY <2>2, <2>3
  <2>5. QED
    BY <2>1, <2>4
<1>7. Generated'
  <2>1. job.cfg.arrivalMode = "batch" => spawnTick' = 0
    BY <1>1 DEF Generated
  <2>2. QED
    BY <1>3, <1>6, <2>1 DEF Generated, InOrder, Until
<1>8. QED
  BY <1>3, <1>5, <1>7 DEF SpawnedSoFar, ScriptsValid

\* The processes of a scenario file.
LEMMA SpawnListed ==
    ASSUME JobType, job.procs # <<>>, SpawnScripted, job' = job
    PROVE  SpawnedSoFar'
<1> DEFINE ran(p) == [arrival |-> p.arrival, burst |-> Span(p.burst, p.burst), script |-> p.script]
           m == Len(job.procs)
<1>1. job.procs \in Seq(ScenarioProcess) /\ m \in Nat /\ DOMAIN job.procs = 1..m /\ Count = m
  BY DEF JobType
<1>2. \A p \in ScenarioProcess :
         /\ ran(p) \in SpawnedProcess
         /\ ran(p).script = p.script /\ ran(p).burst.min = p.burst
  BY DEF ScenarioProcess, SpawnedProcess, Span, Duration
<1>3. spawned' = [i \in 1..m |-> ran(job.procs[i])]
  BY <1>1 DEF SpawnScripted
<1> HIDE DEF m, ran
<1>4. \A i \in 1..m : job.procs[i] \in ScenarioProcess
  BY <1>1
<1>5. spawned' \in [1..m -> SpawnedProcess] /\ \A i \in 1..m : spawned'[i] = ran(job.procs[i])
  BY <1>2, <1>3, <1>4
<1>6. spawned' \in Seq(SpawnedProcess) /\ Len(spawned') = m /\ DOMAIN spawned' = 1..m
  BY <1>1, <1>5
<1>7. ScriptsValid(spawned')
  <2> SUFFICES ASSUME NEW i \in 1..m
               PROVE  ValidScript(spawned'[i].script, spawned'[i].burst.min)
    BY <1>6 DEF ScriptsValid
  <2>1. spawned'[i].script = job.procs[i].script /\ spawned'[i].burst.min = job.procs[i].burst
    BY <1>2, <1>4, <1>5
  <2>2. ValidScript(job.procs[i].script, job.procs[i].burst)
    BY <1>1 DEF JobType, AllValid
  <2>3. QED
    BY <2>1, <2>2
<1>8. Count' = m
  BY <1>1 DEF Count
<1>9. QED
  BY <1>1, <1>6, <1>7, <1>8 DEF SpawnedSoFar, ScriptsValid, Bounded

LEMMA SpawnKeeps ==
    ASSUME JobType, SpawnedSoFar, spawnTick \in Nat, SpawnSome
    PROVE  SpawnedSoFar' /\ spawnTick' \in Nat
<1>1. job' = job
  BY DEF SpawnSome
<1>2. Count \in Int /\ Interval \in Int /\ Len(spawned) \in Nat
  BY CountType DEF SpawnedSoFar
<1>3. CASE job.procs # <<>>
  <2>1. SpawnScripted
    BY <1>3 DEF SpawnSome
  <2>2. spawnTick' = spawnTick
    BY <2>1 DEF SpawnScripted
  <2>3. QED
    BY <1>1, <1>3, <2>1, <2>2, SpawnListed
<1>4. CASE job.procs = <<>>
  <2>1. Generate /\ Generated
    BY <1>4 DEF SpawnSome, SpawnedSoFar
  <2>2. ASSUME Missing > 0
        PROVE  Missing \in Nat /\ Len(spawned) + Missing = Count
    <3> HIDE DEF Count
    <3>1. QED
      BY <1>2, <2>2 DEF Missing
  <2>3. CASE SpawnBatch
    <3>1. /\ job.cfg.arrivalMode = "batch" /\ Missing > 0 /\ spawnTick' = spawnTick
          /\ spawned' = spawned \o [i \in 1..Missing |-> NewProcess(0)]
      BY <2>3 DEF SpawnBatch, Spawn
    <3>2. spawnTick = 0
      BY <2>1, <3>1 DEF Generated
    <3>3. spawned' = spawned \o [i \in 1..Missing |-> NewProcess(spawnTick)]
      BY <3>1, <3>2
    <3>4. Missing \in Nat /\ Len(spawned) + Missing <= Count
      BY <1>2, <2>2, <3>1
    <3>5. spawnTick' \in Nat /\ spawnTick <= spawnTick' /\ job.cfg.arrivalMode # "uniform"
      BY <3>1
    <3>6. SpawnedSoFar'
      BY <1>1, <1>4, <3>1, <3>3, <3>4, <3>5, SpawnNow
    <3>7. QED
      BY <3>5, <3>6
  <2>4. CASE SpawnUniform
    <3>1. /\ job.cfg.arrivalMode = "uniform" /\ Missing > 0 /\ spawnTick' = spawnTick
          /\ spawned' = spawned \o [i \in 1..Missing |-> NewProcess(AsInt((i - 1) * Interval))]
      BY <2>4 DEF SpawnUniform, Spawn, Interval
    <3>2. Interval > 0
      BY <3>1 DEF JobType
    <3>3. spawned = <<>> /\ Missing \in Nat /\ Missing = Count
      BY <1>2, <2>1, <2>2, <3>1 DEF Generated
    <3>4. /\ spawned' \in Seq(SpawnedProcess) /\ ScriptsValid(spawned')
          /\ Len(spawned') = Len(spawned) + Missing
      <4> DEFINE a == [i \in 1..Missing |-> AsInt((i - 1) * Interval)]
      <4>1. a \in [1..Missing -> Int]
        <5>1. \A i \in 1..Missing : (i - 1) * Interval \in Int
          BY <1>2, <3>3
        <5>2. QED
          BY <5>1, AsIntType
      <4>2. spawned' = spawned \o [i \in 1..Missing |-> NewProcess(a[i])]
        BY <3>1
      <4> HIDE DEF a
      <4>3. QED
        BY <3>3, <4>1, <4>2, SpawnIs
    <3>5. Len(spawned') = Count
      BY <1>2, <3>3, <3>4
    <3>6. Count' = Count /\ Interval' = Interval
      BY <1>1 DEF Count, Interval
    <3>7. Missing' = 0 /\ Bounded(spawned)'
      BY <1>2, <3>5, <3>6 DEF Missing, Bounded
    <3>8. ASSUME (Count - 1) * Interval < IntHalf PROVE InOrder(spawned')
      BY <3>1, <3>2, <3>3, <3>8, UniformInOrder
    <3>9. Generated'
      BY <1>1, <3>1, <3>6, <3>7, <3>8 DEF Generated, InOrder
    <3>10. QED
      BY <3>1, <3>4, <3>7, <3>9 DEF SpawnedSoFar, ScriptsValid
  <2>5. ASSUME NEW n \in 0..Missing, Missing > 0, job.cfg.arrivalMode \notin {"batch", "uniform"},
               spawned' = spawned \o [i \in 1..n |-> NewProcess(spawnTick)],
               spawnTick' \in {spawnTick, spawnTick + 1}
        PROVE  SpawnedSoFar' /\ spawnTick' \in Nat
    <3>1. n \in Nat /\ Len(spawned) + n <= Count
      BY <1>2, <2>2, <2>5
    <3>2. spawnTick' \in Nat /\ spawnTick <= spawnTick'
      BY <2>5
    <3>3. job.cfg.arrivalMode # "uniform" /\ job.cfg.arrivalMode # "batch"
      BY <2>5
    <3>4. SpawnedSoFar'
      BY <1>1, <1>4, <2>5, <3>1, <3>2, <3>3, SpawnNow
    <3>5. QED
      BY <3>2, <3>4
  <2>6. spawned = spawned \o [i \in 1..0 |-> NewProcess(spawnTick)]
    BY DEF SpawnedSoFar
  <2>7. CASE BernoulliTick
    <3>1. /\ job.cfg.arrivalMode \in {"bernoulli", "geometric"} /\ Missing > 0
          /\ spawnTick' = spawnTick + 1
          /\ \/ spawned' = spawned \o [i \in 1..1 |-> NewProcess(spawnTick)]
             \/ spawned' = spawned
      BY <2>7 DEF BernoulliTick, Spawn
    <3>2. 0 \in 0..Missing /\ 1 \in 0..Missing
      BY <2>2, <3>1
    <3>3. CASE spawned' = spawned \o [i \in 1..1 |-> NewProcess(spawnTick)]
      BY <2>5, <3>1, <3>2, <3>3
    <3>4. CASE spawned' = spawned
      BY <2>5, <2>6, <3>1, <3>2, <3>4
    <3>5. QED
      BY <3>1, <3>3, <3>4
  <2>8. CASE PoissonTick
    <3>1. PICK n \in 0..Missing : spawned' = spawned \o [i \in 1..n |-> NewProcess(spawnTick)]
      BY <2>8 DEF PoissonTick, Spawn
    <3>2. job.cfg.arrivalMode = "poisson" /\ Missing > 0 /\ spawnTick' = spawnTick + 1
      BY <2>8 DEF PoissonTick
    <3>3. QED
      BY <2>5, <3>1, <3>2
  <2>9. CASE SpawnRest
    <3>1. /\ job.cfg.arrivalMode \in {"bernoulli", "geometric", "poisson"} /\ Missing > 0
          /\ spawnTick' = spawnTick
          /\ spawned' = spawned \o [i \in 1..Missing |-> NewProcess(spawnTick)]
      BY <2>9 DEF SpawnRest, RestTick, Spawn
    <3>2. Missing \in 0..Missing
      BY <2>2, <3>1
    <3>3. QED
      BY <2>5, <3>1, <3>2
  <2>10. QED
    BY <2>1, <2>3, <2>4, <2>7, <2>8, <2>9 DEF Generate
<1>5. QED
  BY <1>3, <1>4

-----------------------------------------------------------------------------
(* The invariant holds throughout.                                         *)

LEMMA InitHanded == ASSUME ShellInit PROVE HandedInv
<1>1. FilesType
  BY FileSystemsAssumption DEF ShellInit, FilesType
<1>2. phase = "parsing" /\ spawned = <<>> /\ spawnTick = 0
  BY DEF ShellInit, Fresh
<1>3. QED
  BY <1>1, <1>2 DEF HandedInv

\* What a start goes on with: the options' arrivals have their parameter, and
\* a file leaves them alone.
LEMMA ConfigureSets ==
    ASSUME HandedInv, ParserInv, Configure, phase' # "failed"
    PROVE  JobType'
<1> DEFINE sc == IF ps.cfg.scenario = "" THEN Parsed(TRUE, ps.cfg, <<>>)
                 ELSE LoadScenario(files[ps.cfg.scenario], ps.cfg)
<1>1. phase = "configured" /\ sc.ok /\ job' = [cfg |-> sc.cfg, procs |-> sc.procs]
  BY DEF Configure
<1>2. ps.cfg \in SimConfig
  BY DEF ParserInv, ParserState
<1>3. /\ sc \in Scenario
      /\ OptionsKept(sc.cfg, ps.cfg)
      /\ AllValid(sc.procs)
      /\ sc.procs # <<>> => sc.cfg.num["processCount"] = Len(sc.procs)
  <2>1. CASE ps.cfg.scenario = ""
    <3>1. sc = [ok |-> TRUE, cfg |-> ps.cfg, procs |-> <<>>]
      BY <2>1 DEF Parsed
    <3> HIDE DEF sc
    <3>2. <<>> \in Seq(ScenarioProcess) /\ AllValid(<<>>)
      BY DEF AllValid
    <3>3. QED
      BY <1>2, <3>1, <3>2 DEF Scenario, OptionsKept
  <2>2. CASE ps.cfg.scenario # ""
    <3>1. ps.cfg.scenario \in Path
      BY <1>2, <2>2 DEF SimConfig
    <3>2. files[ps.cfg.scenario] \in [exists : BOOLEAN, lines : Seq(ScenarioLine)]
      BY <3>1 DEF HandedInv, FilesType
    <3>3. LegibleLines(files[ps.cfg.scenario].lines)
      BY <3>2, LinesLegible
    <3> DEFINE file == files[ps.cfg.scenario]
    <3>4. sc = LoadScenario(file, ps.cfg)
      BY <2>2
    <3>5. LegibleLines(file.lines)
      BY <3>3
    <3> HIDE DEF sc, file
    <3>6. QED
      BY <1>1, <1>2, <3>4, <3>5, LoadType
  <2>3. QED
    BY <2>1, <2>2
<1> HIDE DEF sc
<1>4. job'.cfg = sc.cfg /\ job'.procs = sc.procs
  BY <1>1
<1>5. sc.cfg \in SimConfig /\ sc.procs \in Seq(ScenarioProcess)
  BY <1>3 DEF Scenario
<1>6. sc.cfg.arrivalMode = "uniform" => sc.cfg.num["arrivalInterval"] > 0
  BY <1>1, <1>3 DEF HandedInv, OptionsKept
<1>7. QED
  BY <1>3, <1>4, <1>5, <1>6 DEF JobType, Count, Interval, AllValid

LEMMA StepHanded ==
    ASSUME HandedInv, ParserInv, [Program]_startVars
    PROVE  HandedInv'
<1>1. FilesType /\ spawnTick \in Nat
  BY DEF HandedInv
<1>2. CASE TakeOption \/ Refused
  <2>1. /\ phase = "parsing" /\ phase' \in {"parsing", "help", "usage"}
        /\ files' = files /\ spawned' = spawned /\ spawnTick' = spawnTick
    BY <1>2 DEF TakeOption, Refused
  <2>2. QED
    BY <1>1, <2>1 DEF HandedInv, FilesType
<1>3. CASE OptionsTaken
  <2>1. /\ phase = "parsing" /\ ps' = Validate(ps)
        /\ phase' = IF ps'.error = 0 THEN "configured" ELSE "usage"
        /\ files' = files /\ spawned' = spawned /\ spawnTick' = spawnTick
    BY <1>3 DEF OptionsTaken
  <2>2. ps \in ParserState
    BY DEF ParserInv
  <2>3. ASSUME phase' = "configured"
        PROVE  ps'.cfg.arrivalMode = "uniform" => ps'.cfg.num["arrivalInterval"] > 0
    <3>1. ps'.error = 0
      BY <2>1, <2>3
    <3>2. Acceptable(ps)
      <4>1. SUFFICES ASSUME ~Acceptable(ps) PROVE FALSE
        OBVIOUS
      <4>2. ps' = [ps EXCEPT !.error = 1]
        BY <2>1, <4>1 DEF Validate, Refuse
      <4>3. QED
        BY <2>2, <3>1, <4>2 DEF ParserState
    <3>3. ps' = [ps EXCEPT !.cfg.share = FilledShares(ps),
                           !.cfg.arrivalMode = EffectiveMode(ps)]
      BY <2>1, <3>2 DEF Validate
    <3>4. ps'.cfg.arrivalMode = EffectiveMode(ps) /\ ps'.cfg.num = ps.cfg.num
      BY <2>2, <3>3 DEF ParserState, SimConfig
    <3>5. ModeHasParameter(EffectiveMode(ps), ps.cfg.num)
      BY <3>2 DEF Acceptable
    <3>6. QED
      BY <3>4, <3>5 DEF ModeHasParameter
  <2>4. QED
    BY <1>1, <2>1, <2>3 DEF HandedInv, FilesType
<1>4. CASE Configure
  <2>1. /\ phase = "configured" /\ phase' \in {"spawning", "failed"}
        /\ files' = files /\ spawned' = spawned /\ spawnTick' = spawnTick
    BY <1>4 DEF Configure
  <2>2. spawned' = <<>> /\ spawnTick' = 0
    BY <2>1 DEF HandedInv
  <2>3. CASE phase' = "failed"
    BY <1>1, <2>1, <2>2, <2>3 DEF HandedInv, FilesType
  <2>4. CASE phase' = "spawning"
    <3>1. JobType'
      BY <1>4, <2>4, ConfigureSets
    <3>2. SpawnedSoFar'
      <4>1. spawned' \in Seq(SpawnedProcess) /\ DOMAIN spawned' = {}
        BY <2>2
      <4>2. ScriptsValid(spawned') /\ InOrder(spawned') /\ Until(spawned', spawnTick')
        BY <4>1 DEF ScriptsValid, InOrder, Until
      <4>3. QED
        BY <2>2, <4>1, <4>2 DEF SpawnedSoFar, ScriptsValid, InOrder, Until, Bounded, Generated
    <3>3. QED
      BY <1>1, <2>1, <2>4, <3>1, <3>2 DEF HandedInv, FilesType
  <2>5. QED
    BY <2>1, <2>3, <2>4
<1>5. CASE SpawnSome
  <2>1. phase = "spawning" /\ phase' = "spawning" /\ files' = files /\ job' = job
    BY <1>5 DEF SpawnSome
  <2>2. JobType /\ SpawnedSoFar
    BY <2>1 DEF HandedInv
  <2>3. SpawnedSoFar' /\ spawnTick' \in Nat
    BY <1>1, <1>5, <2>2, SpawnKeeps
  <2>4. JobType'
    BY <2>1, <2>2 DEF JobType, Count, Interval
  <2>5. QED
    BY <1>1, <2>1, <2>3, <2>4 DEF HandedInv, FilesType
<1>6. CASE Run
  <2>1. /\ phase = "spawning" /\ phase' = "running" /\ Missing = 0
        /\ files' = files /\ job' = job /\ spawned' = spawned /\ spawnTick' = spawnTick
    BY <1>6 DEF Run
  <2>2. JobType /\ SpawnedSoFar
    BY <2>1 DEF HandedInv
  <2>3. Count' = Count /\ Interval' = Interval /\ Missing' = Missing
    BY <2>1 DEF Count, Interval, Missing
  <2>4. JobType' /\ Generated' = Generated
    BY <2>1, <2>2, <2>3 DEF JobType, Generated, InOrder, Until
  <2>5. SpawnedSoFar'
    BY <2>1, <2>2, <2>3, <2>4 DEF SpawnedSoFar, ScriptsValid, Bounded
  <2>6. QED
    BY <1>1, <2>1, <2>3, <2>4, <2>5 DEF HandedInv, FilesType
<1>7. CASE UNCHANGED startVars
  <2>1. /\ files' = files /\ ps' = ps /\ phase' = phase /\ job' = job
        /\ spawned' = spawned /\ spawnTick' = spawnTick
    BY <1>7 DEF startVars, progVars
  <2>2. HandedInv' = HandedInv
    BY <2>1 DEF HandedInv, FilesType, JobType, SpawnedSoFar, Count, Interval, Missing,
                Generated, InOrder, Until, ScriptsValid, Bounded
  <2>3. QED
    BY <2>2
<1>8. QED
  BY <1>2, <1>3, <1>4, <1>5, <1>6, <1>7 DEF Program

\* Whatever the command line and the files, the core is handed as many
\* processes as were asked for or listed, with scripts that validate()
\* accepted, and generated arrivals in the order of the processes.
THEOREM CoreIsHandedWhatItAssumes == StartupSpec => []HandedOver
<1>1. ShellInit => ParserInv /\ HandedInv
  BY InitParser, InitHanded
<1>2. ParserInv /\ HandedInv /\ [Program]_startVars => (ParserInv /\ HandedInv)'
  BY StepParser, StepHanded
<1>3. HandedInv => HandedOver
  BY HandedImplies
<1>4. QED
  BY <1>1, <1>2, <1>3, PTL DEF StartupSpec

-----------------------------------------------------------------------------
(* What a form launches.  The invariant: each option of the form last       *)
(* launched is still to come or obeyed, and a parser that has taken them    *)
(* all knows the form.                                                     *)

\* The forms that the boxes of the overlay can show.
Form ==
    [num : [NumKey -> 0..SeedMost], service : [min : 1..100, max : 1..100],
     duration : [Device -> [min : 1..100, max : 1..100]], mode : [Device -> IoMode],
     arrivalMode : {"batch", "bernoulli", "poisson", "uniform"},
     share : [{"disk", "tape"} -> 0..100]]
GoodForm(f) ==
    /\ f \in Form
    /\ \A k \in {"quantumHi", "quantumLo", "arrivalRate", "lambda", "arrivalInterval"} :
           f.num[k] > 0
    /\ f.num["pIo"] <= 100

\* The options of such a form, which decide different things, and what a state
\* of the parser says that has taken one of them.
FormKey == NumKey \ {"lambda", "steps"}
SpanText(d) == NumRange(d.min, d.max)
ArrivalOptions(f) ==
    CASE f.arrivalMode = "bernoulli" ->
           {Option("arrivalMode", "", Word("bernoulli")), NumText(f, "arrivalRate")}
      [] f.arrivalMode = "poisson" ->
           {Option("arrivalMode", "", Word("poisson")),
            Option("lambda", "", Num(f.num["lambda"]))}
      [] f.arrivalMode = "uniform" ->
           {Option("arrivalMode", "", Word("uniform")), NumText(f, "arrivalInterval")}
      [] OTHER -> {}
FormOptions(f) ==
    {NumText(f, k) : k \in {"processCount", "quantumHi", "quantumLo", "pIo", "seed"}}
    \cup {Option("service", "", SpanText(f.service))}
    \cup ArrivalOptions(f)
    \cup {Option("share", d, Num(f.share[d])) : d \in {"disk", "tape"}}
    \cup {Option("duration", d, SpanText(f.duration[d])) : d \in Device}
    \cup {Option("mode", d, Word(f.mode[d])) : d \in Device}
    \cup {ServeArg}

Obeys(s, o) ==
    /\ o.opt = "int" => s.cfg.num[o.key] = o.text.lo
    /\ o.opt = "lambda" => s.cfg.num["lambda"] = o.text.lo
    /\ o.opt = "service" => s.cfg.service = Span(o.text.lo, o.text.hi)
    /\ o.opt = "share" => o.key \in s.explicit /\ s.cfg.share[o.key] = o.text.lo
    /\ o.opt = "duration" => s.cfg.duration[o.key] = Span(o.text.lo, o.text.hi)
    /\ o.opt = "mode" => s.cfg.mode[o.key] = o.text.word
    /\ o.opt = "arrivalMode" => s.modeSet /\ s.cfg.arrivalMode = o.text.word

\* The parser on its way through the options: each of them is still to come or
\* obeyed, and nothing else was touched.
OnItsWay(f) ==
    /\ ps \in ParserState /\ ps.error = 0
    /\ argv \in Seq(FormOptions(f))
    /\ \A o \in FormOptions(f) : o \in Members(argv) \/ Obeys(ps, o)
    /\ ps.explicit \subseteq {"disk", "tape"}
    /\ ps.cfg.scenario = "" /\ ~ps.cfg.emit
    /\ f.arrivalMode = "batch" => ps.cfg.arrivalMode = "batch" /\ ~ps.rateSet

LaunchedForm(f) ==
    /\ GoodForm(f)
    /\ phase \in {"idle", "parsing", "configured", "spawning", "running", "usage"}
    /\ phase = "parsing" => OnItsWay(f)
    /\ phase = "configured" => Shows(ps.cfg, f) /\ ps.cfg.scenario = "" /\ ~ps.cfg.emit
    /\ phase \in {"spawning", "running"} => Shows(job.cfg, f)
    /\ phase = "usage" => ~(SpansFit(f) /\ SharesFitForm(f))

OverlayOk(o) == DOMAIN o = {"mode", "form", "path", "summaryOk"} /\ GoodForm(o.form)
FormInv ==
    /\ OverlayOk(overlay)
    /\ \/ lastParams = NoParams \/ lastParams.mode = "scenario"
       \/ lastParams.mode = "random" /\ LaunchedForm(lastParams.form)

-----------------------------------------------------------------------------
(* The options of a form, one by one.                                      *)

\* What these options have in common.
FormOption(o) ==
    /\ o.opt \in {"int", "lambda", "service", "share", "duration", "mode",
                  "arrivalMode", "serve"}
    /\ o.text.lo \in 0..SeedMost /\ o.text.hi \in 0..SeedMost
    /\ o.opt \in {"int", "lambda", "share", "serve"} => Strict(o.text)
    /\ o.opt = "int" => o.key \in FormKey
    /\ o.opt = "share" => o.key \in {"disk", "tape"}
    /\ o.opt \in {"duration", "mode"} => o.key \in Device
    /\ o.opt \in {"service", "duration"} => o.text.head /\ o.text.tail = "range"
    /\ o.opt = "mode" => o.text.word \in IoMode
    /\ o.opt = "arrivalMode" => o.text.word \in ArrivalMode
    /\ o.opt = "serve" => o.key = "=" /\ o.text.lo = 1

LEMMA SeedMostIs == SeedMost \in Nat /\ 300 <= SeedMost
BY DEF SeedMost

LEMMA NumberRead == ASSUME NEW n PROVE Strict(Num(n)) /\ Num(n).lo = n /\ Num(n).hi = 0
BY DEF Num, Strict

LEMMA RangeRead ==
    ASSUME NEW n, NEW m
    PROVE  /\ NumRange(n, m).head /\ NumRange(n, m).tail = "range"
           /\ NumRange(n, m).lo = n /\ NumRange(n, m).hi = m
BY DEF NumRange

LEMMA WordRead ==
    ASSUME NEW w PROVE Word(w).lo = 0 /\ Word(w).hi = 0 /\ Word(w).word = w
BY DEF Word

LEMMA FormOptionsAre ==
    ASSUME NEW f, GoodForm(f), NEW o \in FormOptions(f)
    PROVE  FormOption(o)
<1>1. /\ f.num \in [NumKey -> 0..SeedMost] /\ f.service \in [min : 1..100, max : 1..100]
      /\ f.duration \in [Device -> [min : 1..100, max : 1..100]]
      /\ f.mode \in [Device -> IoMode] /\ f.share \in [{"disk", "tape"} -> 0..100]
      /\ f.arrivalMode \in {"batch", "bernoulli", "poisson", "uniform"}
  BY DEF GoodForm, Form
<1>2. 0 \in 0..SeedMost /\ 1 \in 0..SeedMost /\ 0..100 \subseteq 0..SeedMost
  BY SeedMostIs
<1>3. ASSUME NEW k \in FormKey PROVE FormOption(NumText(f, k))
  <2>1. f.num[k] \in 0..SeedMost
    BY <1>1 DEF FormKey
  <2> DEFINE t == Num(f.num[k])
  <2>2. Strict(t) /\ t.lo \in 0..SeedMost /\ t.hi \in 0..SeedMost
    BY <1>2, <2>1, NumberRead, Zenon
  <2> HIDE DEF t
  <2>3. FormOption(Option("int", k, t))
    BY <2>2 DEF Option, FormOption
  <2>4. QED
    BY <2>3 DEF NumText, t
<1>4. ASSUME NEW d \in [min : 1..100, max : 1..100]
      PROVE  /\ FormOption(Option("service", "", SpanText(d)))
             /\ \A e \in Device : FormOption(Option("duration", e, SpanText(d)))
  <2>1. d.min \in 0..SeedMost /\ d.max \in 0..SeedMost
    BY SeedMostIs
  <2> DEFINE t == SpanText(d)
  <2>2. t.lo \in 0..SeedMost /\ t.hi \in 0..SeedMost /\ t.head /\ t.tail = "range"
    BY <2>1, RangeRead DEF SpanText
  <2> HIDE DEF t
  <2>3. FormOption(Option("service", "", t))
    BY <2>2 DEF Option, FormOption
  <2>4. ASSUME NEW e \in Device PROVE FormOption(Option("duration", e, t))
    BY <2>2 DEF Option, FormOption
  <2>5. QED
    BY <2>3, <2>4 DEF t
<1>5. ASSUME NEW d \in {"disk", "tape"} PROVE FormOption(Option("share", d, Num(f.share[d])))
  <2>1. f.share[d] \in 0..SeedMost
    BY <1>1, SeedMostIs
  <2> DEFINE t == Num(f.share[d])
  <2>2. Strict(t) /\ t.lo \in 0..SeedMost /\ t.hi \in 0..SeedMost
    BY <1>2, <2>1, NumberRead, Zenon
  <2> HIDE DEF t
  <2>3. FormOption(Option("share", d, t))
    BY <2>2 DEF Option, FormOption
  <2>4. QED
    BY <2>3 DEF t
<1>6. ASSUME NEW d \in Device PROVE FormOption(Option("mode", d, Word(f.mode[d])))
  <2>1. f.mode[d] \in IoMode
    BY <1>1
  <2> DEFINE t == Word(f.mode[d])
  <2>2. t.lo \in 0..SeedMost /\ t.hi \in 0..SeedMost /\ t.word \in IoMode
    BY <1>2, <2>1, WordRead, Zenon
  <2> HIDE DEF t
  <2>3. FormOption(Option("mode", d, t))
    BY <2>2 DEF Option, FormOption
  <2>4. QED
    BY <2>3 DEF t
<1>7. ASSUME NEW w \in ArrivalMode PROVE FormOption(Option("arrivalMode", "", Word(w)))
  <2> DEFINE t == Word(w)
  <2>1. t.lo \in 0..SeedMost /\ t.hi \in 0..SeedMost /\ t.word \in ArrivalMode
    BY <1>2, WordRead, Zenon
  <2> HIDE DEF t
  <2>2. FormOption(Option("arrivalMode", "", t))
    BY <2>1 DEF Option, FormOption
  <2>3. QED
    BY <2>2 DEF t
<1>8. FormOption(Option("lambda", "", Num(f.num["lambda"])))
  <2> DEFINE t == Num(f.num["lambda"])
  <2>1. f.num["lambda"] \in 0..SeedMost
    BY <1>1 DEF NumKey
  <2>2. Strict(t) /\ t.lo \in 0..SeedMost /\ t.hi \in 0..SeedMost
    BY <1>2, <2>1, NumberRead, Zenon
  <2> HIDE DEF t
  <2>3. FormOption(Option("lambda", "", t))
    BY <2>2 DEF Option, FormOption
  <2>4. QED
    BY <2>3 DEF t
<1>9. FormOption(ServeArg)
  <2> DEFINE t == Num(1)
  <2>1. Strict(t) /\ t.lo \in 0..SeedMost /\ t.hi \in 0..SeedMost /\ t.lo = 1
    BY <1>2, NumberRead, Zenon
  <2> HIDE DEF t
  <2>2. FormOption(Option("serve", "=", t))
    BY <2>1 DEF Option, FormOption
  <2>3. QED
    BY <2>2 DEF ServeArg, t
<1>10. ASSUME o \in ArrivalOptions(f) PROVE FormOption(o)
  <2>1. {"arrivalRate", "arrivalInterval"} \subseteq FormKey
    BY DEF FormKey, NumKey
  <2>2. {"bernoulli", "poisson", "uniform"} \subseteq ArrivalMode
    BY DEF ArrivalMode
  <2>3. CASE f.arrivalMode = "bernoulli"
    BY <1>3, <1>7, <1>10, <2>1, <2>2, <2>3 DEF ArrivalOptions
  <2>4. CASE f.arrivalMode = "poisson"
    BY <1>7, <1>8, <1>10, <2>2, <2>4 DEF ArrivalOptions
  <2>5. CASE f.arrivalMode = "uniform"
    BY <1>3, <1>7, <1>10, <2>1, <2>2, <2>5 DEF ArrivalOptions
  <2>6. CASE f.arrivalMode = "batch"
    BY <1>10, <2>6 DEF ArrivalOptions
  <2>7. QED
    BY <1>1, <2>3, <2>4, <2>5, <2>6
<1>11. {"processCount", "quantumHi", "quantumLo", "pIo", "seed"} \subseteq FormKey
  BY DEF FormKey, NumKey
<1>12. FormOption(Option("service", "", SpanText(f.service)))
  BY <1>1, <1>4
<1>13. \A d \in Device : FormOption(Option("duration", d, SpanText(f.duration[d])))
  BY <1>1, <1>4
<1>14. QED
  BY <1>3, <1>5, <1>6, <1>9, <1>10, <1>11, <1>12, <1>13, Zenon DEF FormOptions

\* What taking such an option changes.
Taken(s, o, t) ==
    /\ t.error = s.error
    /\ t.cfg.num = IF o.opt = "int" THEN [s.cfg.num EXCEPT ![o.key] = o.text.lo]
                   ELSE IF o.opt = "lambda" THEN [s.cfg.num EXCEPT !["lambda"] = o.text.lo]
                   ELSE s.cfg.num
    /\ t.cfg.service = IF o.opt = "service" THEN Span(o.text.lo, o.text.hi) ELSE s.cfg.service
    /\ t.cfg.share = IF o.opt = "share" THEN [s.cfg.share EXCEPT ![o.key] = o.text.lo]
                     ELSE s.cfg.share
    /\ t.explicit = IF o.opt = "share" THEN s.explicit \cup {o.key} ELSE s.explicit
    /\ t.cfg.duration =
         IF o.opt = "duration"
         THEN [s.cfg.duration EXCEPT ![o.key] = Span(o.text.lo, o.text.hi)]
         ELSE s.cfg.duration
    /\ t.cfg.mode = IF o.opt = "mode" THEN [s.cfg.mode EXCEPT ![o.key] = o.text.word]
                    ELSE s.cfg.mode
    /\ t.cfg.arrivalMode = IF o.opt = "arrivalMode" THEN o.text.word ELSE s.cfg.arrivalMode
    /\ t.modeSet = (s.modeSet \/ o.opt = "arrivalMode")
    /\ t.rateSet = (s.rateSet \/ (o.opt = "int" /\ o.key = "arrivalRate"))
    /\ t.cfg.scenario = s.cfg.scenario /\ t.cfg.emit = s.cfg.emit

IntTaken(s, k, n, r, m, t) ==
    /\ t.error = s.error /\ t.explicit = s.explicit /\ t.modeSet = s.modeSet
    /\ t.rateSet = r
    /\ t.cfg.num = [s.cfg.num EXCEPT ![k] = n]
    /\ t.cfg.service = s.cfg.service /\ t.cfg.share = s.cfg.share
    /\ t.cfg.duration = s.cfg.duration /\ t.cfg.mode = s.cfg.mode
    /\ t.cfg.arrivalMode = s.cfg.arrivalMode /\ t.cfg.scenario = s.cfg.scenario
    /\ t.cfg.emit = s.cfg.emit
IntPut(s, k, n, r, m) == [s EXCEPT !.cfg.num[k] = n, !.rateSet = r, !.cfg.runMode = m]
LEMMA IntTakes ==
    ASSUME NEW s \in ParserState, NEW k \in NumKey, NEW n \in Int, NEW r \in BOOLEAN,
           NEW m \in {"batch", "steps", "interactive"}
    PROVE  IntTaken(s, k, n, r, m, IntPut(s, k, n, r, m))
<1> DEFINE t == [s EXCEPT !.cfg.num[k] = n, !.rateSet = r, !.cfg.runMode = m]
           c == [s.cfg EXCEPT !.num[k] = n, !.runMode = m]
<1>1. s.cfg \in SimConfig
  BY DEF ParserState
<1>2. t.error = s.error /\ t.explicit = s.explicit /\ t.modeSet = s.modeSet
  BY DEF ParserState
<1>3. t.rateSet = r
  BY DEF ParserState
<1>4. t.cfg = c
  BY <1>1 DEF ParserState, SimConfig
<1>5. /\ c.num = [s.cfg.num EXCEPT ![k] = n]
      /\ c.service = s.cfg.service /\ c.share = s.cfg.share
      /\ c.duration = s.cfg.duration /\ c.mode = s.cfg.mode
      /\ c.arrivalMode = s.cfg.arrivalMode /\ c.scenario = s.cfg.scenario
      /\ c.emit = s.cfg.emit
  BY <1>1 DEF SimConfig
<1> HIDE DEF t, c
<1>6. QED
  <2>1. IntPut(s, k, n, r, m) = t
    BY DEF IntPut, t
  <2>2. IntTaken(s, k, n, r, m, t)
    BY <1>2, <1>3, <1>4, <1>5 DEF IntTaken
  <2>3. QED
    BY <2>1, <2>2

LEMMA FormTaken ==
    ASSUME SeedMost < IntHalf, NEW s \in ParserState, NEW o, FormOption(o)
    PROVE  Take(s, o) \in ParserState /\ Taken(s, o, Take(s, o))
<1>1. o.text.lo \in Int /\ o.text.hi \in Int
  BY SeedMostIs DEF FormOption
<1>2. AsInt(o.text.lo) = o.text.lo /\ AsInt(o.text.hi) = o.text.hi
  <2>1. /\ -IntHalf <= o.text.lo /\ o.text.lo < IntHalf
        /\ -IntHalf <= o.text.hi /\ o.text.hi < IntHalf
    BY SeedMostIs, IntHalfAssumption DEF FormOption
  <2>2. QED
    BY <1>1, <2>1, AsIntFits
<1>3. Take(s, o) \in ParserState
  <2>1. Legible(o)
    BY <1>1 DEF FormOption, Legible, FormKey, Device
  <2>2. QED
    BY <2>1, TakeShape
<1>4. s.cfg \in SimConfig /\ s.modeSet \in BOOLEAN /\ s.rateSet \in BOOLEAN
  BY DEF ParserState
<1> DEFINE Same(c) ==
        /\ c.arrivalMode = s.cfg.arrivalMode /\ c.scenario = s.cfg.scenario
        /\ c.emit = s.cfg.emit
<1>0. ASSUME NEW c, Take(s, o) = [s EXCEPT !.cfg = c]
      PROVE  /\ Take(s, o).cfg = c /\ Take(s, o).explicit = s.explicit
             /\ Take(s, o).rateSet = s.rateSet /\ Take(s, o).modeSet = s.modeSet
             /\ Take(s, o).error = s.error
  BY <1>0 DEF ParserState
<1>5. CASE o.opt = "int"
  <2>1. Take(s, o) = TakeInt(s, o) /\ Strict(o.text)
    BY <1>5 DEF Take, FormOption
  <2>2. o.key # "steps" /\ o.key \in NumKey
    BY <1>5 DEF FormOption, FormKey
  <2> DEFINE r == s.rateSet \/ o.key = "arrivalRate"
             t == IntPut(s, o.key, o.text.lo, r, s.cfg.runMode)
  <2>3. TakeInt(s, o) = t
    BY <1>2, <2>1, <2>2 DEF TakeInt, IntPut, ParserState, SimConfig
  <2>4. r \in BOOLEAN /\ s.cfg.runMode \in {"batch", "steps", "interactive"}
    BY <1>4 DEF SimConfig
  <2> HIDE DEF r
  <2>5. IntTaken(s, o.key, o.text.lo, r, s.cfg.runMode, t)
    BY <1>1, <2>2, <2>4, IntTakes
  <2> HIDE DEF t
  <2>6. /\ t.error = s.error /\ t.explicit = s.explicit /\ t.modeSet = s.modeSet
        /\ t.rateSet = r
        /\ t.cfg.num = [s.cfg.num EXCEPT ![o.key] = o.text.lo]
        /\ t.cfg.service = s.cfg.service /\ t.cfg.share = s.cfg.share
        /\ t.cfg.duration = s.cfg.duration /\ t.cfg.mode = s.cfg.mode
        /\ t.cfg.arrivalMode = s.cfg.arrivalMode /\ t.cfg.scenario = s.cfg.scenario
        /\ t.cfg.emit = s.cfg.emit
    BY <2>5, Zenon DEF IntTaken
  <2>7. QED
    BY <1>3, <1>4, <1>5, <2>1, <2>3, <2>6 DEF Taken, r
<1>6. CASE o.opt = "lambda"
  <2> DEFINE c == [s.cfg EXCEPT !.num["lambda"] = o.text.lo]
  <2>1. Take(s, o) = TakeLambda(s, o) /\ Strict(o.text)
    BY <1>6 DEF Take, FormOption
  <2>2. Take(s, o) = [s EXCEPT !.cfg = c]
    BY <1>4, <2>1 DEF TakeLambda, ParserState
  <2>3. /\ c.num = [s.cfg.num EXCEPT !["lambda"] = o.text.lo]
        /\ c.service = s.cfg.service /\ c.share = s.cfg.share
        /\ c.duration = s.cfg.duration /\ c.mode = s.cfg.mode /\ Same(c)
    BY <1>4 DEF SimConfig
  <2> HIDE DEF c
  <2>4. QED
    BY <1>0, <1>3, <1>4, <1>6, <2>2, <2>3 DEF Taken
<1>7. CASE o.opt = "share"
  <2> DEFINE c == [s.cfg EXCEPT !.share[o.key] = o.text.lo]
             e == s.explicit \cup {o.key}
  <2>1. Take(s, o) = [s EXCEPT !.cfg = c, !.explicit = e]
    <3>1. Take(s, o) = TakeShare(s, o) /\ Strict(o.text)
      BY <1>7 DEF Take, FormOption
    <3>2. QED
      BY <1>2, <1>4, <3>1 DEF TakeShare, ParserState
  <2>2. /\ c.share = [s.cfg.share EXCEPT ![o.key] = o.text.lo]
        /\ c.service = s.cfg.service /\ c.num = s.cfg.num
        /\ c.duration = s.cfg.duration /\ c.mode = s.cfg.mode
        /\ c.arrivalMode = s.cfg.arrivalMode /\ c.scenario = s.cfg.scenario
        /\ c.emit = s.cfg.emit
    BY <1>4 DEF SimConfig
  <2> HIDE DEF c, e
  <2>3. /\ Take(s, o).cfg = c /\ Take(s, o).explicit = e
        /\ Take(s, o).rateSet = s.rateSet /\ Take(s, o).modeSet = s.modeSet
        /\ Take(s, o).error = s.error
    BY <2>1 DEF ParserState
  <2>4. QED
    BY <1>3, <1>4, <1>7, <2>2, <2>3 DEF Taken, e
<1>8. CASE o.opt \in {"service", "duration"}
  <2>1. ParseDuration(o.text) = Span(o.text.lo, o.text.hi)
    BY <1>2, <1>8 DEF ParseDuration, Span, FormOption
  <2> DEFINE v == Span(o.text.lo, o.text.hi)
             c == [s.cfg EXCEPT !.service = v]
             e == [s.cfg EXCEPT !.duration[o.key] = v]
  <2>2. CASE o.opt = "service"
    <3>1. Take(s, o) = [s EXCEPT !.cfg = c]
      BY <1>4, <2>1, <2>2 DEF Take, ParserState
    <3> HIDE DEF v
    <3>2. /\ c.service = v /\ c.num = s.cfg.num /\ c.share = s.cfg.share
          /\ c.duration = s.cfg.duration /\ c.mode = s.cfg.mode /\ Same(c)
      BY <1>4 DEF SimConfig
    <3> HIDE DEF c
    <3>3. QED
      BY <1>0, <1>3, <1>4, <2>2, <3>1, <3>2 DEF Taken, v
  <2>3. CASE o.opt = "duration"
    <3>1. Take(s, o) = [s EXCEPT !.cfg = e]
      BY <1>4, <2>1, <2>3 DEF Take, ParserState
    <3> HIDE DEF v
    <3>2. /\ e.duration = [s.cfg.duration EXCEPT ![o.key] = v] /\ e.num = s.cfg.num
          /\ e.share = s.cfg.share /\ e.service = s.cfg.service /\ e.mode = s.cfg.mode
          /\ Same(e)
      BY <1>4 DEF SimConfig
    <3> HIDE DEF e
    <3>3. QED
      BY <1>0, <1>3, <1>4, <2>3, <3>1, <3>2 DEF Taken, v
  <2>4. QED
    BY <1>8, <2>2, <2>3
<1>9. CASE o.opt = "mode"
  <2> DEFINE c == [s.cfg EXCEPT !.mode[o.key] = o.text.word]
  <2>1. ParseIoMode(o.text) = o.text.word
    BY <1>9 DEF FormOption, ParseIoMode, IoMode
  <2>2. Take(s, o) = [s EXCEPT !.cfg = c]
    BY <1>4, <1>9, <2>1 DEF Take, ParserState
  <2>3. /\ c.mode = [s.cfg.mode EXCEPT ![o.key] = o.text.word] /\ c.num = s.cfg.num
        /\ c.service = s.cfg.service /\ c.share = s.cfg.share
        /\ c.duration = s.cfg.duration /\ Same(c)
    BY <1>4 DEF SimConfig
  <2> HIDE DEF c
  <2>4. QED
    BY <1>0, <1>3, <1>4, <1>9, <2>2, <2>3 DEF Taken
<1>10. CASE o.opt = "arrivalMode"
  <2> DEFINE c == [s.cfg EXCEPT !.arrivalMode = o.text.word]
  <2>1. Take(s, o) = [s EXCEPT !.cfg = c, !.modeSet = TRUE]
    BY <1>4, <1>10 DEF Take, TakeArrivalMode, FormOption, ParserState
  <2>2. /\ c.arrivalMode = o.text.word /\ c.num = s.cfg.num
        /\ c.service = s.cfg.service /\ c.share = s.cfg.share
        /\ c.duration = s.cfg.duration /\ c.mode = s.cfg.mode
        /\ c.scenario = s.cfg.scenario /\ c.emit = s.cfg.emit
    BY <1>4 DEF SimConfig
  <2> HIDE DEF c
  <2>3. /\ Take(s, o).cfg = c /\ Take(s, o).explicit = s.explicit
        /\ Take(s, o).rateSet = s.rateSet /\ Take(s, o).modeSet
        /\ Take(s, o).error = s.error
    BY <2>1 DEF ParserState
  <2>4. QED
    BY <1>3, <1>4, <1>10, <2>2, <2>3 DEF Taken
<1>11. CASE o.opt = "serve"
  <2>1. Take(s, o) = TakeServe(s, o)
    <3> DEFINE c == o.opt
    <3>1. c = "serve"
      BY <1>11
    <3> HIDE DEF c
    <3>2. QED
      BY <3>1 DEF Take, c
  <2>2. Strict(o.text) /\ AsInt(o.text.lo) = 1 /\ o.key # ""
    BY <1>2, <1>11 DEF FormOption
  <2>3. IsPort(AsInt(o.text.lo))
    <3> DEFINE p == AsInt(o.text.lo)
    <3>1. p = 1
      BY <2>2
    <3> HIDE DEF p
    <3>2. IsPort(p)
      BY <3>1 DEF IsPort
    <3>3. QED
      BY <3>2 DEF p
  <2> DEFINE c == [s.cfg EXCEPT !.port = 1]
  <2>4. Take(s, o) = [s EXCEPT !.cfg = c]
    BY <1>4, <2>1, <2>2, <2>3 DEF TakeServe, ParserState
  <2>5. /\ c.num = s.cfg.num /\ c.service = s.cfg.service /\ c.share = s.cfg.share
        /\ c.duration = s.cfg.duration /\ c.mode = s.cfg.mode /\ Same(c)
    BY <1>4 DEF SimConfig
  <2> HIDE DEF c
  <2>6. QED
    BY <1>0, <1>3, <1>4, <1>11, <2>4, <2>5 DEF Taken
<1>12. QED
  BY <1>5, <1>6, <1>7, <1>8, <1>9, <1>10, <1>11 DEF FormOption

\* It is obeyed, and so is what was before.
LEMMA TakenObeyed ==
    ASSUME NEW s \in ParserState, NEW o, FormOption(o), NEW t, Taken(s, o, t)
    PROVE  Obeys(t, o)
<1>1. /\ s.cfg.num \in [NumKey -> Int] /\ s.cfg.share \in [Device -> Int]
      /\ DOMAIN s.cfg.duration = Device /\ DOMAIN s.cfg.mode = Device
  BY DEF ParserState, SimConfig
<1>2. o.opt = "int" => t.cfg.num[o.key] = o.text.lo
  BY <1>1 DEF Taken, FormOption, FormKey
<1>3. o.opt = "lambda" => t.cfg.num["lambda"] = o.text.lo
  BY <1>1 DEF Taken, NumKey
<1>4. o.opt = "share" => o.key \in t.explicit /\ t.cfg.share[o.key] = o.text.lo
  BY <1>1 DEF Taken, FormOption, Device
<1>5. o.opt = "duration" => t.cfg.duration[o.key] = Span(o.text.lo, o.text.hi)
  BY <1>1 DEF Taken, FormOption
<1>6. o.opt = "mode" => t.cfg.mode[o.key] = o.text.word
  BY <1>1 DEF Taken, FormOption
<1>7. QED
  BY <1>2, <1>3, <1>4, <1>5, <1>6 DEF Taken, Obeys

LEMMA TakenKeeps ==
    ASSUME NEW s \in ParserState, NEW o, FormOption(o), NEW t, Taken(s, o, t),
           NEW u, FormOption(u), Obeys(s, u), ~(o.opt = u.opt /\ o.key = u.key),
           u.opt = "lambda" \/ u.opt = "service" \/ u.opt = "arrivalMode" => o.opt # u.opt
    PROVE  Obeys(t, u)
<1>1. /\ s.cfg.num \in [NumKey -> Int] /\ s.cfg.share \in [Device -> Int]
      /\ DOMAIN s.cfg.duration = Device /\ DOMAIN s.cfg.mode = Device
  BY DEF ParserState, SimConfig
<1>2. u.opt = "int" => t.cfg.num[u.key] = u.text.lo
  BY <1>1 DEF Taken, FormOption, FormKey, Obeys
<1>3. u.opt = "lambda" => t.cfg.num["lambda"] = u.text.lo
  BY <1>1 DEF Taken, FormOption, FormKey, NumKey, Obeys
<1>4. u.opt = "share" => u.key \in t.explicit /\ t.cfg.share[u.key] = u.text.lo
  BY <1>1 DEF Taken, FormOption, Device, Obeys
<1>5. u.opt = "duration" => t.cfg.duration[u.key] = Span(u.text.lo, u.text.hi)
  BY <1>1 DEF Taken, FormOption, Obeys
<1>6. u.opt = "mode" => t.cfg.mode[u.key] = u.text.word
  BY <1>1 DEF Taken, FormOption, Obeys
<1>7. u.opt = "service" => t.cfg.service = Span(u.text.lo, u.text.hi)
  BY DEF Taken, Obeys
<1>8. u.opt = "arrivalMode" => t.modeSet /\ t.cfg.arrivalMode = u.text.word
  BY DEF Taken, Obeys
<1>9. QED
  BY <1>2, <1>3, <1>4, <1>5, <1>6, <1>7, <1>8 DEF Obeys

\* The options of a form decide different things: the text of each follows from
\* what it is about.
LEMMA FormOptionsDiffer ==
    ASSUME NEW f, GoodForm(f), NEW o \in FormOptions(f), NEW u \in FormOptions(f),
           o # u
    PROVE  /\ ~(o.opt = u.opt /\ o.key = u.key)
           /\ u.opt = "lambda" \/ u.opt = "service" \/ u.opt = "arrivalMode" => o.opt # u.opt
<1>1. f.arrivalMode \in {"batch", "bernoulli", "poisson", "uniform"}
  BY DEF GoodForm, Form
<1> DEFINE T(opt, key) ==
        CASE opt = "int" -> Num(f.num[key])
          [] opt = "lambda" -> Num(f.num["lambda"])
          [] opt = "service" -> SpanText(f.service)
          [] opt = "share" -> Num(f.share[key])
          [] opt = "duration" -> SpanText(f.duration[key])
          [] opt = "mode" -> Word(f.mode[key])
          [] opt = "arrivalMode" -> Word(f.arrivalMode)
          [] OTHER -> Num(1)
           Single == {"lambda", "service", "arrivalMode"}
           Alone(x) == x.opt \in Single => x.key = ""
<1>2. /\ \A k : T("int", k) = Num(f.num[k])
      /\ \A k : T("lambda", k) = Num(f.num["lambda"])
      /\ \A k : T("service", k) = SpanText(f.service)
      /\ \A k : T("share", k) = Num(f.share[k])
      /\ \A k : T("duration", k) = SpanText(f.duration[k])
      /\ \A k : T("mode", k) = Word(f.mode[k])
      /\ \A k : T("arrivalMode", k) = Word(f.arrivalMode)
      /\ \A k : T("serve", k) = Num(1)
  OBVIOUS
<1>0. "int" \notin Single /\ "share" \notin Single /\ "duration" \notin Single
      /\ "mode" \notin Single /\ "serve" \notin Single
  OBVIOUS
<1> HIDE DEF T
<1> DEFINE Told(x) == x = Option(x.opt, x.key, T(x.opt, x.key)) /\ Alone(x)
<1>3. ASSUME NEW x, NEW opt, NEW key, x = Option(opt, key, T(opt, key)),
             key = "" \/ opt \notin Single
      PROVE  Told(x)
  <2>1. x.opt = opt /\ x.key = key
    BY <1>3 DEF Option
  <2>2. QED
    BY <1>3, <2>1
<1>4. ASSUME NEW x \in FormOptions(f) PROVE Told(x)
  <2>1. ASSUME NEW k, x = NumText(f, k) PROVE Told(x)
    <3>1. x = Option("int", k, T("int", k))
      BY <1>2, <2>1 DEF NumText
    <3> HIDE DEF Told, Single
    <3>2. QED
      BY <1>3, <1>0, <3>1
  <2>2. CASE x = Option("service", "", SpanText(f.service))
    <3>1. x = Option("service", "", T("service", ""))
      BY <1>2, <2>2
    <3> HIDE DEF Told, Single
    <3>2. QED
      BY <1>3, <1>0, <3>1
  <2>3. CASE x \in ArrivalOptions(f)
    <3>1. \/ \E k : x = NumText(f, k)
          \/ x = Option("lambda", "", Num(f.num["lambda"]))
          \/ x = Option("arrivalMode", "", Word(f.arrivalMode))
      BY <1>1, <2>3 DEF ArrivalOptions
    <3>2. \/ \E k : x = NumText(f, k)
          \/ x = Option("lambda", "", T("lambda", ""))
          \/ x = Option("arrivalMode", "", T("arrivalMode", ""))
      BY <1>2, <3>1
    <3> HIDE DEF Told, Single
    <3>3. QED
      BY <1>3, <1>0, <2>1, <3>2
  <2>4. ASSUME NEW d, x = Option("share", d, Num(f.share[d])) PROVE Told(x)
    <3>1. x = Option("share", d, T("share", d))
      BY <1>2, <2>4
    <3> HIDE DEF Told, Single
    <3>2. QED
      BY <1>3, <1>0, <3>1
  <2>5. ASSUME NEW d, x = Option("duration", d, SpanText(f.duration[d])) PROVE Told(x)
    <3>1. x = Option("duration", d, T("duration", d))
      BY <1>2, <2>5
    <3> HIDE DEF Told, Single
    <3>2. QED
      BY <1>3, <1>0, <3>1
  <2>6. ASSUME NEW d, x = Option("mode", d, Word(f.mode[d])) PROVE Told(x)
    <3>1. x = Option("mode", d, T("mode", d))
      BY <1>2, <2>6
    <3> HIDE DEF Told, Single
    <3>2. QED
      BY <1>3, <1>0, <3>1
  <2>7. CASE x = ServeArg
    <3>1. x = Option("serve", "=", T("serve", "="))
      BY <1>2, <2>7 DEF ServeArg
    <3> HIDE DEF Told, Single
    <3>2. QED
      BY <1>3, <1>0, <3>1
  <2> HIDE DEF Told, Single
  <2>8. QED
    BY <2>1, <2>2, <2>3, <2>4, <2>5, <2>6, <2>7, Zenon DEF FormOptions
<1>5. Told(o) /\ Told(u)
  BY <1>4
<1>6. ~(o.opt = u.opt /\ o.key = u.key)
  BY <1>5, Zenon
<1>7. u.opt \in Single => o.opt # u.opt
  BY <1>5, <1>6
<1>8. QED
  BY <1>6, <1>7

LEMMA TailMembers ==
    ASSUME NEW X, NEW q \in Seq(X), q # <<>>
    PROVE  /\ Head(q) \in X
           /\ Tail(q) \in Seq(X)
           /\ Members(q) \subseteq Members(Tail(q)) \cup {Head(q)}
<1> DEFINE n == Len(q)
           t == Tail(q)
<1>1. n \in Nat /\ n > 0 /\ DOMAIN q = 1..n /\ Head(q) = q[1] /\ q[1] \in X
  OBVIOUS
<1>2. t \in Seq(X) /\ DOMAIN t = 1..(n - 1)
  OBVIOUS
<1>3. \A i \in 1..(n - 1) : t[i] = q[i + 1]
  OBVIOUS
<1> HIDE DEF n, t
<1>4. ASSUME NEW i \in 1..n, i # 1 PROVE q[i] \in Members(t)
  <2>1. i - 1 \in 1..(n - 1) /\ (i - 1) + 1 = i
    BY <1>1, <1>4
  <2>2. QED
    BY <1>2, <1>3, <2>1 DEF Members
<1>5. Members(q) \subseteq Members(t) \cup {Head(q)}
  BY <1>1, <1>4 DEF Members
<1>6. QED
  BY <1>1, <1>2, <1>5 DEF t

\* Processes that all arrive at once have no option about it.
LEMMA BatchOptions ==
    ASSUME NEW f, f.arrivalMode = "batch", NEW o \in FormOptions(f)
    PROVE  o.opt # "arrivalMode" /\ ~(o.opt = "int" /\ o.key = "arrivalRate")
<1>1. ASSUME NEW k, k # "arrivalRate", o = NumText(f, k)
      PROVE  o.opt # "arrivalMode" /\ o.key # "arrivalRate"
  BY <1>1 DEF NumText, Option
<1>2. ASSUME NEW opt, NEW key, NEW t, o = Option(opt, key, t), opt # "arrivalMode", opt # "int"
      PROVE  o.opt # "arrivalMode" /\ o.opt # "int"
  BY <1>2 DEF Option
<1>3. ArrivalOptions(f) = {}
  BY DEF ArrivalOptions
<1>4. \A k \in {"processCount", "quantumHi", "quantumLo", "pIo", "seed"} : k # "arrivalRate"
  OBVIOUS
<1>5. CASE \E k \in {"processCount", "quantumHi", "quantumLo", "pIo", "seed"} : o = NumText(f, k)
  BY <1>1, <1>4, <1>5
<1>6. CASE o = Option("service", "", SpanText(f.service))
  BY <1>2, <1>6
<1>7. CASE \E d \in {"disk", "tape"} : o = Option("share", d, Num(f.share[d]))
  BY <1>2, <1>7
<1>8. CASE \E d \in Device : o = Option("duration", d, SpanText(f.duration[d]))
  BY <1>2, <1>8
<1>9. CASE \E d \in Device : o = Option("mode", d, Word(f.mode[d]))
  BY <1>2, <1>9
<1>10. CASE o = ServeArg
  BY <1>2, <1>10 DEF ServeArg
<1>11. QED
  BY <1>3, <1>5, <1>6, <1>7, <1>8, <1>9, <1>10, Zenon DEF FormOptions

\* Taking the next of the options of a form.
LEMMA FormOptionTaken ==
    ASSUME SeedMost < IntHalf, NEW f, GoodForm(f), OnItsWay(f), TakeOption
    PROVE  OnItsWay(f)'
<1> DEFINE o == Head(argv)
<1>1. /\ ps \in ParserState /\ ps.error = 0 /\ argv \in Seq(FormOptions(f)) /\ argv # <<>>
      /\ \A u \in FormOptions(f) : u \in Members(argv) \/ Obeys(ps, u)
      /\ ps.explicit \subseteq {"disk", "tape"} /\ ps.cfg.scenario = "" /\ ~ps.cfg.emit
      /\ f.arrivalMode = "batch" => ps.cfg.arrivalMode = "batch" /\ ~ps.rateSet
      /\ ps' = Take(ps, o) /\ argv' = Tail(argv)
  BY DEF OnItsWay, TakeOption
<1>2. /\ o \in FormOptions(f) /\ argv' \in Seq(FormOptions(f))
      /\ Members(argv) \subseteq Members(argv') \cup {o}
  BY <1>1, TailMembers
<1> HIDE DEF o
<1>3. FormOption(o)
  BY <1>2, FormOptionsAre
<1>4. ps' \in ParserState /\ Taken(ps, o, ps')
  BY <1>1, <1>3, FormTaken
<1>5. ASSUME NEW u \in FormOptions(f) PROVE u \in Members(argv') \/ Obeys(ps', u)
  <2>1. CASE u = o
    BY <1>1, <1>3, <1>4, <2>1, TakenObeyed
  <2>2. CASE u # o
    <3>1. CASE u \in Members(argv)
      BY <1>2, <2>2, <3>1
    <3>2. CASE Obeys(ps, u)
      <4>1. FormOption(u)
        BY FormOptionsAre
      <4>2. /\ ~(o.opt = u.opt /\ o.key = u.key)
            /\ u.opt = "lambda" \/ u.opt = "service" \/ u.opt = "arrivalMode" => o.opt # u.opt
        BY <1>2, <2>2, FormOptionsDiffer
      <4>3. Obeys(ps', u)
        BY <1>1, <1>3, <1>4, <3>2, <4>1, <4>2, TakenKeeps
      <4>4. QED
        BY <4>3
    <3>3. QED
      BY <1>1, <3>1, <3>2
  <2>3. QED
    BY <2>1, <2>2
<1>6. ps'.error = 0 /\ ps'.cfg.scenario = "" /\ ~ps'.cfg.emit
  <2>1. /\ ps'.error = ps.error /\ ps'.cfg.scenario = ps.cfg.scenario
        /\ ps'.cfg.emit = ps.cfg.emit
    BY <1>4, Zenon DEF Taken
  <2>2. QED
    BY <1>1, <2>1
<1>7. ps'.explicit \subseteq {"disk", "tape"}
  <2>1. ps'.explicit = IF o.opt = "share" THEN ps.explicit \cup {o.key} ELSE ps.explicit
    BY <1>4, Zenon DEF Taken
  <2>2. o.opt = "share" => o.key \in {"disk", "tape"}
    BY <1>3 DEF FormOption
  <2>3. QED
    BY <1>1, <2>1, <2>2
<1>8. ASSUME f.arrivalMode = "batch" PROVE ps'.cfg.arrivalMode = "batch" /\ ~ps'.rateSet
  <2>1. o.opt # "arrivalMode" /\ ~(o.opt = "int" /\ o.key = "arrivalRate")
    BY <1>2, <1>8, BatchOptions
  <2>2. QED
    BY <1>1, <1>4, <1>8, <2>1 DEF Taken
<1>9. QED
  BY <1>2, <1>4, <1>5, <1>6, <1>7, <1>8 DEF OnItsWay

-----------------------------------------------------------------------------
(* A launch gives the options of its form.                                 *)

LEMMA OneMember == ASSUME NEW a PROVE Members(<<a>>) = {a}
<1>1. DOMAIN <<a>> = {1}
  OBVIOUS
<1>2. QED
  BY <1>1 DEF Members

LEMMA TwoMembers == ASSUME NEW a, NEW b PROVE Members(<<a, b>>) = {a, b}
<1>1. DOMAIN <<a, b>> = {1, 2}
  OBVIOUS
<1>2. QED
  BY <1>1 DEF Members

LEMMA SixMembers ==
    ASSUME NEW a, NEW b, NEW c, NEW d, NEW e, NEW g
    PROVE  Members(<<a, b, c, d, e, g>>) = {a, b, c, d, e, g}
<1> DEFINE s == <<a, b, c, d, e, g>>
<1>1. DOMAIN s = {1, 2, 3, 4, 5, 6}
  OBVIOUS
<1>2. s[1] = a /\ s[2] = b /\ s[3] = c /\ s[4] = d /\ s[5] = e /\ s[6] = g
  OBVIOUS
<1> HIDE DEF s
<1>3. Members(s) = {a, b, c, d, e, g}
  BY <1>1, <1>2 DEF Members
<1>4. QED
  BY <1>3 DEF s

LEMMA ArrivalArgsAre ==
    ASSUME NEW f, GoodForm(f)
    PROVE  /\ ArrivalArgs(f) \in Seq(ArrivalOptions(f))
           /\ Members(ArrivalArgs(f)) = ArrivalOptions(f)
<1>1. f.arrivalMode \in {"batch", "bernoulli", "poisson", "uniform"}
  BY DEF GoodForm, Form
<1>2. ASSUME NEW a, NEW b, ArrivalArgs(f) = <<a, b>>, ArrivalOptions(f) = {a, b}
      PROVE  /\ ArrivalArgs(f) \in Seq(ArrivalOptions(f))
             /\ Members(ArrivalArgs(f)) = ArrivalOptions(f)
  BY <1>2, TwoMembers
<1>3. CASE f.arrivalMode = "batch"
  <2>1. ArrivalArgs(f) = <<>> /\ ArrivalOptions(f) = {}
    BY <1>3 DEF ArrivalArgs, ArrivalOptions
  <2>2. QED
    BY <2>1 DEF Members
<1> DEFINE named == Option("arrivalMode", "", Word(f.arrivalMode))
           lambda == Option("lambda", "", Num(f.num["lambda"]))
<1>4. CASE f.arrivalMode = "bernoulli"
  <2>1. /\ ArrivalArgs(f) = <<named, NumText(f, "arrivalRate")>>
        /\ ArrivalOptions(f) = {named, NumText(f, "arrivalRate")}
    BY <1>4 DEF ArrivalArgs, ArrivalOptions
  <2> HIDE DEF named
  <2>2. QED
    BY <1>2, <2>1
<1>5. CASE f.arrivalMode = "poisson"
  <2>1. /\ ArrivalArgs(f) = <<named, lambda>>
        /\ ArrivalOptions(f) = {named, lambda}
    BY <1>5 DEF ArrivalArgs, ArrivalOptions
  <2> HIDE DEF named, lambda
  <2>2. QED
    BY <1>2, <2>1
<1>6. CASE f.arrivalMode = "uniform"
  <2>1. /\ ArrivalArgs(f) = <<named, NumText(f, "arrivalInterval")>>
        /\ ArrivalOptions(f) = {named, NumText(f, "arrivalInterval")}
    BY <1>6 DEF ArrivalArgs, ArrivalOptions
  <2> HIDE DEF named
  <2>2. QED
    BY <1>2, <2>1
<1>7. QED
  BY <1>1, <1>3, <1>4, <1>5, <1>6

LEMMA DeviceArgsAre ==
    ASSUME NEW f, NEW d
    PROVE  DeviceArgs(f, d) = <<Option("duration", d, SpanText(f.duration[d])),
                                Option("mode", d, Word(f.mode[d]))>>
BY DEF DeviceArgs, SpanText

LEMMA ArgumentsOfForm ==
    ASSUME NEW f, GoodForm(f)
    PROVE  /\ BuildArgs([mode |-> "random", form |-> f]) \in Seq(FormOptions(f))
           /\ FormOptions(f) \subseteq Members(BuildArgs([mode |-> "random", form |-> f]))
<1> DEFINE O == FormOptions(f)
           dur(d) == Option("duration", d, SpanText(f.duration[d]))
           mod(d) == Option("mode", d, Word(f.mode[d]))
           shr(d) == Option("share", d, Num(f.share[d]))
           svc == Option("service", "", SpanText(f.service))
           first == <<NumText(f, "processCount"), NumText(f, "quantumHi"),
                      NumText(f, "quantumLo"), NumText(f, "pIo"), svc, NumText(f, "seed")>>
           arrive == ArrivalArgs(f)
           shares == <<shr("disk"), shr("tape")>>
           dev(d) == <<dur(d), mod(d)>>
           args == BuildArgs([mode |-> "random", form |-> f])
<1>1. args = first \o arrive \o shares \o dev("disk") \o dev("tape") \o dev("printer")
               \o <<ServeArg>>
  BY DeviceArgsAre DEF BuildArgs, SpanText
<1>2. O = {NumText(f, k) : k \in {"processCount", "quantumHi", "quantumLo", "pIo", "seed"}}
          \cup {svc} \cup ArrivalOptions(f)
          \cup {shr(d) : d \in {"disk", "tape"}}
          \cup {dur(d) : d \in Device} \cup {mod(d) : d \in Device}
          \cup {ServeArg}
  BY Zenon DEF FormOptions
<1> HIDE DEF O, dur, mod, shr, svc, args
<1>3. Device = {"disk", "tape", "printer"}
  BY DEF Device
<1>4. first \in Seq(O) /\ Members(first) = {NumText(f, "processCount"), NumText(f, "quantumHi"),
                      NumText(f, "quantumLo"), NumText(f, "pIo"), svc, NumText(f, "seed")}
  <2>1. /\ NumText(f, "processCount") \in O /\ NumText(f, "quantumHi") \in O
        /\ NumText(f, "quantumLo") \in O /\ NumText(f, "pIo") \in O
        /\ svc \in O /\ NumText(f, "seed") \in O
    BY <1>2
  <2>2. QED
    BY <2>1, SixMembers
<1>5. arrive \in Seq(O) /\ Members(arrive) = ArrivalOptions(f)
  <2>1. arrive \in Seq(ArrivalOptions(f)) /\ Members(arrive) = ArrivalOptions(f)
    BY ArrivalArgsAre
  <2>2. ArrivalOptions(f) \subseteq O
    BY <1>2
  <2> HIDE DEF arrive
  <2>3. QED
    BY <2>1, <2>2
<1>6. shares \in Seq(O) /\ Members(shares) = {shr("disk"), shr("tape")}
  <2>1. shr("disk") \in O /\ shr("tape") \in O
    BY <1>2
  <2>2. QED
    BY <2>1, TwoMembers
<1>7. ASSUME NEW d \in Device PROVE dev(d) \in Seq(O) /\ Members(dev(d)) = {dur(d), mod(d)}
  <2>1. dur(d) \in O /\ mod(d) \in O
    BY <1>2
  <2>2. QED
    BY <2>1, TwoMembers
<1>8. <<ServeArg>> \in Seq(O) /\ Members(<<ServeArg>>) = {ServeArg}
  <2>1. ServeArg \in O
    BY <1>2
  <2>2. QED
    BY <2>1, OneMember
<1> DEFINE last == <<ServeArg>>
           parts == Members(first) \cup Members(arrive) \cup Members(shares)
                    \cup Members(dev("disk")) \cup Members(dev("tape"))
                    \cup Members(dev("printer")) \cup Members(last)
<1>9. "disk" \in Device /\ "tape" \in Device /\ "printer" \in Device
  BY <1>3
<1> HIDE DEF first, arrive, shares, dev, last
<1>10. args \in Seq(O) /\ Members(args) = parts
  <2>1. /\ first \in Seq(O) /\ arrive \in Seq(O) /\ shares \in Seq(O)
        /\ dev("disk") \in Seq(O) /\ dev("tape") \in Seq(O) /\ dev("printer") \in Seq(O)
        /\ last \in Seq(O)
    BY <1>4, <1>5, <1>6, <1>7, <1>8, <1>9 DEF last
  <2>2. ASSUME NEW q \in Seq(O), NEW r \in Seq(O)
        PROVE  q \o r \in Seq(O) /\ Members(q \o r) = Members(q) \cup Members(r)
    BY ConcatMembers
  <2> DEFINE two == first \o arrive
             three == two \o shares
             four == three \o dev("disk")
             five == four \o dev("tape")
             six == five \o dev("printer")
             seven == six \o last
  <2>3. args = seven
    BY <1>1 DEF last
  <2>4. two \in Seq(O) /\ Members(two) = Members(first) \cup Members(arrive)
    BY <2>1, <2>2
  <2> HIDE DEF two
  <2>5. three \in Seq(O) /\ Members(three) = Members(two) \cup Members(shares)
    BY <2>1, <2>2, <2>4
  <2> HIDE DEF three
  <2>6. four \in Seq(O) /\ Members(four) = Members(three) \cup Members(dev("disk"))
    BY <2>1, <2>2, <2>5
  <2> HIDE DEF four
  <2>7. five \in Seq(O) /\ Members(five) = Members(four) \cup Members(dev("tape"))
    BY <2>1, <2>2, <2>6
  <2> HIDE DEF five
  <2>8. six \in Seq(O) /\ Members(six) = Members(five) \cup Members(dev("printer"))
    BY <2>1, <2>2, <2>7
  <2> HIDE DEF six
  <2>9. seven \in Seq(O) /\ Members(seven) = Members(six) \cup Members(last)
    BY <2>1, <2>2, <2>8
  <2> HIDE DEF seven
  <2>10. QED
    BY <2>3, <2>4, <2>5, <2>6, <2>7, <2>8, <2>9
<1>11. Members(args) = Members(first) \cup Members(arrive) \cup Members(shares)
          \cup {dur("disk"), mod("disk")} \cup {dur("tape"), mod("tape")}
          \cup {dur("printer"), mod("printer")} \cup {ServeArg}
  BY <1>7, <1>8, <1>9, <1>10 DEF last
<1>12. O \subseteq Members(args)
  BY <1>2, <1>3, <1>4, <1>5, <1>6, <1>11
<1>13. QED
  BY <1>10, <1>12 DEF O, args

LEMMA LaunchedOnItsWay ==
    ASSUME NEW f, GoodForm(f), Start(BuildArgs([mode |-> "random", form |-> f]))
    PROVE  OnItsWay(f)'
<1>1. ps' = ParserStart /\ argv' = BuildArgs([mode |-> "random", form |-> f])
  BY DEF Start
<1>2. /\ ParserStart.error = 0 /\ ParserStart.explicit = {} /\ ParserStart.rateSet = FALSE
      /\ ParserStart.cfg = DefaultConfig
  BY DEF ParserStart
<1>3. /\ DefaultConfig.scenario = "" /\ DefaultConfig.emit = FALSE
      /\ DefaultConfig.arrivalMode = "batch"
  BY DEF DefaultConfig
<1>4. argv' \in Seq(FormOptions(f)) /\ FormOptions(f) \subseteq Members(argv')
  BY <1>1, ArgumentsOfForm
<1>5. QED
  BY <1>1, <1>2, <1>3, <1>4, StartShape DEF OnItsWay

-----------------------------------------------------------------------------
(* The parser that has taken them all accepts the form it should.          *)

\* What it knows then.
KnowsForm(s, f) ==
    /\ \A k \in {"processCount", "quantumHi", "quantumLo", "pIo", "seed"} :
           s.cfg.num[k] = f.num[k]
    /\ f.arrivalMode = "bernoulli" => s.cfg.num["arrivalRate"] = f.num["arrivalRate"]
    /\ f.arrivalMode = "poisson" => s.cfg.num["lambda"] = f.num["lambda"]
    /\ f.arrivalMode = "uniform" => s.cfg.num["arrivalInterval"] = f.num["arrivalInterval"]
    /\ EffectiveMode(s) = f.arrivalMode
    /\ s.cfg.service = f.service /\ s.cfg.duration = f.duration /\ s.cfg.mode = f.mode
    /\ s.explicit = {"disk", "tape"}
    /\ \A d \in {"disk", "tape"} : s.cfg.share[d] = f.share[d]
    /\ s.cfg.scenario = "" /\ ~s.cfg.emit

LEMMA SpanObeyed ==
    ASSUME NEW r, r \in [min : 1..100, max : 1..100]
    PROVE  Span(SpanText(r).lo, SpanText(r).hi) = r
<1>1. SpanText(r).lo = r.min /\ SpanText(r).hi = r.max
  BY RangeRead DEF SpanText
<1>2. r = [min |-> r.min, max |-> r.max]
  OBVIOUS
<1>3. QED
  BY <1>1, <1>2 DEF Span

LEMMA FormKnown ==
    ASSUME NEW f, GoodForm(f), OnItsWay(f), argv = <<>>
    PROVE  KnowsForm(ps, f)
<1>1. /\ f.num \in [NumKey -> 0..SeedMost] /\ f.service \in [min : 1..100, max : 1..100]
      /\ f.duration \in [Device -> [min : 1..100, max : 1..100]]
      /\ f.mode \in [Device -> IoMode] /\ f.share \in [{"disk", "tape"} -> 0..100]
      /\ f.arrivalMode \in {"batch", "bernoulli", "poisson", "uniform"}
  BY DEF GoodForm, Form
<1>2. \A o \in FormOptions(f) : Obeys(ps, o)
  <2>1. Members(argv) = {}
    BY DEF Members
  <2>2. QED
    BY <2>1 DEF OnItsWay
<1>3. ps \in ParserState /\ ps.cfg \in SimConfig
  BY DEF OnItsWay, ParserState
<1>4. ASSUME NEW opt, NEW key, NEW t, Option(opt, key, t) \in FormOptions(f)
      PROVE  /\ Obeys(ps, Option(opt, key, t)) /\ Option(opt, key, t).opt = opt
             /\ Option(opt, key, t).key = key /\ Option(opt, key, t).text = t
  BY <1>2, <1>4 DEF Option
<1>5. ASSUME NEW k, NumText(f, k) \in FormOptions(f) PROVE ps.cfg.num[k] = f.num[k]
  <2>1. Option("int", k, Num(f.num[k])) \in FormOptions(f)
    BY <1>5 DEF NumText
  <2>2. Num(f.num[k]).lo = f.num[k]
    BY NumberRead
  <2> DEFINE t == Num(f.num[k])
  <2> HIDE DEF t
  <2>3. ps.cfg.num[k] = t.lo
    BY <1>4, <2>1 DEF Obeys, t
  <2>4. QED
    BY <2>2, <2>3 DEF t
<1>6. \A k \in {"processCount", "quantumHi", "quantumLo", "pIo", "seed"} :
          ps.cfg.num[k] = f.num[k]
  <2>1. \A k \in {"processCount", "quantumHi", "quantumLo", "pIo", "seed"} :
            NumText(f, k) \in FormOptions(f)
    BY DEF FormOptions
  <2>2. QED
    BY <1>5, <2>1
<1>7. ps.cfg.service = f.service
  <2> DEFINE t == SpanText(f.service)
  <2>1. Option("service", "", t) \in FormOptions(f)
    BY DEF FormOptions
  <2>2. Span(t.lo, t.hi) = f.service
    BY <1>1, SpanObeyed
  <2> DEFINE o == Option("service", "", t)
  <2>3. Obeys(ps, o)
    BY <1>2, <2>1
  <2>4. o.opt = "service" /\ o.text = t
    BY DEF Option
  <2> HIDE DEF t, o
  <2>5. QED
    BY <2>2, <2>3, <2>4 DEF Obeys
<1>8. ASSUME NEW d \in {"disk", "tape"}
      PROVE  d \in ps.explicit /\ ps.cfg.share[d] = f.share[d]
  <2> DEFINE t == Num(f.share[d])
  <2>1. Option("share", d, t) \in FormOptions(f)
    BY DEF FormOptions
  <2>2. t.lo = f.share[d]
    BY NumberRead
  <2> DEFINE o == Option("share", d, t)
  <2>3. Obeys(ps, o) /\ o.opt = "share" /\ o.key = d /\ o.text = t
    BY <1>4, <2>1
  <2> HIDE DEF t, o
  <2>4. QED
    BY <2>2, <2>3 DEF Obeys
<1>9. ps.cfg.duration = f.duration
  <2>1. ASSUME NEW d \in Device PROVE ps.cfg.duration[d] = f.duration[d]
    <3> DEFINE t == SpanText(f.duration[d])
    <3>1. Option("duration", d, t) \in FormOptions(f)
      BY DEF FormOptions
    <3>2. Span(t.lo, t.hi) = f.duration[d]
      BY <1>1, SpanObeyed
    <3> HIDE DEF t
    <3>3. QED
      BY <1>4, <3>1, <3>2 DEF Obeys
  <2>2. ps.cfg.duration \in [Device -> Duration]
    BY <1>3 DEF SimConfig
  <2>3. QED
    BY <1>1, <2>1, <2>2
<1>10. ps.cfg.mode = f.mode
  <2>1. ASSUME NEW d \in Device PROVE ps.cfg.mode[d] = f.mode[d]
    <3> DEFINE t == Word(f.mode[d])
    <3>1. Option("mode", d, t) \in FormOptions(f)
      BY DEF FormOptions
    <3>2. t.word = f.mode[d]
      BY WordRead
    <3> HIDE DEF t
    <3>3. QED
      BY <1>4, <3>1, <3>2 DEF Obeys
  <2>2. ps.cfg.mode \in [Device -> IoMode]
    BY <1>3 DEF SimConfig
  <2>3. QED
    BY <1>1, <2>1, <2>2
<1>11. ASSUME Option("arrivalMode", "", Word(f.arrivalMode)) \in FormOptions(f)
       PROVE  EffectiveMode(ps) = f.arrivalMode
  <2> DEFINE t == Word(f.arrivalMode)
  <2>1. t.word = f.arrivalMode
    BY WordRead
  <2>2. Option("arrivalMode", "", t) \in FormOptions(f)
    BY <1>11
  <2> DEFINE o == Option("arrivalMode", "", t)
  <2>3. Obeys(ps, o) /\ o.opt = "arrivalMode" /\ o.text = t
    <3>1. Obeys(ps, o)
      BY <1>2, <2>2
    <3>2. o.opt = "arrivalMode" /\ o.text = t
      BY DEF Option
    <3>3. QED
      BY <3>1, <3>2
  <2> HIDE DEF t, o
  <2>4. ps.modeSet /\ ps.cfg.arrivalMode = f.arrivalMode
    BY <2>1, <2>3 DEF Obeys
  <2>5. QED
    BY <2>4 DEF EffectiveMode
<1>12. ArrivalOptions(f) \subseteq FormOptions(f)
  BY Zenon DEF FormOptions
<1>13. CASE f.arrivalMode = "batch"
  <2>1. EffectiveMode(ps) = f.arrivalMode
    BY <1>13 DEF OnItsWay, EffectiveMode
  <2>2. QED
    BY <1>6, <1>7, <1>8, <1>9, <1>10, <1>13, <2>1 DEF KnowsForm, OnItsWay
<1>14. CASE f.arrivalMode = "bernoulli"
  <2>1. Option("arrivalMode", "", Word(f.arrivalMode)) \in FormOptions(f)
    BY <1>12, <1>14 DEF ArrivalOptions
  <2>2. NumText(f, "arrivalRate") \in FormOptions(f)
    BY <1>12, <1>14 DEF ArrivalOptions
  <2>3. QED
    BY <1>5, <1>6, <1>7, <1>8, <1>9, <1>10, <1>11, <1>14, <2>1, <2>2 DEF KnowsForm, OnItsWay
<1>15. CASE f.arrivalMode = "uniform"
  <2>1. Option("arrivalMode", "", Word(f.arrivalMode)) \in FormOptions(f)
    BY <1>12, <1>15 DEF ArrivalOptions
  <2>2. NumText(f, "arrivalInterval") \in FormOptions(f)
    BY <1>12, <1>15 DEF ArrivalOptions
  <2>3. QED
    BY <1>5, <1>6, <1>7, <1>8, <1>9, <1>10, <1>11, <1>15, <2>1, <2>2 DEF KnowsForm, OnItsWay
<1>16. CASE f.arrivalMode = "poisson"
  <2>1. Option("arrivalMode", "", Word(f.arrivalMode)) \in FormOptions(f)
    BY <1>12, <1>16 DEF ArrivalOptions
  <2> DEFINE t == Num(f.num["lambda"])
  <2>2. Option("lambda", "", t) \in FormOptions(f)
    BY <1>12, <1>16 DEF ArrivalOptions
  <2>3. t.lo = f.num["lambda"]
    BY NumberRead
  <2> DEFINE o == Option("lambda", "", t)
  <2>4. Obeys(ps, o) /\ o.opt = "lambda" /\ o.text = t
    <3>1. Obeys(ps, o)
      BY <1>2, <2>2
    <3>2. o.opt = "lambda" /\ o.text = t
      BY DEF Option
    <3>3. QED
      BY <3>1, <3>2
  <2> HIDE DEF t, o
  <2>5. ps.cfg.num["lambda"] = f.num["lambda"]
    BY <2>3, <2>4 DEF Obeys
  <2>6. QED
    BY <1>6, <1>7, <1>8, <1>9, <1>10, <1>11, <1>16, <2>1, <2>5 DEF KnowsForm, OnItsWay
<1>17. QED
  BY <1>1, <1>13, <1>14, <1>15, <1>16

LEMMA FormAccepted ==
    ASSUME NEW s \in ParserState, NEW f, GoodForm(f), KnowsForm(s, f)
    PROVE  /\ Acceptable(s) <=> SpansFit(f) /\ SharesFitForm(f)
           /\ Remainder(s) = 100 - f.share["disk"] - f.share["tape"]
<1>1. /\ f.num \in [NumKey -> 0..SeedMost]
      /\ f.duration \in [Device -> [min : 1..100, max : 1..100]]
      /\ f.share \in [{"disk", "tape"} -> 0..100]
      /\ f.arrivalMode \in {"batch", "bernoulli", "poisson", "uniform"}
      /\ \A k \in {"quantumHi", "quantumLo", "arrivalRate", "lambda", "arrivalInterval"} :
             f.num[k] > 0
      /\ f.num["pIo"] <= 100
  BY DEF GoodForm, Form
<1>2. /\ s.cfg.num["quantumHi"] = f.num["quantumHi"] /\ s.cfg.num["quantumLo"] = f.num["quantumLo"]
      /\ s.cfg.num["pIo"] = f.num["pIo"] /\ EffectiveMode(s) = f.arrivalMode
      /\ s.cfg.duration = f.duration /\ s.explicit = {"disk", "tape"} /\ ~s.cfg.emit
      /\ s.cfg.share["disk"] = f.share["disk"] /\ s.cfg.share["tape"] = f.share["tape"]
  BY DEF KnowsForm
<1>3. s.cfg.num["quantumHi"] > 0 /\ s.cfg.num["quantumLo"] > 0
  BY <1>1, <1>2
<1>4. s.cfg.num["pIo"] \in 0..100
  <2>1. f.num["pIo"] \in 0..SeedMost
    BY <1>1 DEF NumKey
  <2> DEFINE n == f.num["pIo"]
  <2>2. n \in Int /\ 0 <= n /\ n <= 100
    BY <1>1, <2>1, SeedMostIs
  <2> HIDE DEF n
  <2>3. n \in 0..100
    BY <2>2
  <2>4. QED
    BY <1>2, <2>3 DEF n
<1> DEFINE a == f.share["disk"]
           b == f.share["tape"]
<1>5. a \in 0..100 /\ b \in 0..100
  BY <1>1
<1>6. Given(s, "disk") = a /\ Given(s, "tape") = b /\ Given(s, "printer") = 0
  BY <1>2 DEF Given
<1> HIDE DEF a, b
<1>7. Remainder(s) = 100 - a - b
  <2>1. SmallShares(s)
    <3>1. 4 * a <= IntHalf /\ -4 * a <= IntHalf /\ 4 * b <= IntHalf /\ -4 * b <= IntHalf
      BY <1>5, IntHalfAssumption
    <3>2. QED
      BY <1>2, <3>1 DEF SmallShares, a, b
  <2>2. Assigned(s) = Given(s, "disk") + Given(s, "tape") + Given(s, "printer")
    BY <2>1, AssignedFits
  <2>3. Remainder(s) = 100 - Assigned(s)
    BY <2>1, AssignedFits
  <2>4. QED
    BY <1>5, <1>6, <2>2, <2>3
<1>8. SharesFit(s) <=> a + b <= 100
  <2>1. s.explicit # {} /\ s.explicit # Device
    BY <1>2 DEF Device
  <2>2. SharesFit(s) <=> Remainder(s) >= 0
    BY <2>1 DEF SharesFit
  <2>3. QED
    BY <1>5, <1>7, <2>2
<1>9. (\A d \in Device : /\ s.cfg.duration[d].min <= s.cfg.duration[d].max
                         /\ s.cfg.duration[d].min >= 1)
        <=> SpansFit(f)
  <2>1. ASSUME NEW n \in 1..100 PROVE n >= 1
    OBVIOUS
  <2>2. \A d \in Device : f.duration[d].min >= 1
    BY <1>1, <2>1, Zenon
  <2>3. QED
    BY <1>2, <2>2 DEF SpansFit
<1>10. ModeHasParameter(EffectiveMode(s), s.cfg.num)
  <2>1. /\ f.arrivalMode = "bernoulli" => s.cfg.num["arrivalRate"] = f.num["arrivalRate"]
        /\ f.arrivalMode = "poisson" => s.cfg.num["lambda"] = f.num["lambda"]
        /\ f.arrivalMode = "uniform" => s.cfg.num["arrivalInterval"] = f.num["arrivalInterval"]
    BY DEF KnowsForm
  <2>2. f.num["arrivalRate"] > 0 /\ f.num["lambda"] > 0 /\ f.num["arrivalInterval"] > 0
    BY <1>1
  <2>3. QED
    BY <1>1, <1>2, <2>1, <2>2 DEF ModeHasParameter
<1>11. Acceptable(s) <=> SpansFit(f) /\ SharesFitForm(f)
  <2> DEFINE spans == \A d \in Device : /\ s.cfg.duration[d].min <= s.cfg.duration[d].max
                                        /\ s.cfg.duration[d].min >= 1
  <2>1. spans <=> SpansFit(f)
    BY <1>9
  <2>2. SharesFit(s) <=> SharesFitForm(f)
    BY <1>8 DEF SharesFitForm, a, b
  <2>3. Acceptable(s) <=> SharesFit(s) /\ spans
    BY <1>2, <1>3, <1>4, <1>10, Zenon DEF Acceptable
  <2> HIDE DEF spans
  <2>4. QED
    BY <2>1, <2>2, <2>3
<1>12. QED
  BY <1>7, <1>11 DEF a, b

LEMMA FormValidated ==
    ASSUME NEW s \in ParserState, NEW f, GoodForm(f), KnowsForm(s, f), s.error = 0
    PROVE  IF SpansFit(f) /\ SharesFitForm(f)
           THEN /\ Validate(s) \in ParserState /\ Validate(s).error = 0
                /\ Shows(Validate(s).cfg, f)
                /\ Validate(s).cfg.scenario = "" /\ ~Validate(s).cfg.emit
           ELSE Validate(s).error # 0
<1>1. CASE ~(SpansFit(f) /\ SharesFitForm(f))
  <2>1. Validate(s) = [s EXCEPT !.error = 1]
    BY <1>1, FormAccepted DEF Validate, Refuse
  <2>2. QED
    BY <1>1, <2>1 DEF ParserState
<1>2. CASE SpansFit(f) /\ SharesFitForm(f)
  <2> DEFINE share == FilledShares(s)
             v == Validate(s)
  <2>1. v = [s EXCEPT !.cfg.share = share, !.cfg.arrivalMode = EffectiveMode(s)]
    BY <1>2, FormAccepted DEF Validate
  <2>2. share \in [Device -> Int]
    BY FilledType
  <2>3. EffectiveMode(s) \in ArrivalMode
    BY DEF EffectiveMode, ArrivalMode, ParserState, SimConfig
  <2>4. s.explicit = {"disk", "tape"} /\ \A d \in {"disk", "tape"} : s.cfg.share[d] = f.share[d]
    BY DEF KnowsForm
  <2>5. \A d \in {"disk", "tape"} : share[d] = f.share[d]
    BY <2>4 DEF FilledShares, Device
  <2>6. share["printer"] = PrinterShare(f)
    <3> DEFINE rem == Remainder(s)
               a == f.share["disk"]
               b == f.share["tape"]
    <3>1. rem = 100 - a - b
      BY FormAccepted
    <3>2. a + b <= 100 /\ a \in 0..100 /\ b \in 0..100
      BY <1>2 DEF SharesFitForm, GoodForm, Form
    <3>3. Cardinality(Device \ s.explicit) = 1
      <4>1. Device \ s.explicit = {"printer"}
        BY <2>4 DEF Device
      <4>2. QED
        BY <4>1, FS_Singleton
    <3>4. FirstUnset(s.explicit) = "printer"
      BY <2>4 DEF FirstUnset
    <3>5. share["printer"] = RemainderPart(rem, 1, TRUE)
      BY <2>4, <3>3, <3>4 DEF FilledShares, Device
    <3>6. PrinterShare(f) = IF 100 - a - b > 0 THEN 100 - a - b ELSE 0
      BY DEF PrinterShare
    <3> HIDE DEF share, rem, a, b
    <3>7. a \in Int /\ b \in Int /\ rem \in Int /\ rem >= 0
      BY <3>1, <3>2
    <3>8. RemainderPart(rem, 1, TRUE) = rem
      BY <3>7, OnePart
    <3>9. PrinterShare(f) = rem
      BY <3>1, <3>6, <3>7
    <3>10. QED
      BY <3>5, <3>8, <3>9
  <2> HIDE DEF share, v
  <2>7. s.cfg \in SimConfig
    BY DEF ParserState
  <2>8. v \in ParserState /\ v.error = 0
    BY <2>1, <2>2, <2>3, <2>7 DEF ParserState, SimConfig
  <2>9. /\ v.cfg.share = share /\ v.cfg.arrivalMode = EffectiveMode(s)
        /\ v.cfg.num = s.cfg.num /\ v.cfg.service = s.cfg.service
        /\ v.cfg.duration = s.cfg.duration /\ v.cfg.mode = s.cfg.mode
        /\ v.cfg.scenario = s.cfg.scenario /\ v.cfg.emit = s.cfg.emit
    BY <2>1, <2>7 DEF ParserState, SimConfig
  <2>10. Shows(v.cfg, f)
    BY <2>5, <2>6, <2>9 DEF KnowsForm, Shows
  <2>11. v.cfg.scenario = "" /\ ~v.cfg.emit
    BY <2>9 DEF KnowsForm
  <2>12. QED
    BY <1>2, <2>8, <2>10, <2>11 DEF v
<1>3. QED
  BY <1>1, <1>2

-----------------------------------------------------------------------------
(* The boxes keep the form one they can show.                              *)

LEMMA StartForm == GoodForm(FormStart)
<1> DEFINE num == [DefaultConfig.num EXCEPT !["arrivalRate"] = 20, !["lambda"] = 50,
                                            !["arrivalInterval"] = 3]
<1>1. num \in [NumKey -> 0..SeedMost]
  <2>1. \A n \in {0, 3, 5, 6, 20, 42, 50} : n \in 0..SeedMost
    BY SeedMostIs
  <2>2. DefaultConfig.num \in [NumKey -> {0, 3, 5, 6, 42}]
    BY DEF DefaultConfig, NumKey
  <2>3. num \in [NumKey -> {0, 3, 5, 6, 20, 42, 50}]
    BY <2>2 DEF NumKey
  <2> HIDE DEF num
  <2>4. QED
    BY <2>1, <2>3
<1>2. /\ num["quantumHi"] = 3 /\ num["quantumLo"] = 6 /\ num["arrivalRate"] = 20
      /\ num["lambda"] = 50 /\ num["arrivalInterval"] = 3 /\ num["pIo"] = 0
  BY DEF DefaultConfig, NumKey
<1>3. \A n \in {5, 8, 12, 15} : n \in 1..100
  OBVIOUS
<1>4. \A m, n \in {5, 8, 12, 15} : Span(m, n) \in [min : 1..100, max : 1..100]
  BY <1>3 DEF Span
<1>5. /\ DefaultConfig.service = Span(5, 15)
      /\ DefaultConfig.duration \in [Device -> {Span(5, 5), Span(8, 8), Span(12, 12)}]
      /\ DefaultConfig.mode \in [Device -> IoMode]
  BY DEF DefaultConfig, IoMode
<1>6. /\ FormStart.num = num /\ FormStart.service = DefaultConfig.service
      /\ FormStart.duration = DefaultConfig.duration /\ FormStart.mode = DefaultConfig.mode
      /\ FormStart.arrivalMode = "batch"
      /\ FormStart.share = [d \in {"disk", "tape"} |-> IF d = "disk" THEN 34 ELSE 33]
  BY DEF FormStart
<1> DEFINE box == [min : 1..100, max : 1..100]
           share == [d \in {"disk", "tape"} |-> IF d = "disk" THEN 34 ELSE 33]
           full == 0..100
<1>7. share \in [{"disk", "tape"} -> full]
  <2>1. 34 \in full /\ 33 \in full
    OBVIOUS
  <2> HIDE DEF full
  <2>2. QED
    BY <2>1
<1>8. Span(5, 15) \in box /\ DefaultConfig.duration \in [Device -> box]
  <2>1. {Span(5, 5), Span(8, 8), Span(12, 12)} \subseteq box /\ Span(5, 15) \in box
    BY <1>4
  <2> HIDE DEF box
  <2>2. QED
    BY <1>5, <2>1
<1>9. FormStart = [num |-> num, service |-> Span(5, 15), duration |-> DefaultConfig.duration,
                   mode |-> DefaultConfig.mode, arrivalMode |-> "batch", share |-> share]
  BY <1>5 DEF FormStart
<1> DEFINE f == FormStart
<1> HIDE DEF num, box, share, full, f
<1>10. f \in [num : [NumKey -> 0..SeedMost], service : box, duration : [Device -> box],
              mode : [Device -> IoMode],
              arrivalMode : {"batch", "bernoulli", "poisson", "uniform"},
              share : [{"disk", "tape"} -> full]]
  BY <1>1, <1>5, <1>7, <1>8, <1>9 DEF f
<1>11. f \in Form
  BY <1>10 DEF Form, box, full
<1>12. f.num = num
  BY <1>6 DEF f
<1>13. QED
  BY <1>2, <1>11, <1>12 DEF GoodForm, f

\* One box of numbers.
LEMMA NumEdited ==
    ASSUME NEW g, GoodForm(g), NEW k \in NumKey, NEW n \in 0..SeedMost,
           k \in {"quantumHi", "quantumLo", "arrivalRate", "lambda", "arrivalInterval"} => n > 0,
           k = "pIo" => n <= 100
    PROVE  GoodForm([g EXCEPT !.num[k] = n])
<1> DEFINE num == [g.num EXCEPT ![k] = n]
           f == [g EXCEPT !.num[k] = n]
<1>1. g \in Form /\ g.num \in [NumKey -> 0..SeedMost]
  BY DEF GoodForm, Form
<1>2. num \in [NumKey -> 0..SeedMost]
  BY <1>1
<1>3. f = [g EXCEPT !.num = num]
  BY <1>1 DEF Form
<1>4. \A l \in {"quantumHi", "quantumLo", "arrivalRate", "lambda", "arrivalInterval"} : num[l] > 0
  BY <1>1 DEF GoodForm, NumKey
<1>5. num["pIo"] <= 100
  BY <1>1 DEF GoodForm, NumKey
<1> HIDE DEF num, f
<1>6. f \in Form /\ f.num = num
  BY <1>1, <1>2, <1>3 DEF Form
<1>7. QED
  BY <1>4, <1>5, <1>6 DEF GoodForm, f

\* A change to anything else.
LEMMA RestEdited ==
    ASSUME NEW g, GoodForm(g), NEW f \in Form, f.num = g.num
    PROVE  GoodForm(f)
BY DEF GoodForm

LEMMA FormFields ==
    ASSUME NEW g \in Form
    PROVE  /\ \A s \in [min : 1..100, max : 1..100] : [g EXCEPT !.service = s] \in Form
           /\ \A s \in [Device -> [min : 1..100, max : 1..100]] :
                  [g EXCEPT !.duration = s] \in Form
           /\ \A s \in [Device -> IoMode] : [g EXCEPT !.mode = s] \in Form
           /\ \A s \in {"batch", "bernoulli", "poisson", "uniform"} :
                  [g EXCEPT !.arrivalMode = s] \in Form
           /\ \A s \in [{"disk", "tape"} -> 0..100] : [g EXCEPT !.share = s] \in Form
<1> DEFINE box == [min : 1..100, max : 1..100]
           full == 0..100
           boxes == [Device -> box]
           nums == [NumKey -> 0..SeedMost]
           shares == [{"disk", "tape"} -> full]
           modes == [Device -> IoMode]
<1>1. Form = [num : nums, service : box, duration : boxes, mode : modes,
              arrivalMode : {"batch", "bernoulli", "poisson", "uniform"}, share : shares]
  BY Zenon DEF Form
<1> HIDE DEF box, boxes, nums, shares, modes
<1>2. \A s \in box : [g EXCEPT !.service = s] \in Form
  BY <1>1
<1>3. \A s \in boxes : [g EXCEPT !.duration = s] \in Form
  BY <1>1
<1>4. \A s \in modes : [g EXCEPT !.mode = s] \in Form
  BY <1>1
<1>5. \A s \in {"batch", "bernoulli", "poisson", "uniform"} : [g EXCEPT !.arrivalMode = s] \in Form
  BY <1>1
<1>6. \A s \in shares : [g EXCEPT !.share = s] \in Form
  BY <1>1
<1>7. QED
  BY <1>2, <1>3, <1>4, <1>5, <1>6, Zenon DEF box, boxes, shares, modes, full

LEMMA FormEdited ==
    ASSUME NEW g, GoodForm(g), NEW f \in Changed(g, 20) \cup WithArrivals(g)
    PROVE  GoodForm(f)
<1> DEFINE one == 1..100
           full == 0..100
           box == [min : one, max : one]
<1>1. /\ g \in Form /\ g.service \in box /\ g.duration \in [Device -> box]
      /\ g.mode \in [Device -> IoMode] /\ g.share \in [{"disk", "tape"} -> full]
  BY DEF GoodForm, Form
<1>2. /\ \A s \in box : [g EXCEPT !.service = s] \in Form
      /\ \A s \in [Device -> box] : [g EXCEPT !.duration = s] \in Form
      /\ \A s \in [Device -> IoMode] : [g EXCEPT !.mode = s] \in Form
      /\ \A s \in {"batch", "bernoulli", "poisson", "uniform"} :
             [g EXCEPT !.arrivalMode = s] \in Form
      /\ \A s \in [{"disk", "tape"} -> full] : [g EXCEPT !.share = s] \in Form
  BY <1>1, FormFields, Zenon
<1>3. ASSUME NEW n \in full PROVE n \in Nat /\ n <= 100 /\ n \in 0..SeedMost
  BY <1>3, SeedMostIs
<1>4. /\ \A n \in one : n \in full /\ n > 0
      /\ \A m \in one : \A n \in m..100 : n \in one
      /\ \A m \in full : \A n \in 0..(100 - m) : n \in full
  OBVIOUS
<1>5. /\ \A n \in 1..20 : n \in one
      /\ \A n \in 1..50 : n \in one
      /\ \A n \in 1..300 : n \in 0..SeedMost /\ n > 0
  BY SeedMostIs
<1> HIDE DEF one, full, box
<1>6. ASSUME NEW k \in NumKey, NEW n \in one, k # "pIo" PROVE GoodForm([g EXCEPT !.num[k] = n])
  BY <1>3, <1>4, NumEdited
<1>7. ASSUME NEW k, NEW r, f \in WithNum(g, k, r)
      PROVE  \E n \in r : f = [g EXCEPT !.num[k] = n]
  BY <1>7, Zenon DEF WithNum
<1>8. \A k \in {"processCount", "quantumHi", "quantumLo", "pIo", "seed", "arrivalRate",
               "lambda", "arrivalInterval"} : k \in NumKey
  BY DEF NumKey
<1>9. ASSUME f \in WithNum(g, "processCount", 1..20) \/ f \in WithNum(g, "quantumHi", 1..20)
             \/ f \in WithNum(g, "quantumLo", 1..20)
      PROVE  GoodForm(f)
  <2>1. PICK k \in {"processCount", "quantumHi", "quantumLo"} : f \in WithNum(g, k, 1..20)
    BY <1>9
  <2>2. PICK n \in 1..20 : f = [g EXCEPT !.num[k] = n]
    BY <1>7, <2>1, Zenon
  <2>3. k \in NumKey /\ k # "pIo" /\ n \in one
    BY <1>5, <1>8
  <2>4. QED
    BY <1>6, <2>2, <2>3
<1>10. ASSUME f \in WithNum(g, "pIo", 0..100) PROVE GoodForm(f)
  <2>1. PICK n \in full : f = [g EXCEPT !.num["pIo"] = n]
    BY <1>7, <1>10, Zenon DEF full
  <2>2. n \in 0..SeedMost /\ n <= 100
    BY <1>3
  <2>3. QED
    BY <1>8, <2>1, <2>2, NumEdited
<1>11. ASSUME f \in WithNum(g, "seed", 0..SeedMost) PROVE GoodForm(f)
  <2>1. PICK n \in 0..SeedMost : f = [g EXCEPT !.num["seed"] = n]
    BY <1>7, <1>11, Zenon
  <2>2. QED
    BY <1>8, <2>1, NumEdited
<1>12. ASSUME f \in WithNum(g, "arrivalRate", 1..100) PROVE GoodForm(f)
  <2>1. PICK n \in one : f = [g EXCEPT !.num["arrivalRate"] = n]
    BY <1>7, <1>12, Zenon DEF one
  <2>2. QED
    BY <1>6, <1>8, <2>1
<1>13. ASSUME f \in WithNum(g, "lambda", 1..300) PROVE GoodForm(f)
  <2>1. PICK n \in 1..300 : f = [g EXCEPT !.num["lambda"] = n]
    BY <1>7, <1>13, Zenon
  <2>2. n \in 0..SeedMost /\ n > 0
    BY <1>5, Zenon
  <2>3. QED
    BY <1>8, <2>1, <2>2, NumEdited
<1>14. ASSUME f \in WithNum(g, "arrivalInterval", 1..50) PROVE GoodForm(f)
  <2>1. PICK n \in 1..50 : f = [g EXCEPT !.num["arrivalInterval"] = n]
    BY <1>7, <1>14, Zenon
  <2>2. n \in one
    BY <1>5, Zenon
  <2>3. QED
    BY <1>6, <1>8, <2>1, <2>2
<1>15. ASSUME NEW s \in box, NEW n \in one
       PROVE  [s EXCEPT !.min = n] \in box /\ [s EXCEPT !.max = n] \in box
  BY DEF box
<1>16. /\ g = [num |-> g.num, service |-> g.service, duration |-> g.duration, mode |-> g.mode,
               arrivalMode |-> g.arrivalMode, share |-> g.share]
       /\ DOMAIN g.duration = Device
  BY <1>1 DEF Form
<1>17. ASSUME NEW s \in box, f = [g EXCEPT !.service = s] PROVE GoodForm(f)
  <2>1. f \in Form /\ f.num = g.num
    BY <1>2, <1>16, <1>17
  <2>2. QED
    BY <2>1, RestEdited
<1>18. ASSUME NEW s \in [Device -> box], f = [g EXCEPT !.duration = s] PROVE GoodForm(f)
  <2>1. f \in Form /\ f.num = g.num
    BY <1>2, <1>16, <1>18
  <2>2. QED
    BY <2>1, RestEdited
<1>19. ASSUME f \in WithSpans(g) PROVE GoodForm(f)
  <2>1. \/ \E n \in one : f = [g EXCEPT !.service.min = n]
        \/ \E n \in g.service.min..100 : f = [g EXCEPT !.service.max = n]
        \/ \E d \in Device : \E n \in one : f = [g EXCEPT !.duration[d].min = n]
        \/ \E d \in Device : \E n \in g.duration[d].min..100 :
                f = [g EXCEPT !.duration[d].max = n]
    <3>1. \/ \E n \in one : f = [g EXCEPT !.service.min = n]
          \/ \E n \in g.service.min..100 : f = [g EXCEPT !.service.max = n]
          \/ \E d \in Device : f \in WithDuration(g, d)
      BY <1>19, Zenon DEF WithSpans, one
    <3>2. ASSUME NEW d \in Device, f \in WithDuration(g, d)
          PROVE  \/ \E n \in one : f = [g EXCEPT !.duration[d].min = n]
                 \/ \E n \in g.duration[d].min..100 : f = [g EXCEPT !.duration[d].max = n]
      BY <3>2, Zenon DEF WithDuration, one
    <3>3. QED
      BY <3>1, <3>2, Zenon
  <2>2. g.service.min \in one /\ \A d \in Device : g.duration[d].min \in one
    BY <1>1 DEF box
  <2>3. CASE \E n \in one : \/ f = [g EXCEPT !.service.min = n]
                            \/ f = [g EXCEPT !.service.max = n]
    <3>1. PICK n \in one : \/ f = [g EXCEPT !.service.min = n]
                           \/ f = [g EXCEPT !.service.max = n]
      BY <2>3
    <3>2. \/ f = [g EXCEPT !.service = [g.service EXCEPT !.min = n]]
          \/ f = [g EXCEPT !.service = [g.service EXCEPT !.max = n]]
      BY <1>16, <3>1
    <3>3. QED
      BY <1>1, <1>15, <1>17, <3>2
  <2>4. CASE \E d \in Device : \E n \in one : \/ f = [g EXCEPT !.duration[d].min = n]
                                             \/ f = [g EXCEPT !.duration[d].max = n]
    <3>1. PICK d \in Device, n \in one : \/ f = [g EXCEPT !.duration[d].min = n]
                                        \/ f = [g EXCEPT !.duration[d].max = n]
      BY <2>4
    <3> DEFINE low == [g.duration EXCEPT ![d] = [g.duration[d] EXCEPT !.min = n]]
               high == [g.duration EXCEPT ![d] = [g.duration[d] EXCEPT !.max = n]]
    <3>2. f = [g EXCEPT !.duration = low] \/ f = [g EXCEPT !.duration = high]
      BY <1>16, <3>1
    <3>3. low \in [Device -> box] /\ high \in [Device -> box]
      BY <1>1, <1>15
    <3> HIDE DEF low, high
    <3>4. QED
      BY <1>18, <3>2, <3>3
  <2>5. QED
    BY <1>4, <2>1, <2>2, <2>3, <2>4
<1>20. ASSUME f \in WithModes(g) PROVE GoodForm(f)
  <2>1. PICK d \in Device, m \in IoMode : f = [g EXCEPT !.mode[d] = m]
    BY <1>20 DEF WithModes
  <2> DEFINE s == [g.mode EXCEPT ![d] = m]
  <2>2. f = [g EXCEPT !.mode = s]
    BY <1>16, <2>1
  <2>3. s \in [Device -> IoMode]
    BY <1>1
  <2> HIDE DEF s
  <2>4. f \in Form /\ f.num = g.num
    BY <1>2, <1>16, <2>2, <2>3
  <2>5. QED
    BY <2>4, RestEdited
<1>21. ASSUME f \in WithShares(g) PROVE GoodForm(f)
  <2>1. PICK d \in {"disk", "tape"}, n \in full : f = [g EXCEPT !.share[d] = n]
    <3>1. g.share["disk"] \in full
      BY <1>1
    <3>2. \/ \E n \in full : f = [g EXCEPT !.share["disk"] = n]
          \/ \E n \in 0..(100 - g.share["disk"]) : f = [g EXCEPT !.share["tape"] = n]
      BY <1>21 DEF WithShares, full
    <3>3. QED
      BY <1>4, <3>1, <3>2
  <2> DEFINE s == [g.share EXCEPT ![d] = n]
  <2>2. f = [g EXCEPT !.share = s]
    BY <1>16, <2>1
  <2>3. s \in [{"disk", "tape"} -> full]
    BY <1>1
  <2> HIDE DEF s
  <2>4. f \in Form /\ f.num = g.num
    BY <1>2, <1>16, <2>2, <2>3
  <2>5. QED
    BY <2>4, RestEdited
<1>22. ASSUME NEW m \in {"batch", "bernoulli", "poisson", "uniform"},
              f = [g EXCEPT !.arrivalMode = m]
       PROVE  GoodForm(f)
  <2>1. f \in Form /\ f.num = g.num
    BY <1>2, <1>16, <1>22
  <2>2. QED
    BY <2>1, RestEdited
<1>23. ASSUME f \in WithArrivals(g) PROVE GoodForm(f)
  <2>1. \/ \E m \in {"batch", "bernoulli", "poisson", "uniform"} :
              f = [g EXCEPT !.arrivalMode = m]
        \/ f \in WithNum(g, "arrivalRate", 1..100)
        \/ f \in WithNum(g, "lambda", 1..300)
        \/ f \in WithNum(g, "arrivalInterval", 1..50)
    BY <1>23, ZenonT(60) DEF WithArrivals
  <2>2. QED
    BY <1>12, <1>13, <1>14, <1>22, <2>1, Zenon
<1>24. ASSUME f \in Changed(g, 20) PROVE GoodForm(f)
  <2>1. \/ f \in WithNum(g, "processCount", 1..20) \/ f \in WithNum(g, "quantumHi", 1..20)
        \/ f \in WithNum(g, "quantumLo", 1..20) \/ f \in WithNum(g, "pIo", 0..100)
        \/ f \in WithNum(g, "seed", 0..SeedMost)
        \/ f \in WithSpans(g) \/ f \in WithModes(g) \/ f \in WithShares(g)
    BY <1>24, Zenon DEF Changed
  <2>2. QED
    BY <1>9, <1>10, <1>11, <1>19, <1>20, <1>21, <2>1, Zenon
<1>25. QED
  BY <1>23, <1>24

-----------------------------------------------------------------------------
(* The invariant holds throughout.                                         *)

\* What picking a file leaves of the overlay.
LEMMA ScenarioPicked ==
    ASSUME OverlayOk(overlay), NEW path, NEW fs
    PROVE  OverlayOk(WithScenario(path, fs))
BY DEF OverlayOk, WithScenario

LEMMA FormPut ==
    ASSUME OverlayOk(overlay), NEW f, GoodForm(f)
    PROVE  OverlayOk([overlay EXCEPT !.form = f])
BY DEF OverlayOk

LEMMA InitForm == ASSUME ScreenInit PROVE FormInv
<1>1. /\ overlay = [mode |-> "random", form |-> FormStart, path |-> "", summaryOk |-> FALSE]
      /\ lastParams = NoParams
  BY DEF ScreenInit, NoUser
<1>2. DOMAIN overlay = {"mode", "form", "path", "summaryOk"} /\ overlay.form = FormStart
  BY <1>1
<1>3. QED
  BY <1>1, <1>2, StartForm DEF FormInv, OverlayOk

LEMMA FormInvImplies == ASSUME FormInv PROVE FormIsRun
<1>1. ASSUME lastParams.mode = "random" PROVE LaunchedForm(lastParams.form)
  BY <1>1 DEF FormInv, NoParams
<1>2. QED
  BY <1>1 DEF FormIsRun, LaunchedForm, Settled

\* A step of the program.
LEMMA ProgramKeepsForm ==
    ASSUME SeedMost < IntHalf, NEW f, LaunchedForm(f), [Program]_startVars
    PROVE  LaunchedForm(f)'
<1>1. GoodForm(f)
  BY DEF LaunchedForm
<1>2. CASE TakeOption
  <2>1. phase = "parsing" /\ phase' = "parsing"
    BY <1>2 DEF TakeOption
  <2>2. OnItsWay(f)'
    BY <1>1, <1>2, <2>1, FormOptionTaken DEF LaunchedForm
  <2>3. QED
    BY <1>1, <2>1, <2>2 DEF LaunchedForm
<1>3. CASE Refused
  BY <1>3 DEF Refused, LaunchedForm, OnItsWay
<1>4. CASE OptionsTaken
  <2>1. /\ phase = "parsing" /\ argv = <<>> /\ ps.error = 0 /\ ps' = Validate(ps)
        /\ phase' = IF ps'.error = 0 THEN "configured" ELSE "usage"
    BY <1>4 DEF OptionsTaken
  <2>2. OnItsWay(f) /\ ps \in ParserState
    BY <2>1 DEF LaunchedForm, OnItsWay
  <2>3. KnowsForm(ps, f)
    BY <1>1, <2>1, <2>2, FormKnown
  <2>4. IF SpansFit(f) /\ SharesFitForm(f)
        THEN ps'.error = 0 /\ Shows(ps'.cfg, f) /\ ps'.cfg.scenario = "" /\ ~ps'.cfg.emit
        ELSE ps'.error # 0
    BY <1>1, <2>1, <2>2, <2>3, FormValidated
  <2>5. QED
    BY <1>1, <2>1, <2>4 DEF LaunchedForm
<1>5. CASE Configure
  <2>1. phase = "configured" /\ Shows(ps.cfg, f) /\ ps.cfg.scenario = "" /\ ~ps.cfg.emit
    BY <1>5 DEF Configure, LaunchedForm
  <2> DEFINE sc == Parsed(TRUE, ps.cfg, <<>>)
  <2>2. sc.ok /\ sc.cfg = ps.cfg
    BY DEF Parsed
  <2>3. /\ job' = [cfg |-> sc.cfg, procs |-> sc.procs]
        /\ phase' \in {"spawning"} \cup (IF sc.cfg.emit THEN {"failed"} ELSE {})
    BY <1>5, <2>1, <2>2 DEF Configure
  <2> HIDE DEF sc
  <2>4. job'.cfg = ps.cfg /\ phase' = "spawning"
    BY <2>1, <2>2, <2>3
  <2>5. QED
    BY <1>1, <2>1, <2>4 DEF LaunchedForm
<1>6. CASE SpawnSome \/ Run
  <2>1. phase = "spawning" /\ phase' \in {"spawning", "running"} /\ job' = job
    BY <1>6 DEF SpawnSome, Run
  <2>2. QED
    BY <1>1, <2>1 DEF LaunchedForm
<1>7. CASE UNCHANGED startVars
  <2>1. argv' = argv /\ ps' = ps /\ phase' = phase /\ job' = job
    BY <1>7 DEF startVars, progVars
  <2>2. OnItsWay(f)' = OnItsWay(f)
    BY <2>1 DEF OnItsWay
  <2>3. QED
    BY <1>1, <2>1, <2>2 DEF LaunchedForm
<1>8. QED
  BY <1>2, <1>3, <1>4, <1>5, <1>6, <1>7 DEF Program

\* A step of the user that does not launch anything.
LEMMA UserKeepsForm ==
    ASSUME FormInv, OverlayOk(overlay'), lastParams' = lastParams,
           UNCHANGED <<argv, ps, phase, job>>
    PROVE  FormInv'
<1>1. \A f : LaunchedForm(f)' = LaunchedForm(f)
  BY DEF LaunchedForm, OnItsWay
<1>2. QED
  BY <1>1 DEF FormInv

LEMMA StepForm ==
    ASSUME SeedMost < IntHalf, FormInv, [ScreenNext]_screenVars
    PROVE  FormInv'
<1>1. OverlayOk(overlay)
  BY DEF FormInv
<1> DEFINE still == lastParams' = lastParams /\ UNCHANGED <<argv, ps, phase, job>>
<1>2. CASE Program /\ UNCHANGED userVars
  <2>1. overlay' = overlay /\ lastParams' = lastParams
    BY <1>2 DEF userVars
  <2>2. ASSUME NEW f, LaunchedForm(f) PROVE LaunchedForm(f)'
    BY <1>2, <2>2, ProgramKeepsForm
  <2>3. QED
    BY <1>1, <2>1, <2>2 DEF FormInv
<1>3. CASE EditOverlay
  <2>1. still
    BY <1>3 DEF EditOverlay, startVars, progVars
  <2>2. PICK f \in Changed(overlay.form, 20) \cup WithArrivals(overlay.form) :
            overlay' = [overlay EXCEPT !.form = f]
    BY <1>3 DEF EditOverlay
  <2>3. GoodForm(f)
    BY <1>1, <2>2, FormEdited DEF OverlayOk
  <2>4. OverlayOk(overlay')
    BY <1>1, <2>2, <2>3, FormPut
  <2>5. QED
    BY <2>1, <2>4, UserKeepsForm
<1>4. CASE SelectMode
  <2>1. still
    BY <1>4 DEF SelectMode, startVars, progVars
  <2>2. OverlayOk([overlay EXCEPT !.mode = "random"])
    BY <1>1 DEF OverlayOk
  <2>3. OverlayOk(overlay')
    BY <1>1, <1>4, <2>2, ScenarioPicked DEF SelectMode
  <2>4. QED
    BY <2>1, <2>3, UserKeepsForm
<1>5. CASE Browse
  <2>1. still
    BY <1>5 DEF Browse, startVars, progVars
  <2>2. OverlayOk(overlay')
    BY <1>1, <1>5, ScenarioPicked DEF Browse
  <2>3. QED
    BY <2>1, <2>2, UserKeepsForm
<1>6. CASE Launch
  <2>1. lastParams' = Params /\ overlay' = Applied(Params) /\ Start(BuildArgs(Params))
    BY <1>6 DEF Launch
  <2>2. CASE overlay.mode = "scenario"
    <3>1. Params.mode = "scenario"
      BY <2>2 DEF Params
    <3>2. overlay' = WithScenario(Params.path, files)
      BY <2>1, <3>1 DEF Applied
    <3>3. OverlayOk(overlay')
      BY <1>1, <3>2, ScenarioPicked
    <3>4. QED
      BY <2>1, <3>1, <3>3 DEF FormInv
  <2>3. CASE overlay.mode # "scenario"
    <3>1. PICK f : f = overlay.form
      OBVIOUS
    <3>2. Params = [mode |-> "random", form |-> f]
      BY <2>3, <3>1 DEF Params
    <3>3. GoodForm(f)
      BY <1>1, <3>1 DEF OverlayOk
    <3>4. OnItsWay(f)'
      BY <2>1, <3>2, <3>3, LaunchedOnItsWay
    <3>5. phase' = "parsing"
      BY <2>1 DEF Start
    <3>6. LaunchedForm(f)'
      BY <3>3, <3>4, <3>5 DEF LaunchedForm
    <3>7. overlay' = [overlay EXCEPT !.mode = "random", !.form = f]
      BY <2>1, <3>2 DEF Applied
    <3>8. OverlayOk(overlay')
      BY <1>1, <3>3, <3>7 DEF OverlayOk
    <3>9. lastParams'.mode = "random" /\ lastParams'.form = f
      BY <2>1, <3>2
    <3>10. QED
      BY <3>6, <3>8, <3>9 DEF FormInv
  <2>4. QED
    BY <2>2, <2>3
<1>7. CASE ShowAgain
  <2>1. /\ phase' = "idle" /\ overlay' = Applied(lastParams) /\ lastParams # NoParams
        /\ lastParams' = lastParams
    BY <1>7 DEF ShowAgain
  <2>2. CASE lastParams.mode = "scenario"
    <3>1. OverlayOk(overlay')
      BY <1>1, <2>1, <2>2, ScenarioPicked DEF Applied
    <3>2. QED
      BY <2>1, <2>2, <3>1 DEF FormInv
  <2>3. CASE lastParams.mode = "random" /\ LaunchedForm(lastParams.form)
    <3>1. GoodForm(lastParams.form)
      BY <2>3 DEF LaunchedForm
    <3>2. overlay' = [overlay EXCEPT !.mode = "random", !.form = lastParams.form]
      BY <2>1, <2>3 DEF Applied
    <3>3. OverlayOk(overlay')
      BY <1>1, <3>1, <3>2 DEF OverlayOk
    <3>4. \A f : GoodForm(f) => LaunchedForm(f)'
      BY <2>1 DEF LaunchedForm
    <3>5. QED
      BY <2>1, <2>3, <3>1, <3>3, <3>4 DEF FormInv
  <2>4. QED
    BY <2>1, <2>2, <2>3 DEF FormInv
<1>8. ASSUME NEW path, NEW use, SaveTo(path, use) PROVE FormInv'
  <2>1. still
    BY <1>8 DEF SaveTo, progVars
  <2>2. overlay' = WithScenario(path, files') \/ overlay' = overlay
    BY <1>8 DEF SaveTo
  <2>3. OverlayOk(overlay')
    BY <1>1, <2>2, ScenarioPicked
  <2>4. QED
    BY <2>1, <2>3, UserKeepsForm
<1>9. CASE OpenEditor \/ Scroll \/ EditEditor \/ SaveAs \/ DialogEnds \/ CloseEditor
  <2>1. still /\ overlay' = overlay
    BY <1>9 DEF OpenEditor, Scroll, EditEditor, SaveAs, DialogEnds, CloseEditor,
                startVars, progVars
  <2>2. QED
    BY <1>1, <2>1, UserKeepsForm
<1>10. CASE SaveAndUse
  <2>1. CASE editor.path # ""
    BY <1>8, <1>10, <2>1 DEF SaveAndUse
  <2>2. CASE editor.path = ""
    <3>1. still /\ overlay' = overlay
      BY <1>10, <2>2 DEF SaveAndUse, startVars, progVars
    <3>2. QED
      BY <1>1, <3>1, UserKeepsForm
  <2>3. QED
    BY <2>1, <2>2
<1>11. CASE DialogAccepted
  BY <1>8, <1>11 DEF DialogAccepted
<1>12. CASE UNCHANGED screenVars
  <2>1. still /\ overlay' = overlay
    BY <1>12 DEF screenVars, startVars, progVars, userVars
  <2>2. QED
    BY <1>1, <2>1, UserKeepsForm
<1>13. QED
  BY <1>2, <1>3, <1>4, <1>5, <1>6, <1>7, <1>9, <1>10, <1>11, <1>12 DEF ScreenNext, User

\* Whatever the user makes of the form, edits and launches however often, the
\* program runs what the form says, and refuses it only if a range is upside
\* down or disk and tape exceed 100.  (An int of the program holds every seed
\* of the box.)
THEOREM FormRunsAsShown == ASSUME SeedMost < IntHalf PROVE ScreenSpec => []FormIsRun
<1>1. ScreenInit => FormInv
  BY InitForm
<1>2. FormInv /\ [ScreenNext]_screenVars => FormInv'
  BY StepForm
<1>3. FormInv => FormIsRun
  BY FormInvImplies
<1>4. QED
  BY <1>1, <1>2, <1>3, PTL DEF ScreenSpec

-----------------------------------------------------------------------------
(* Whether the parser accepts a file, and what it makes of its processes,  *)
(* does not depend on the configuration the file is read on top of.        *)

SameProcesses(a, b) == a.ok = b.ok /\ a.procs = b.procs

LEMMA LineSameProcesses ==
    ASSUME NEW a \in Scenario, NEW b \in Scenario, SameProcesses(a, b), NEW ln, LegibleLine(ln)
    PROVE  SameProcesses(ApplyLine(a, ln), ApplyLine(b, ln))
<1>1. Reject(a).procs = a.procs /\ ~Reject(a).ok /\ Reject(b).procs = b.procs /\ ~Reject(b).ok
      /\ Reject(a).ok = FALSE /\ Reject(b).ok = FALSE
  BY DEF Reject, Scenario
<1>2. a.procs = b.procs /\ a.ok = b.ok
  BY DEF SameProcesses
<1>3. \A c : /\ [a EXCEPT !.cfg = c].ok = a.ok /\ [a EXCEPT !.cfg = c].procs = a.procs
             /\ [b EXCEPT !.cfg = c].ok = b.ok /\ [b EXCEPT !.cfg = c].procs = b.procs
  BY DEF Scenario
<1>4. \A q : /\ [a EXCEPT !.procs = q].ok = a.ok /\ [a EXCEPT !.procs = q].procs = q
             /\ [b EXCEPT !.procs = q].ok = b.ok /\ [b EXCEPT !.procs = q].procs = q
  BY DEF Scenario
<1>5. ASSUME NEW s \in {a, b}
      PROVE  /\ ApplyGlobal(s, ln).procs = s.procs
             /\ ApplyGlobal(s, ln).ok =
                  IF \/ ln.opt = "int" /\ ln.key \in FileKey /\ Strict(ln.text)
                     \/ ln.opt = "share" /\ Strict(ln.text)
                     \/ ln.opt = "duration" /\ DurationOk(ln.text)
                     \/ ln.opt = "service" /\ DurationOk(ln.text)
                     \/ ln.opt = "mode" /\ ln.text.word \in IoMode
                  THEN s.ok ELSE FALSE
  <2> DEFINE r == ApplyGlobal(s, ln)
             t == ln.text
  <2>1. \A c : r = [s EXCEPT !.cfg = c] => r.ok = s.ok /\ r.procs = s.procs
    BY <1>3
  <2>2. CASE ln.opt = "int" /\ ln.key \in FileKey /\ Strict(t)
    <3>1. r = [s EXCEPT !.cfg = [s.cfg EXCEPT !.num[ln.key] = AsInt(t.lo)]]
      BY <2>2 DEF ApplyGlobal
    <3>2. QED
      BY <2>1, <2>2, <3>1
  <2>3. CASE ln.opt = "share" /\ Strict(t)
    <3>1. r = [s EXCEPT !.cfg = [s.cfg EXCEPT !.share[ln.key] = AsInt(t.lo)]]
      BY <2>3 DEF ApplyGlobal
    <3>2. QED
      BY <2>1, <2>3, <3>1
  <2>4. CASE ln.opt = "duration" /\ DurationOk(t)
    <3>1. r = [s EXCEPT !.cfg = [s.cfg EXCEPT !.duration[ln.key] = RangeToDuration(t)]]
      BY <2>4 DEF ApplyGlobal
    <3>2. QED
      BY <2>1, <2>4, <3>1
  <2>5. CASE ln.opt = "service" /\ DurationOk(t)
    <3>1. r = [s EXCEPT !.cfg = [s.cfg EXCEPT !.service = RangeToDuration(t)]]
      BY <2>5 DEF ApplyGlobal
    <3>2. QED
      BY <2>1, <2>5, <3>1
  <2>6. CASE ln.opt = "mode" /\ t.word \in IoMode
    <3>1. r = [s EXCEPT !.cfg = [s.cfg EXCEPT !.mode[ln.key] = t.word]]
      BY <2>6 DEF ApplyGlobal
    <3>2. QED
      BY <2>1, <2>6, <3>1
  <2>7. CASE ~ \/ ln.opt = "int" /\ ln.key \in FileKey /\ Strict(t)
               \/ ln.opt = "share" /\ Strict(t)
               \/ ln.opt = "duration" /\ DurationOk(t)
               \/ ln.opt = "service" /\ DurationOk(t)
               \/ ln.opt = "mode" /\ t.word \in IoMode
    <3>1. r = Reject(s)
      BY <2>7 DEF ApplyGlobal
    <3> HIDE DEF r
    <3>2. QED
      BY <1>1, <2>7, <3>1 DEF r
  <2> HIDE DEF r
  <2>8. QED
    BY <2>2, <2>3, <2>4, <2>5, <2>6, <2>7 DEF r
<1>6. SameProcesses(ApplyGlobal(a, ln), ApplyGlobal(b, ln))
  BY <1>2, <1>5 DEF SameProcesses
<1>7. SameProcesses(ApplyProcess(a, ln), ApplyProcess(b, ln))
  <2> DEFINE i == Len(a.procs)
             more == [j \in DOMAIN ln.events |-> ParseIoEvent(ln.events[j])]
             p == a.procs
  <2>1. CASE ln.opt = "arrival" /\ Strict(ln.text)
    <3> DEFINE q == [p EXCEPT ![i].arrival = AsInt(ln.text.lo)]
    <3>1. ApplyProcess(a, ln) = [a EXCEPT !.procs = q] /\ ApplyProcess(b, ln) = [b EXCEPT !.procs = q]
      BY <1>2, <2>1 DEF ApplyProcess
    <3> HIDE DEF q
    <3>2. QED
      BY <1>2, <1>4, <3>1 DEF SameProcesses
  <2>2. CASE ln.opt = "burst" /\ Strict(ln.text)
    <3> DEFINE q == [p EXCEPT ![i].burst = AsInt(ln.text.lo)]
    <3>1. ApplyProcess(a, ln) = [a EXCEPT !.procs = q] /\ ApplyProcess(b, ln) = [b EXCEPT !.procs = q]
      BY <1>2, <2>2 DEF ApplyProcess
    <3> HIDE DEF q
    <3>2. QED
      BY <1>2, <1>4, <3>1 DEF SameProcesses
  <2>3. CASE ln.opt = "io" /\ \A j \in DOMAIN ln.events : EventOk(ln.events[j])
    <3> DEFINE q == [p EXCEPT ![i].script = @ \o more]
    <3>1. ApplyProcess(a, ln) = [a EXCEPT !.procs = q] /\ ApplyProcess(b, ln) = [b EXCEPT !.procs = q]
      BY <1>2, <2>3 DEF ApplyProcess
    <3> HIDE DEF q
    <3>2. QED
      BY <1>2, <1>4, <3>1 DEF SameProcesses
  <2>4. CASE ~ \/ ln.opt = "arrival" /\ Strict(ln.text)
               \/ ln.opt = "burst" /\ Strict(ln.text)
               \/ ln.opt = "io" /\ \A j \in DOMAIN ln.events : EventOk(ln.events[j])
    <3>1. ApplyProcess(a, ln) = Reject(a) /\ ApplyProcess(b, ln) = Reject(b)
      BY <2>4 DEF ApplyProcess
    <3>2. QED
      BY <1>1, <1>2, <3>1 DEF SameProcesses
  <2>5. QED
    BY <2>1, <2>2, <2>3, <2>4
<1>8. CASE ln.opt = "[process]"
  <2> DEFINE q == Append(a.procs, [arrival |-> 0, burst |-> 0, script |-> <<>>])
  <2>1. ApplyLine(a, ln) = [a EXCEPT !.procs = q] /\ ApplyLine(b, ln) = [b EXCEPT !.procs = q]
    BY <1>2, <1>8 DEF ApplyLine
  <2> HIDE DEF q
  <2>2. QED
    BY <1>2, <1>4, <2>1 DEF SameProcesses
<1>9. CASE ln.opt # "[process]"
  BY <1>2, <1>6, <1>7, <1>9 DEF ApplyLine
<1>10. QED
  BY <1>8, <1>9

LEMMA ParseSameProcesses ==
    ASSUME NEW lines, LegibleLines(lines), NEW c \in SimConfig, NEW d \in SimConfig
    PROVE  SameProcesses(ParseLines(lines, c), ParseLines(lines, d))
<1> DEFINE n == Len(lines)
<1>1. n \in Nat /\ \A k \in 1..n : LegibleLine(lines[n - k + 1])
  BY DEF LegibleLines
<1>2. PICK f : Parses(f, lines) /\ ParseLines(lines, c) = f[n][Parsed(TRUE, c, <<>>)]
  BY <1>1, ParseRecursion
<1>3. PICK g : Parses(g, lines) /\ ParseLines(lines, d) = g[n][Parsed(TRUE, d, <<>>)]
  BY <1>1, ParseRecursion
<1>4. ASSUME NEW k \in 0..n, NEW sc \in Scenario
      PROVE  /\ f[k][sc] = IF ~sc.ok THEN sc
                           ELSE IF k = 0 THEN Validated(sc)
                           ELSE f[k - 1][ApplyLine(sc, lines[n - k + 1])]
             /\ g[k][sc] = IF ~sc.ok THEN sc
                           ELSE IF k = 0 THEN Validated(sc)
                           ELSE g[k - 1][ApplyLine(sc, lines[n - k + 1])]
  BY <1>2, <1>3 DEF Parses
<1>5. ASSUME NEW a \in Scenario, NEW b \in Scenario, SameProcesses(a, b)
      PROVE  SameProcesses(Validated(a), Validated(b))
  <2>1. Reject(a).procs = a.procs /\ Reject(a).ok = FALSE /\ Reject(b).procs = b.procs /\ Reject(b).ok = FALSE
    BY DEF Reject, Scenario
  <2>2. QED
    BY <1>5, <2>1 DEF Validated, SameProcesses
<1> DEFINE K == {k \in Nat : k <= n => \A a, b \in Scenario :
                     SameProcesses(a, b) => SameProcesses(f[k][a], g[k][b])}
<1> HIDE DEF n
<1>6. 0 \in K
  <2> SUFFICES ASSUME NEW a \in Scenario, NEW b \in Scenario, SameProcesses(a, b)
               PROVE  SameProcesses(f[0][a], g[0][b])
    OBVIOUS
  <2>1. f[0][a] = (IF ~a.ok THEN a ELSE Validated(a)) /\ g[0][b] = (IF ~b.ok THEN b ELSE Validated(b))
    BY <1>1, <1>4
  <2>2. a.ok = b.ok
    BY DEF SameProcesses
  <2>3. QED
    BY <1>5, <2>1, <2>2
<1>7. ASSUME NEW k \in K PROVE k + 1 \in K
  <2> SUFFICES ASSUME k + 1 <= n, NEW a \in Scenario, NEW b \in Scenario, SameProcesses(a, b)
               PROVE  SameProcesses(f[k + 1][a], g[k + 1][b])
    OBVIOUS
  <2>1. k \in Nat /\ k <= n /\ k + 1 \in 1..n /\ (k + 1) - 1 = k /\ k + 1 # 0 /\ k + 1 \in 0..n
    BY <1>1
  <2> DEFINE ln == lines[n - (k + 1) + 1]
  <2>2. f[k + 1][a] = (IF ~a.ok THEN a ELSE f[k][ApplyLine(a, ln)])
    BY <1>4, <2>1
  <2>3. g[k + 1][b] = (IF ~b.ok THEN b ELSE g[k][ApplyLine(b, ln)])
    BY <1>4, <2>1
  <2>4. LegibleLine(ln)
    BY <1>1, <2>1
  <2> HIDE DEF ln
  <2>5. ApplyLine(a, ln) \in Scenario /\ ApplyLine(b, ln) \in Scenario
    BY <2>4, LineType
  <2>6. SameProcesses(ApplyLine(a, ln), ApplyLine(b, ln))
    BY <2>4, LineSameProcesses
  <2>7. SameProcesses(f[k][ApplyLine(a, ln)], g[k][ApplyLine(b, ln)])
    BY <2>1, <2>5, <2>6
  <2>8. a.ok = b.ok
    BY DEF SameProcesses
  <2>9. QED
    BY <2>2, <2>3, <2>7, <2>8
<1>8. ASSUME NEW a \in Scenario, NEW b \in Scenario, SameProcesses(a, b)
      PROVE  SameProcesses(f[n][a], g[n][b])
  <2> HIDE DEF K
  <2>1. K \subseteq Nat
    BY DEF K
  <2>2. K = Nat
    BY <1>6, <1>7, <2>1, SetInduction
  <2>3. n \in K
    BY <1>1, <2>2
  <2>4. QED
    BY <1>1, <1>8, <2>3 DEF K
<1>9. /\ Parsed(TRUE, c, <<>>) \in Scenario /\ Parsed(TRUE, d, <<>>) \in Scenario
      /\ SameProcesses(Parsed(TRUE, c, <<>>), Parsed(TRUE, d, <<>>))
  BY DEF Parsed, Scenario, SameProcesses
<1>10. QED
  BY <1>2, <1>3, <1>8, <1>9 DEF n

-----------------------------------------------------------------------------
(* What FlattenSeq returns: it concatenates from the left.                 *)

Concatenates(f, seqs) ==
    \A i \in 1..Len(seqs) : f[i] = IF i = 1 THEN seqs[i] ELSE f[i - 1] \o seqs[i]

LEMMA FlattenRecursion ==
    ASSUME NEW seqs, Len(seqs) \in Nat, Len(seqs) # 0
    PROVE  \E f : Concatenates(f, seqs) /\ FlattenSeq(seqs) = f[Len(seqs)]
<1> DEFINE n == Len(seqs)
           Body(g, i) == IF i = 1 THEN seqs[i] ELSE g \o seqs[i]
           Loop(a, m) == a = [i \in 1..m |-> Body(a[i - 1], i)]
           T == {m \in Nat : \E a : Loop(a, m)}
<1>1. FlattenSeq(seqs) = (CHOOSE a : Loop(a, n))[n]
  BY DEF FlattenSeq
<1>2. \A g, h : Body(g, 1) = Body(h, 1)
  OBVIOUS
<1> HIDE DEF Body, n
<1>3. 0 \in T
  <2> DEFINE a == [i \in 1..0 |-> i]
  <2>1. a = [i \in 1..0 |-> Body(a[i - 1], i)]
    OBVIOUS
  <2>2. Loop(a, 0)
    BY <2>1
  <2>3. QED
    BY <2>2
<1>4. ASSUME NEW m \in T PROVE m + 1 \in T
  <2>1. PICK a : Loop(a, m)
    OBVIOUS
  <2>2. \A k \in 1..m : a[k] = Body(a[k - 1], k)
    BY <2>1
  <2> DEFINE b == [k \in 1..(m + 1) |-> IF k = m + 1 THEN Body(a[m], m + 1) ELSE a[k]]
  <2>3. ASSUME NEW k \in 1..(m + 1) PROVE b[k] = Body(b[k - 1], k)
    <3>1. CASE k = 1 /\ m # 0
      <4>1. b[1] = Body(a[1 - 1], 1)
        BY <2>2, <3>1
      <4> HIDE DEF b
      <4>2. QED
        BY <1>2, <3>1, <4>1
    <3>2. CASE k \in 2..m
      <4>1. b[k] = a[k] /\ b[k - 1] = a[k - 1]
        BY <3>2
      <4>2. QED
        BY <2>2, <3>2, <4>1
    <3>3. CASE k = m + 1 /\ m # 0
      <4>1. b[k] = Body(a[m], m + 1) /\ b[k - 1] = a[m]
        BY <3>3
      <4>2. QED
        BY <3>3, <4>1
    <3>4. CASE m = 0
      <4>1. k = 1 /\ b[1] = Body(a[0], 1)
        BY <3>4
      <4> HIDE DEF b
      <4>2. QED
        BY <1>2, <4>1
    <3>5. QED
      BY <3>1, <3>2, <3>3, <3>4
  <2>4. Loop(b, m + 1)
    BY <2>3
  <2> HIDE DEF Loop, b
  <2>5. QED
    BY <2>4
<1>5. n \in T
  <2> HIDE DEF T
  <2>1. T \subseteq Nat
    BY DEF T
  <2>2. QED
    BY <1>3, <1>4, <2>1, SetInduction DEF n
<1> DEFINE f == CHOOSE a : Loop(a, n)
<1>6. Loop(f, n)
  <2>1. \E a : Loop(a, n)
    BY <1>5
  <2> HIDE DEF Loop
  <2>2. QED
    BY <2>1
<1>7. FlattenSeq(seqs) = f[n]
  BY <1>1
<1> HIDE DEF f
<1>8. \A k \in 1..n : f[k] = Body(f[k - 1], k)
  BY <1>6
<1>9. Concatenates(f, seqs)
  <2> SUFFICES ASSUME NEW k \in 1..n
               PROVE  f[k] = IF k = 1 THEN seqs[k] ELSE f[k - 1] \o seqs[k]
    BY DEF Concatenates, n
  <2> DEFINE g == f[k - 1]
  <2>1. f[k] = Body(g, k)
    BY <1>8
  <2> HIDE DEF g
  <2>2. f[k] = IF k = 1 THEN seqs[k] ELSE g \o seqs[k]
    BY <2>1 DEF Body
  <2>3. QED
    BY <2>2 DEF g
<1>10. QED
  BY <1>7, <1>9 DEF n

LEMMA FlattenType ==
    ASSUME NEW S, NEW seqs \in Seq(Seq(S))
    PROVE  FlattenSeq(seqs) \in Seq(S)
<1> DEFINE n == Len(seqs)
<1>1. n \in Nat /\ \A i \in 1..n : seqs[i] \in Seq(S)
  OBVIOUS
<1>2. CASE n = 0
  <2>1. seqs = <<>> /\ FlattenSeq(seqs) = seqs
    BY <1>2 DEF FlattenSeq
  <2>2. <<>> \in Seq(S)
    OBVIOUS
  <2>3. QED
    BY <2>1, <2>2, Zenon
<1>3. CASE n # 0
  <2>1. PICK f : Concatenates(f, seqs) /\ FlattenSeq(seqs) = f[n]
    BY <1>1, <1>3, FlattenRecursion
  <2>2. \A i \in 1..n : f[i] = IF i = 1 THEN seqs[i] ELSE f[i - 1] \o seqs[i]
    BY <2>1 DEF Concatenates
  <2> DEFINE K == {k \in Nat : k + 1 <= n => f[k + 1] \in Seq(S)}
  <2> HIDE DEF n
  <2>3. 0 \in K
    BY <1>1, <1>3, <2>2
  <2>4. ASSUME NEW k \in K PROVE k + 1 \in K
    <3> SUFFICES ASSUME k + 2 <= n PROVE f[k + 2] \in Seq(S)
      OBVIOUS
    <3>1. k + 2 \in 1..n /\ k + 2 # 1 /\ (k + 2) - 1 = k + 1 /\ f[k + 1] \in Seq(S)
      BY <1>1
    <3>2. f[k + 2] = f[k + 1] \o seqs[k + 2]
      BY <2>2, <3>1
    <3>3. seqs[k + 2] \in Seq(S)
      BY <1>1, <3>1
    <3>4. QED
      BY <3>1, <3>2, <3>3
  <2>5. n - 1 \in K
    <3> HIDE DEF K
    <3>1. K \subseteq Nat
      BY DEF K
    <3>2. K = Nat
      BY <2>3, <2>4, <3>1, SetInduction
    <3>3. QED
      BY <1>1, <1>3, <3>2
  <2>6. QED
    BY <1>1, <1>3, <2>1, <2>5
<1>4. QED
  BY <1>2, <1>3

-----------------------------------------------------------------------------
(* What the parser of files makes of numbers: they fit an int.  The lower  *)
(* end of a duration is what an int makes of the number it was written as; *)
(* low is the set of those numbers, so that a file whose durations an int  *)
(* can hold can be told from any other.                                    *)

MachineInt == -IntHalf..IntHalf - 1
Lows(low) == low \subseteq Int /\ MachineInt \subseteq low
Ends(low) == {AsInt(n) : n \in low \cap Nat}
Spans(low) == [min : Ends(low), max : MachineInt]

LEMMA AsIntRange == ASSUME NEW n \in Int PROVE AsInt(n) \in MachineInt
<1>1. IntHalf \in Nat /\ IntHalf > 0
  BY IntHalfAssumption
<1>2. CASE n \in -IntHalf..IntHalf - 1
  BY <1>1, <1>2 DEF AsInt, MachineInt
<1>3. CASE n \notin -IntHalf..IntHalf - 1
  <2> DEFINE m == (n + IntHalf) % (2 * IntHalf)
  <2>1. m \in Int /\ 0 <= m /\ m < 2 * IntHalf
    BY <1>1
  <2>2. AsInt(n) = m - IntHalf
    BY <1>3 DEF AsInt
  <2> HIDE DEF m
  <2>3. QED
    BY <1>1, <2>1, <2>2 DEF MachineInt
<1>4. QED
  BY <1>2, <1>3

Few == {n \in Nat : n < 256}
LEMMA EndsIn ==
    ASSUME NEW low, Lows(low)
    PROVE  Ends(low) \subseteq MachineInt /\ Ends(low) \subseteq low /\ Few \subseteq Ends(low)
<1>1. Ends(low) \subseteq MachineInt
  BY AsIntRange DEF Ends, Lows
<1>2. Few \subseteq Ends(low)
  <2> SUFFICES ASSUME NEW n \in Few PROVE n \in Ends(low)
    OBVIOUS
  <2>1. n \in MachineInt /\ AsInt(n) = n
    BY IntHalfAssumption DEF AsInt, MachineInt, Few
  <2>2. n \in low \cap Nat
    BY <2>1 DEF Lows, Few
  <2>3. QED
    BY <2>1, <2>2 DEF Ends
<1>3. QED
  BY <1>1, <1>2 DEF Lows

\* A line whose durations begin with a number in low.
Fits(low, ln) ==
    /\ LegibleLine(ln)
    /\ ln.opt \in {"duration", "service"} => ln.text.lo \in low
    /\ ln.opt = "io" => \A j \in 1..Len(ln.events) :
                          ln.events[j].hasDuration => ln.events[j].duration.lo \in low
FittingLines(low, lines) ==
    Len(lines) \in Nat /\ \A i \in 1..Len(lines) : Fits(low, lines[i])

LEMMA RangeInRange ==
    ASSUME NEW low, Lows(low), NEW t, LegibleText(t), DurationOk(t), t.lo \in low
    PROVE  RangeToDuration(t) \in Spans(low)
<1>1. AsInt(t.lo) \in MachineInt /\ AsInt(t.hi) \in MachineInt
  BY AsIntRange DEF LegibleText
<1>2. AsInt(t.lo) \in Ends(low)
  BY DEF Ends, DurationOk, LegibleText
<1>3. QED
  BY <1>1, <1>2 DEF RangeToDuration, Span, Spans

ReadableEvent(low, ev) ==
    /\ ev.serviceTick \in MachineInt
    /\ ev.duration \in Spans(low)
    /\ ~ev.hasDuration => ev.duration = Span(0, 0)
ReadableProcess(low, p) ==
    /\ p.arrival \in MachineInt /\ p.burst \in MachineInt
    /\ \A j \in DOMAIN p.script : ReadableEvent(low, p.script[j])
ReadableConfig(low, c) ==
    /\ \A k \in FileKey : c.num[k] \in MachineInt
    /\ c.service \in Spans(low)
    /\ \A d \in Device : c.share[d] \in MachineInt /\ c.duration[d] \in Spans(low)
Readable(low, sc) ==
    /\ ReadableConfig(low, sc.cfg)
    /\ \A i \in DOMAIN sc.procs : ReadableProcess(low, sc.procs[i])

LEMMA GlobalReadable ==
    ASSUME NEW low, Lows(low), NEW sc \in Scenario, NEW ln, Fits(low, ln), ReadableConfig(low, sc.cfg)
    PROVE  /\ ReadableConfig(low, ApplyGlobal(sc, ln).cfg)
           /\ ApplyGlobal(sc, ln).procs = sc.procs
<1> DEFINE r == ApplyGlobal(sc, ln)
           t == ln.text
<1>1. sc.cfg \in SimConfig /\ sc.ok \in BOOLEAN /\ sc.procs \in Seq(ScenarioProcess)
  BY DEF Scenario
<1>2. ASSUME NEW c, ReadableConfig(low, c), r = [sc EXCEPT !.cfg = c]
      PROVE  ReadableConfig(low, r.cfg) /\ r.procs = sc.procs
  BY <1>1, <1>2 DEF Scenario
<1>3. ASSUME r = Reject(sc) PROVE ReadableConfig(low, r.cfg) /\ r.procs = sc.procs
  BY <1>3 DEF Reject, Scenario
<1>4. ASSUME ln.opt \in {"int", "share", "duration", "service", "mode"}
      PROVE  /\ LegibleText(t) /\ AsInt(t.lo) \in MachineInt
             /\ ln.opt \in {"share", "duration", "mode"} => ln.key \in Device
             /\ ln.opt \in {"duration", "service"} => t.lo \in low
  BY <1>4, AsIntRange DEF Fits, LegibleLine, LegibleText
<1>5. CASE ln.opt = "int" /\ ln.key \in FileKey /\ Strict(t)
  <2> DEFINE c == [sc.cfg EXCEPT !.num[ln.key] = AsInt(t.lo)]
  <2>1. r = [sc EXCEPT !.cfg = c]
    BY <1>5 DEF ApplyGlobal
  <2>2. /\ c.service = sc.cfg.service /\ c.share = sc.cfg.share
        /\ c.duration = sc.cfg.duration
        /\ c.num = [sc.cfg.num EXCEPT ![ln.key] = AsInt(t.lo)]
    BY <1>1 DEF SimConfig
  <2> HIDE DEF c
  <2>3. \A k \in FileKey : c.num[k] = IF k = ln.key THEN AsInt(t.lo) ELSE sc.cfg.num[k]
    BY <1>1, <2>2 DEF SimConfig, FileKey, NumKey
  <2>4. ReadableConfig(low, c)
    BY <1>4, <1>5, <2>2, <2>3 DEF ReadableConfig
  <2>5. QED
    BY <1>2, <2>1, <2>4
<1>6. CASE ln.opt = "share" /\ Strict(t)
  <2> DEFINE c == [sc.cfg EXCEPT !.share[ln.key] = AsInt(t.lo)]
  <2>1. r = [sc EXCEPT !.cfg = c]
    BY <1>6 DEF ApplyGlobal
  <2>2. /\ c.service = sc.cfg.service /\ c.duration = sc.cfg.duration
        /\ c.num = sc.cfg.num
        /\ c.share = [sc.cfg.share EXCEPT ![ln.key] = AsInt(t.lo)]
    BY <1>1 DEF SimConfig
  <2> HIDE DEF c
  <2>3. \A d \in Device : c.share[d] = IF d = ln.key THEN AsInt(t.lo) ELSE sc.cfg.share[d]
    BY <1>1, <2>2 DEF SimConfig
  <2>4. ReadableConfig(low, c)
    BY <1>4, <1>6, <2>2, <2>3 DEF ReadableConfig
  <2>5. QED
    BY <1>2, <2>1, <2>4
<1>7. CASE ln.opt = "duration" /\ DurationOk(t)
  <2> DEFINE c == [sc.cfg EXCEPT !.duration[ln.key] = RangeToDuration(t)]
  <2>1. r = [sc EXCEPT !.cfg = c]
    BY <1>7 DEF ApplyGlobal
  <2>2. /\ c.service = sc.cfg.service /\ c.share = sc.cfg.share /\ c.num = sc.cfg.num
        /\ c.duration = [sc.cfg.duration EXCEPT ![ln.key] = RangeToDuration(t)]
    BY <1>1 DEF SimConfig
  <2> HIDE DEF c
  <2>3. RangeToDuration(t) \in Spans(low)
    BY <1>4, <1>7, RangeInRange
  <2>4. \A d \in Device :
           c.duration[d] = IF d = ln.key THEN RangeToDuration(t) ELSE sc.cfg.duration[d]
    BY <1>1, <2>2 DEF SimConfig
  <2>5. ReadableConfig(low, c)
    BY <2>2, <2>3, <2>4 DEF ReadableConfig
  <2>6. QED
    BY <1>2, <2>1, <2>5
<1>8. CASE ln.opt = "service" /\ DurationOk(t)
  <2> DEFINE c == [sc.cfg EXCEPT !.service = RangeToDuration(t)]
  <2>1. r = [sc EXCEPT !.cfg = c]
    BY <1>8 DEF ApplyGlobal
  <2>2. /\ c.service = RangeToDuration(t) /\ c.share = sc.cfg.share
        /\ c.num = sc.cfg.num /\ c.duration = sc.cfg.duration
    BY <1>1 DEF SimConfig
  <2> HIDE DEF c
  <2>3. RangeToDuration(t) \in Spans(low)
    BY <1>4, <1>8, RangeInRange
  <2>4. ReadableConfig(low, c)
    BY <2>2, <2>3 DEF ReadableConfig
  <2>5. QED
    BY <1>2, <2>1, <2>4
<1>9. CASE ln.opt = "mode" /\ t.word \in IoMode
  <2> DEFINE c == [sc.cfg EXCEPT !.mode[ln.key] = t.word]
  <2>1. r = [sc EXCEPT !.cfg = c]
    BY <1>9 DEF ApplyGlobal
  <2>2. /\ c.service = sc.cfg.service /\ c.share = sc.cfg.share
        /\ c.num = sc.cfg.num /\ c.duration = sc.cfg.duration
    BY <1>1 DEF SimConfig
  <2> HIDE DEF c
  <2>3. ReadableConfig(low, c)
    BY <2>2 DEF ReadableConfig
  <2>4. QED
    BY <1>2, <2>1, <2>3
<1>10. QED
  BY <1>3, <1>5, <1>6, <1>7, <1>8, <1>9 DEF ApplyGlobal

LEMMA ProcessReadable ==
    ASSUME NEW low, Lows(low), NEW sc \in Scenario, sc.procs # <<>>, NEW ln, Fits(low, ln),
           Readable(low, sc)
    PROVE  Readable(low, ApplyProcess(sc, ln))
<1> DEFINE r == ApplyProcess(sc, ln)
           i == Len(sc.procs)
           p == sc.procs[i]
<1>1. sc.procs \in Seq(ScenarioProcess) /\ LegibleLine(ln)
  BY DEF Scenario, Fits
<1>2. i \in DOMAIN sc.procs /\ p \in ScenarioProcess /\ ReadableProcess(low, p)
  BY <1>1 DEF Readable
<1>3. ASSUME NEW q, ReadableProcess(low, q), r = [sc EXCEPT !.procs[i] = q]
      PROVE  Readable(low, r)
  <2>1. r.procs = [sc.procs EXCEPT ![i] = q] /\ r.cfg = sc.cfg
    BY <1>3 DEF Scenario
  <2>2. DOMAIN r.procs = DOMAIN sc.procs /\ \A j \in DOMAIN sc.procs :
            r.procs[j] = IF j = i THEN q ELSE sc.procs[j]
    BY <2>1
  <2>3. QED
    BY <1>3, <2>1, <2>2 DEF Readable
<1>4. ASSUME ln.opt \in {"arrival", "burst"} PROVE AsInt(ln.text.lo) \in MachineInt
  <2>1. ln.text.lo \in Int
    BY <1>1, <1>4 DEF LegibleLine, LegibleText
  <2>2. QED
    BY <2>1, AsIntRange
<1>5. CASE ln.opt = "arrival" /\ Strict(ln.text)
  <2> DEFINE q == [p EXCEPT !.arrival = AsInt(ln.text.lo)]
  <2>1. q.arrival = AsInt(ln.text.lo) /\ q.burst = p.burst /\ q.script = p.script
    BY <1>2 DEF ScenarioProcess
  <2>2. r = [sc EXCEPT !.procs[i] = q]
    BY <1>5 DEF ApplyProcess
  <2> HIDE DEF q
  <2>3. ReadableProcess(low, q)
    BY <1>2, <1>4, <1>5, <2>1 DEF ReadableProcess
  <2>4. QED
    BY <1>3, <2>2, <2>3
<1>6. CASE ln.opt = "burst" /\ Strict(ln.text)
  <2> DEFINE q == [p EXCEPT !.burst = AsInt(ln.text.lo)]
  <2>1. q.burst = AsInt(ln.text.lo) /\ q.arrival = p.arrival /\ q.script = p.script
    BY <1>2 DEF ScenarioProcess
  <2>2. r = [sc EXCEPT !.procs[i] = q]
    BY <1>6 DEF ApplyProcess
  <2> HIDE DEF q
  <2>3. ReadableProcess(low, q)
    BY <1>2, <1>4, <1>6, <2>1 DEF ReadableProcess
  <2>4. QED
    BY <1>3, <2>2, <2>3
<1>7. CASE ln.opt = "io" /\ \A j \in DOMAIN ln.events : EventOk(ln.events[j])
  <2> DEFINE ev == ln.events
             more == [j \in DOMAIN ev |-> ParseIoEvent(ev[j])]
             q == [p EXCEPT !.script = @ \o more]
  <2>1. more \in Seq(ScriptedIO)
    BY <1>1, <1>7, TimelineType
  <2>2. Len(ev) \in Nat /\ ev = [j \in 1..Len(ev) |-> ev[j]]
    BY <1>1, <1>7 DEF LegibleLine
  <2>3. DOMAIN ev = 1..Len(ev)
    BY <2>2
  <2>4. ASSUME NEW j \in DOMAIN ev PROVE ReadableEvent(low, ParseIoEvent(ev[j]))
    <3>1. LegibleEvent(ev[j]) /\ EventOk(ev[j]) /\ (ev[j].hasDuration => ev[j].duration.lo \in low)
      BY <1>1, <1>7, <2>3 DEF LegibleLine, Fits
    <3>2. AsInt(ev[j].tick.lo) \in MachineInt
      BY <3>1, AsIntRange DEF LegibleText, LegibleEvent
    <3>3. ev[j].hasDuration => RangeToDuration(ev[j].duration) \in Spans(low)
      BY <3>1, RangeInRange DEF LegibleEvent, EventOk
    <3>4. Span(0, 0) \in Spans(low)
      BY EndsIn DEF Few, Span, Spans
    <3> DEFINE e == ev[j]
    <3> HIDE DEF e
    <3>5. QED
      BY <3>2, <3>3, <3>4 DEF ParseIoEvent, ReadableEvent, e
  <2>5. DOMAIN more = DOMAIN ev /\ \A j \in DOMAIN more : ReadableEvent(low, more[j])
    BY <2>4
  <2>6. r = [sc EXCEPT !.procs[i] = q]
    BY <1>7 DEF ApplyProcess
  <2> HIDE DEF more
  <2>7. q.arrival = p.arrival /\ q.burst = p.burst /\ q.script = p.script \o more
    BY <1>2 DEF ScenarioProcess
  <2> HIDE DEF q
  <2>8. p.script \in Seq(ScriptedIO)
    BY <1>2 DEF ScenarioProcess
  <2>9. \A j \in DOMAIN (p.script \o more) : ReadableEvent(low, (p.script \o more)[j])
    <3> DEFINE s == p.script
    <3>1. \A j \in DOMAIN s : ReadableEvent(low, s[j])
      BY <1>2 DEF ReadableProcess
    <3>2. s \in Seq(ScriptedIO)
      BY <2>8
    <3> HIDE DEF s
    <3>3. ASSUME NEW j \in DOMAIN (s \o more) PROVE ReadableEvent(low, (s \o more)[j])
      <4>1. j \in 1..(Len(s) + Len(more)) /\ DOMAIN s = 1..Len(s) /\ DOMAIN more = 1..Len(more)
            /\ Len(s) \in Nat /\ Len(more) \in Nat
        BY <2>1, <3>2
      <4>2. CASE j <= Len(s)
        BY <2>1, <3>1, <3>2, <4>1, <4>2
      <4>3. CASE j > Len(s)
        <5>1. (s \o more)[j] = more[j - Len(s)] /\ j - Len(s) \in DOMAIN more
          BY <2>1, <3>2, <4>1, <4>3
        <5>2. QED
          BY <2>5, <5>1
      <4>4. QED
        BY <4>1, <4>2, <4>3
    <3>4. QED
      BY <3>3 DEF s
  <2>10. ReadableProcess(low, q)
    BY <1>2, <2>7, <2>9 DEF ReadableProcess
  <2>11. QED
    BY <1>3, <2>6, <2>10
<1>8. CASE r = Reject(sc)
  <2>1. Reject(sc).cfg = sc.cfg /\ Reject(sc).procs = sc.procs
    BY DEF Reject, Scenario
  <2>2. QED
    BY <1>8, <2>1 DEF Readable
<1>9. QED
  BY <1>5, <1>6, <1>7, <1>8 DEF ApplyProcess

LEMMA LineReadable ==
    ASSUME NEW low, Lows(low), NEW sc \in Scenario, NEW ln, Fits(low, ln), Readable(low, sc)
    PROVE  Readable(low, ApplyLine(sc, ln))
<1>1. CASE ln.opt = "[process]"
  <2> DEFINE q == [arrival |-> 0, burst |-> 0, script |-> <<>>]
  <2>1. ReadableProcess(low, q)
    <3>1. 0 \in MachineInt
      BY IntHalfAssumption DEF MachineInt
    <3>2. q.arrival = 0 /\ q.burst = 0 /\ q.script = <<>> /\ DOMAIN <<>> = {}
      OBVIOUS
    <3> HIDE DEF q
    <3>3. QED
      BY <3>1, <3>2 DEF ReadableProcess
  <2>2. ApplyLine(sc, ln) = [sc EXCEPT !.procs = Append(sc.procs, q)]
    BY <1>1 DEF ApplyLine
  <2> HIDE DEF q
  <2>3. ApplyLine(sc, ln).procs = Append(sc.procs, q) /\ ApplyLine(sc, ln).cfg = sc.cfg
    BY <2>2 DEF Scenario
  <2>4. sc.procs \in Seq(ScenarioProcess)
    BY DEF Scenario
  <2> DEFINE s == sc.procs
  <2>5. \A i \in DOMAIN s : ReadableProcess(low, s[i])
    BY DEF Readable
  <2> HIDE DEF s
  <2>6. \A i \in DOMAIN Append(s, q) : ReadableProcess(low, Append(s, q)[i])
    <3> SUFFICES ASSUME NEW i \in DOMAIN Append(s, q) PROVE ReadableProcess(low, Append(s, q)[i])
      OBVIOUS
    <3>1. i \in 1..(Len(s) + 1) /\ DOMAIN s = 1..Len(s) /\ Len(s) \in Nat
      BY <2>4 DEF s
    <3>2. Append(s, q)[i] = IF i = Len(s) + 1 THEN q ELSE s[i]
      BY <2>4, <3>1 DEF s
    <3>3. QED
      BY <2>1, <2>5, <3>1, <3>2
  <2>7. QED
    BY <2>3, <2>6 DEF Readable, s
<1>2. CASE ln.opt # "[process]" /\ sc.procs = <<>>
  BY <1>2, GlobalReadable DEF ApplyLine, Readable
<1>3. CASE ln.opt # "[process]" /\ sc.procs # <<>>
  BY <1>3, ProcessReadable DEF ApplyLine
<1>4. QED
  BY <1>1, <1>2, <1>3

LEMMA ParseReadable ==
    ASSUME NEW low, Lows(low), NEW lines, FittingLines(low, lines),
           NEW cfg \in SimConfig, ReadableConfig(low, cfg)
    PROVE  Readable(low, ParseLines(lines, cfg))
<1> DEFINE n == Len(lines)
<1>1. n \in Nat /\ \A k \in 1..n : Fits(low, lines[n - k + 1]) /\ LegibleLine(lines[n - k + 1])
  BY DEF FittingLines, Fits
<1>2. PICK left : Parses(left, lines) /\ ParseLines(lines, cfg) = left[n][Parsed(TRUE, cfg, <<>>)]
  BY <1>1, ParseRecursion
<1>3. ASSUME NEW k \in 0..n, NEW sc \in Scenario
      PROVE  left[k][sc] = IF ~sc.ok THEN sc
                           ELSE IF k = 0 THEN Validated(sc)
                           ELSE left[k - 1][ApplyLine(sc, lines[n - k + 1])]
  BY <1>2 DEF Parses
<1>4. \A sc \in Scenario : Readable(low, sc) => Readable(low, Validated(sc))
  <2>1. \A sc \in Scenario : Reject(sc).cfg = sc.cfg /\ Reject(sc).procs = sc.procs
    BY DEF Reject, Scenario
  <2>2. QED
    BY <2>1 DEF Validated, Readable
<1> DEFINE K == {k \in Nat : k <= n => \A sc \in Scenario :
                     Readable(low, sc) => Readable(low, left[k][sc])}
<1> HIDE DEF n
<1>6. 0 \in K
  <2> SUFFICES ASSUME NEW sc \in Scenario, Readable(low, sc) PROVE Readable(low, left[0][sc])
    OBVIOUS
  <2>1. left[0][sc] = IF ~sc.ok THEN sc ELSE Validated(sc)
    BY <1>1, <1>3
  <2>2. QED
    BY <1>4, <2>1
<1>7. ASSUME NEW k \in K PROVE k + 1 \in K
  <2> SUFFICES ASSUME k + 1 <= n, NEW sc \in Scenario, Readable(low, sc)
               PROVE  Readable(low, left[k + 1][sc])
    OBVIOUS
  <2>1. k \in Nat /\ k <= n /\ k + 1 \in 1..n /\ (k + 1) - 1 = k /\ k + 1 # 0 /\ k + 1 \in 0..n
    BY <1>1
  <2> DEFINE ln == lines[n - (k + 1) + 1]
  <2>2. left[k + 1][sc] = IF ~sc.ok THEN sc ELSE left[k][ApplyLine(sc, ln)]
    BY <1>3, <2>1
  <2>3. Fits(low, ln) /\ LegibleLine(ln)
    BY <1>1, <2>1
  <2> HIDE DEF ln
  <2>4. ApplyLine(sc, ln) \in Scenario /\ Readable(low, ApplyLine(sc, ln))
    BY <2>3, LineType, LineReadable
  <2>5. Readable(low, left[k][ApplyLine(sc, ln)])
    BY <2>1, <2>4
  <2>6. QED
    BY <2>2, <2>5
<1>8. \A sc \in Scenario : Readable(low, sc) => Readable(low, left[n][sc])
  <2> HIDE DEF K
  <2>1. K \subseteq Nat
    BY DEF K
  <2>2. K = Nat
    BY <1>6, <1>7, <2>1, SetInduction
  <2>3. n \in K
    BY <1>1, <2>2
  <2>4. QED
    BY <1>1, <2>3 DEF K
<1>9. Parsed(TRUE, cfg, <<>>) \in Scenario /\ Readable(low, Parsed(TRUE, cfg, <<>>))
  BY DEF Parsed, Scenario, Readable
<1>10. QED
  BY <1>2, <1>8, <1>9 DEF n

-----------------------------------------------------------------------------
(* What the editor writes.                                                 *)

EditorText ==
    [head : BOOLEAN, lo : Int, tail : {"end", "range", "junk"}, hi : Int, word : IoMode \cup {""}]
EditorEvent(low) ==
    {e \in TimelineEvent \cup
           [tick : EditorText, device : Device, hasDuration : BOOLEAN, duration : EditorText] :
        e.hasDuration => e.duration.lo \in low}
EditorLine(low) ==
    {ln \in [opt : {"int", "share", "duration", "service", "mode", "arrival", "burst"},
             key : FileKey \cup Device \cup {""}, text : EditorText] :
        /\ ln.opt \in {"share", "duration", "mode"} => ln.key \in Device
        /\ ln.opt \in {"duration", "service"} => ln.text.lo \in low}
    \cup {ProcessHeader}
    \cup [opt : {"io"}, key : {""}, events : Seq(EditorEvent(low))]

FormSpan(low) == [min : low, max : Int]
EditorForm(low) ==
    [num : [NumKey -> Int], service : FormSpan(low), duration : [Device -> FormSpan(low)],
     mode : [Device -> IoMode], arrivalMode : ArrivalMode, share : [{"disk", "tape"} -> Int]]
EditorProcess(low) == [arrival : Int, burst : Int, events : Seq(EditorEvent(low))]

LEMMA WrittenFits ==
    ASSUME NEW low, NEW lines \in Seq(EditorLine(low))
    PROVE  FittingLines(low, lines) /\ LegibleLines(lines)
<1>1. ASSUME NEW ln \in EditorLine(low) PROVE Fits(low, ln)
  <2>1. CASE ln = ProcessHeader
    BY <2>1 DEF ProcessHeader, Fits, LegibleLine
  <2>2. CASE ln \in [opt : {"io"}, key : {""}, events : Seq(EditorEvent(low))]
    <3>1. ln.opt = "io" /\ ln.events \in Seq(EditorEvent(low))
      BY <2>2
    <3>2. \A e \in EditorEvent(low) : LegibleEvent(e) /\ (e.hasDuration => e.duration.lo \in low)
      BY DEF EditorEvent, TimelineEvent, EditorText, Text, LegibleEvent, LegibleText
    <3>3. QED
      BY <3>1, <3>2 DEF LegibleLine, Fits
  <2>3. CASE ln \in {l \in [opt : {"int", "share", "duration", "service", "mode", "arrival", "burst"},
                            key : FileKey \cup Device \cup {""}, text : EditorText] :
                       /\ l.opt \in {"share", "duration", "mode"} => l.key \in Device
                       /\ l.opt \in {"duration", "service"} => l.text.lo \in low}
    BY <2>3 DEF EditorText, Fits, LegibleLine, LegibleText
  <2>4. QED
    BY <2>1, <2>2, <2>3 DEF EditorLine
<1>2. Len(lines) \in Nat /\ \A i \in 1..Len(lines) : Fits(low, lines[i])
  BY <1>1
<1>3. QED
  BY <1>2 DEF FittingLines, LegibleLines, Fits

LEMMA NumWritten == ASSUME NEW n \in Int PROVE Num(n) \in EditorText
BY DEF Num, EditorText

LEMMA SpanWritten ==
    ASSUME NEW low, low \subseteq Int, NEW d \in FormSpan(low)
    PROVE  DurText(d) \in EditorText /\ DurText(d).lo \in low
<1>1. d.min \in low /\ d.min \in Int /\ d.max \in Int
  BY DEF FormSpan
<1>2. NumRange(d.min, d.max) \in EditorText /\ NumRange(d.min, d.max).lo = d.min
  BY <1>1 DEF NumRange, EditorText
<1>3. Num(d.min) \in EditorText /\ Num(d.min).lo = d.min
  BY <1>1, NumWritten DEF Num
<1>4. QED
  BY <1>1, <1>2, <1>3 DEF DurText

LEMMA ModeWritten == ASSUME NEW m \in IoMode PROVE Word(m) \in EditorText
<1>1. m \in IoMode \cup {""}
  BY Zenon
<1>2. Word(m) = [head |-> FALSE, lo |-> 0, tail |-> "junk", hi |-> 0, word |-> m]
  BY DEF Word
<1> DEFINE words == IoMode \cup {""}
<1>4. m \in words /\ EditorText = [head : BOOLEAN, lo : Int, tail : {"end", "range", "junk"},
                                   hi : Int, word : words]
  BY <1>1, Zenon DEF EditorText
<1> HIDE DEF words
<1>5. QED
  BY <1>2, <1>4

LEMMA LinesWritten ==
    ASSUME NEW low, low \subseteq Int
    PROVE  /\ \A k \in FileKey : \A t \in EditorText : Option("int", k, t) \in EditorLine(low)
           /\ \A d \in Device : \A t \in EditorText :
                  /\ Option("share", d, t) \in EditorLine(low)
                  /\ Option("mode", d, t) \in EditorLine(low)
                  /\ t.lo \in low => Option("duration", d, t) \in EditorLine(low)
           /\ \A t \in EditorText :
                  /\ Option("arrival", "", t) \in EditorLine(low)
                  /\ Option("burst", "", t) \in EditorLine(low)
                  /\ t.lo \in low => Option("service", "", t) \in EditorLine(low)
           /\ ProcessHeader \in EditorLine(low)
           /\ \A ev \in Seq(EditorEvent(low)) : Timeline(ev) \in EditorLine(low)
<1>1. \A k \in FileKey : \A t \in EditorText : Option("int", k, t) \in EditorLine(low)
  BY DEF Option, EditorLine
<1>2. ASSUME NEW d \in Device, NEW t \in EditorText
      PROVE  /\ Option("share", d, t) \in EditorLine(low)
             /\ Option("mode", d, t) \in EditorLine(low)
             /\ t.lo \in low => Option("duration", d, t) \in EditorLine(low)
  BY DEF Option, EditorLine
<1>3. ASSUME NEW t \in EditorText
      PROVE  /\ Option("arrival", "", t) \in EditorLine(low)
             /\ Option("burst", "", t) \in EditorLine(low)
             /\ t.lo \in low => Option("service", "", t) \in EditorLine(low)
  BY DEF Option, EditorLine
<1>4. ProcessHeader \in EditorLine(low)
  BY DEF EditorLine
<1>5. \A ev \in Seq(EditorEvent(low)) : Timeline(ev) \in EditorLine(low)
  BY DEF Timeline, EditorLine
<1>6. QED
  BY <1>1, <1>2, <1>3, <1>4, <1>5

LEMMA OneIn == ASSUME NEW S, NEW a \in S PROVE <<a>> \in Seq(S)
OBVIOUS

LEMMA ThreeIn == ASSUME NEW S, NEW a \in S, NEW b \in S, NEW c \in S PROVE <<a, b, c>> \in Seq(S)
OBVIOUS

LEMMA SixIn ==
    ASSUME NEW S, NEW a \in S, NEW b \in S, NEW c \in S, NEW d \in S, NEW e \in S, NEW f \in S
    PROVE  <<a, b, c, d, e, f>> \in Seq(S)
OBVIOUS

LEMMA ProcessWritten ==
    ASSUME NEW low, low \subseteq Int, NEW p \in EditorProcess(low)
    PROVE  ProcessText(p) \in Seq(EditorLine(low))
<1> DEFINE S == EditorLine(low)
           head == <<ProcessHeader, Option("arrival", "", Num(p.arrival)),
                     Option("burst", "", Num(p.burst))>>
           tail == IF p.events = <<>> THEN <<>> ELSE <<Timeline(p.events)>>
<1>1. p.arrival \in Int /\ p.burst \in Int /\ p.events \in Seq(EditorEvent(low))
  BY DEF EditorProcess
<1>2. /\ ProcessHeader \in S /\ Option("arrival", "", Num(p.arrival)) \in S
      /\ Option("burst", "", Num(p.burst)) \in S /\ Timeline(p.events) \in S
  BY <1>1, NumWritten, LinesWritten
<1> HIDE DEF S
<1>3. head \in Seq(S)
  BY <1>2, ThreeIn
<1>6. tail \in Seq(S)
  <2>1. <<Timeline(p.events)>> \in Seq(S)
    BY <1>2, OneIn
  <2>2. <<>> \in Seq(S)
    OBVIOUS
  <2>3. QED
    BY <2>1, <2>2, Zenon
<1>4. ProcessText(p) = head \o tail
  BY DEF ProcessText
<1> HIDE DEF head, tail
<1>5. QED
  BY <1>3, <1>4, <1>6 DEF S

\* The parts of the text: the lines of every file, those of a random workload,
\* and the processes.
FixedLines(f) ==
    <<NumText(f, "quantumHi"), NumText(f, "quantumLo"), NumText(f, "seed"),
      Option("duration", "disk", DurText(f.duration["disk"])),
      Option("duration", "tape", DurText(f.duration["tape"])),
      Option("duration", "printer", DurText(f.duration["printer"])),
      Option("mode", "disk", Word(f.mode["disk"])),
      Option("mode", "tape", Word(f.mode["tape"])),
      Option("mode", "printer", Word(f.mode["printer"]))>>
RandomLines(f) ==
    <<NumText(f, "processCount"), NumText(f, "pIo"),
      Option("share", "disk", Num(f.share["disk"])),
      Option("share", "tape", Num(f.share["tape"])),
      Option("share", "printer", Num(PrinterShare(f))),
      Option("service", "", DurText(f.service))>>

TextsOf(procs) == [i \in DOMAIN procs |-> ProcessText(procs[i])]

LEMMA FormLines ==
    ASSUME NEW low, low \subseteq Int, NEW f \in EditorForm(low)
    PROVE  LET S == EditorLine(low)
           IN  /\ \A k \in {"quantumHi", "quantumLo", "seed", "processCount", "pIo"} :
                     NumText(f, k) \in S
               /\ \A d \in Device : /\ Option("duration", d, DurText(f.duration[d])) \in S
                                    /\ Option("mode", d, Word(f.mode[d])) \in S
               /\ Option("share", "disk", Num(f.share["disk"])) \in S
               /\ Option("share", "tape", Num(f.share["tape"])) \in S
               /\ Option("share", "printer", Num(PrinterShare(f))) \in S
               /\ Option("service", "", DurText(f.service)) \in S
<1> DEFINE S == EditorLine(low)
<1>1. /\ f.num \in [NumKey -> Int] /\ f.service \in FormSpan(low)
      /\ f.duration \in [Device -> FormSpan(low)] /\ f.mode \in [Device -> IoMode]
      /\ f.share \in [{"disk", "tape"} -> Int]
  BY DEF EditorForm
<1>2. FileKey \subseteq NumKey /\ "disk" \in Device /\ "tape" \in Device /\ "printer" \in Device
  BY DEF FileKey, NumKey, Device
<1>3. PrinterShare(f) \in Int
  BY <1>1 DEF PrinterShare
<1>4. \A k \in {"quantumHi", "quantumLo", "seed", "processCount", "pIo"} : NumText(f, k) \in S
  <2>1. \A k \in FileKey : NumText(f, k) \in S
    BY <1>1, <1>2, NumWritten, LinesWritten DEF NumText
  <2>2. {"quantumHi", "quantumLo", "seed", "processCount", "pIo"} \subseteq FileKey
    BY DEF FileKey
  <2> HIDE DEF S
  <2>3. QED
    BY <2>1, <2>2
<1>5. ASSUME NEW d \in Device
      PROVE  Option("duration", d, DurText(f.duration[d])) \in S /\ Option("mode", d, Word(f.mode[d])) \in S
  <2>1. f.duration[d] \in FormSpan(low) /\ f.mode[d] \in IoMode
    BY <1>1
  <2>2. DurText(f.duration[d]) \in EditorText /\ DurText(f.duration[d]).lo \in low
    BY <2>1, SpanWritten
  <2>3. Word(f.mode[d]) \in EditorText
    BY <2>1, ModeWritten
  <2>4. QED
    BY <2>2, <2>3, LinesWritten
<1>6. /\ Option("share", "disk", Num(f.share["disk"])) \in S
      /\ Option("share", "tape", Num(f.share["tape"])) \in S
      /\ Option("share", "printer", Num(PrinterShare(f))) \in S
  BY <1>1, <1>2, <1>3, NumWritten, LinesWritten
<1>7. Option("service", "", DurText(f.service)) \in S
  <2>1. DurText(f.service) \in EditorText /\ DurText(f.service).lo \in low
    BY <1>1, SpanWritten
  <2>2. QED
    BY <2>1, LinesWritten
<1> HIDE DEF S
<1>8. QED
  BY <1>4, <1>5, <1>6, <1>7 DEF S

LEMMA FixedWritten ==
    ASSUME NEW low, low \subseteq Int, NEW f \in EditorForm(low)
    PROVE  FixedLines(f) \in Seq(EditorLine(low))
<1> DEFINE S == EditorLine(low)
           lines == FixedLines(f)
<1>1. /\ NumText(f, "quantumHi") \in S /\ NumText(f, "quantumLo") \in S /\ NumText(f, "seed") \in S
  BY FormLines
<1>2. "disk" \in Device /\ "tape" \in Device /\ "printer" \in Device
  BY DEF Device
<1>3. /\ Option("duration", "disk", DurText(f.duration["disk"])) \in S
      /\ Option("duration", "tape", DurText(f.duration["tape"])) \in S
      /\ Option("duration", "printer", DurText(f.duration["printer"])) \in S
      /\ Option("mode", "disk", Word(f.mode["disk"])) \in S
      /\ Option("mode", "tape", Word(f.mode["tape"])) \in S
      /\ Option("mode", "printer", Word(f.mode["printer"])) \in S
  BY <1>2, FormLines
<1> HIDE DEF S
<1>4. lines \in Seq(S)
  BY <1>1, <1>3 DEF FixedLines
<1>5. QED
  BY <1>4 DEF S

LEMMA RandomWritten ==
    ASSUME NEW low, low \subseteq Int, NEW f \in EditorForm(low)
    PROVE  RandomLines(f) \in Seq(EditorLine(low))
<1>1. NumText(f, "processCount") \in EditorLine(low) /\ NumText(f, "pIo") \in EditorLine(low)
  BY FormLines
<1>2. /\ Option("share", "disk", Num(f.share["disk"])) \in EditorLine(low)
      /\ Option("share", "tape", Num(f.share["tape"])) \in EditorLine(low)
      /\ Option("share", "printer", Num(PrinterShare(f))) \in EditorLine(low)
      /\ Option("service", "", DurText(f.service)) \in EditorLine(low)
  BY FormLines
<1>3. QED
  BY <1>1, <1>2, SixIn DEF RandomLines

LEMMA ProcessesWritten ==
    ASSUME NEW low, low \subseteq Int, NEW procs \in Seq(EditorProcess(low))
    PROVE  FlattenSeq(TextsOf(procs)) \in Seq(EditorLine(low))
<1> DEFINE S == EditorLine(low)
           seqs == TextsOf(procs)
<1>1. \A p \in EditorProcess(low) : ProcessText(p) \in Seq(S)
  BY ProcessWritten
<1> HIDE DEF S
<1>2. \A i \in 1..Len(procs) : procs[i] \in EditorProcess(low)
  OBVIOUS
<1>3. seqs \in [1..Len(procs) -> Seq(S)]
  BY <1>1, <1>2 DEF TextsOf
<1>4. Len(procs) \in Nat
  OBVIOUS
<1> HIDE DEF seqs
<1>5. seqs \in Seq(Seq(S))
  BY <1>3, <1>4
<1>6. FlattenSeq(seqs) \in Seq(S)
  BY <1>5, FlattenType
<1>7. QED
  BY <1>6 DEF S, seqs

LEMMA TextWritten ==
    ASSUME NEW low, low \subseteq Int, NEW e, e.form \in EditorForm(low),
           e.procs \in Seq(EditorProcess(low))
    PROVE  ToScn(e) \in Seq(EditorLine(low))
<1> DEFINE S == EditorLine(low)
           f == e.form
           random == IF e.procs # <<>> THEN <<>> ELSE RandomLines(f)
           texts == FlattenSeq(TextsOf(e.procs))
<1>1. ToScn(e) = FixedLines(f) \o random \o texts
  BY DEF ToScn, FixedLines, RandomLines, TextsOf
<1>2. FixedLines(f) \in Seq(S) /\ RandomLines(f) \in Seq(S) /\ texts \in Seq(S)
  BY FixedWritten, RandomWritten, ProcessesWritten
<1> HIDE DEF S, f, texts
<1>3. random \in Seq(S)
  <2>1. <<>> \in Seq(S)
    OBVIOUS
  <2>2. QED
    BY <1>2, <2>1
<1> HIDE DEF random
<1>4. QED
  BY <1>1, <1>2, <1>3 DEF S

-----------------------------------------------------------------------------
(* What the editor holds.                                                  *)

EditorFields == {"open", "form", "procs", "path", "valid", "pendingUse", "dialog"}
EditorOk(low, e) ==
    /\ DOMAIN e = EditorFields
    /\ e.form \in EditorForm(low) /\ e.procs \in Seq(EditorProcess(low))
    /\ e.path \in Path \cup {""}

\* The text is made of the form and the processes.
LEMMA TextOf ==
    ASSUME NEW e, NEW d, e.form = d.form, e.procs = d.procs
    PROVE  ToScn(e) = ToScn(d)
BY DEF ToScn

LEMMA DefaultShape ==
    /\ DefaultConfig \in SimConfig
    /\ DefaultConfig = Whole(DefaultConfig)
<1>1. ParserStart \in ParserState /\ ParserStart.cfg = DefaultConfig
  BY StartShape DEF ParserStart
<1>2. DefaultConfig \in SimConfig
  BY <1>1 DEF ParserState
<1>3. QED
  BY <1>2, ConfigWhole

LEMMA BridgeConfig ==
    /\ BridgeDefaults \in SimConfig
    /\ ~BridgeDefaults.emit /\ BridgeDefaults.num["pIo"] = 0
    /\ \A low : Lows(low) => ReadableConfig(low, BridgeDefaults)
<1> DEFINE share == [d \in Device |-> IF d = "disk" THEN 34 ELSE 33]
           c == BridgeDefaults
<1>1. share \in [Device -> Int] /\ \A d \in Device : share[d] \in {33, 34}
  OBVIOUS
<1>2. BridgeDefaults = [DefaultConfig EXCEPT !.share = share]
  BY DEF BridgeDefaults
<1> HIDE DEF share, c
<1>3. BridgeDefaults \in SimConfig
  BY <1>1, <1>2, DefaultShape DEF SimConfig
<1>4. /\ c.num = DefaultConfig.num /\ c.service = DefaultConfig.service
      /\ c.duration = DefaultConfig.duration /\ c.emit = DefaultConfig.emit /\ c.share = share
  BY <1>2, DefaultShape DEF SimConfig, c
<1>5. /\ DefaultConfig.emit = FALSE /\ DefaultConfig.num["pIo"] = 0
      /\ \A k \in FileKey : DefaultConfig.num[k] \in {0, 3, 5, 6, 42}
      /\ DefaultConfig.service = Span(5, 15)
      /\ \A d \in Device : DefaultConfig.duration[d] \in {Span(5, 5), Span(8, 8), Span(12, 12)}
  BY DEF DefaultConfig, FileKey, NumKey
<1>6. ASSUME NEW low, Lows(low) PROVE ReadableConfig(low, c)
  <2>1. \A n \in {0, 3, 5, 6, 8, 12, 15, 33, 34, 42} : n \in Ends(low) /\ n \in MachineInt
    <3>1. \A n \in {0, 3, 5, 6, 8, 12, 15, 33, 34, 42} : n \in Few
      BY DEF Few
    <3>2. QED
      BY <1>6, <3>1, EndsIn
  <2>2. \A m, n \in {5, 8, 12, 15} : Span(m, n) \in Spans(low)
    BY <2>1 DEF Span, Spans
  <2>3. QED
    BY <1>1, <1>4, <1>5, <2>1, <2>2 DEF ReadableConfig
<1>7. QED
  BY <1>3, <1>4, <1>5, <1>6 DEF c

-----------------------------------------------------------------------------
(* Opening a file keeps the type of the editor.                            *)

LEMMA SpansShown ==
    ASSUME NEW low, Lows(low)
    PROVE  Spans(low) \subseteq FormSpan(low)
<1>1. Ends(low) \subseteq low /\ MachineInt \subseteq Int
  BY EndsIn DEF Lows
<1>2. QED
  BY <1>1 DEF Spans, FormSpan

LEMMA FormOfOk ==
    ASSUME NEW low, Lows(low), NEW sc \in Scenario, Readable(low, sc),
           NEW form \in EditorForm(low)
    PROVE  FormOf(sc, form) \in EditorForm(low)
<1> DEFINE num == [k \in NumKey |->
                     IF \/ k \in {"quantumHi", "quantumLo", "seed", "pIo"}
                        \/ k = "processCount" /\ sc.procs = <<>>
                     THEN sc.cfg.num[k] ELSE form.num[k]]
           share == [d \in {"disk", "tape"} |-> sc.cfg.share[d]]
<1>1. /\ sc.cfg.num \in [NumKey -> Int] /\ sc.cfg.mode \in [Device -> IoMode]
      /\ sc.cfg.duration \in [Device -> Duration] /\ sc.cfg.share \in [Device -> Int]
  BY DEF Scenario, SimConfig
<1>2. num \in [NumKey -> Int]
  BY <1>1 DEF EditorForm
<1>3. share \in [{"disk", "tape"} -> Int]
  BY <1>1 DEF Device
<1>4. sc.cfg.service \in FormSpan(low)
  BY SpansShown DEF Readable, ReadableConfig
<1>5. sc.cfg.duration \in [Device -> FormSpan(low)]
  <2>1. \A d \in Device : sc.cfg.duration[d] \in FormSpan(low)
    BY SpansShown DEF Readable, ReadableConfig
  <2>2. QED
    BY <1>1, <2>1
<1>6. FormOf(sc, form) = [form EXCEPT !.num = num, !.service = sc.cfg.service,
                            !.duration = sc.cfg.duration, !.mode = sc.cfg.mode, !.share = share]
  BY DEF FormOf
<1> HIDE DEF num, share
<1>7. QED
  BY <1>1, <1>2, <1>3, <1>4, <1>5, <1>6 DEF EditorForm

LEMMA EventWritten ==
    ASSUME NEW low, Lows(low), NEW ev \in ScriptedIO, ReadableEvent(low, ev)
    PROVE  EventText(ev) \in EditorEvent(low)
<1>1. ev.serviceTick \in Int /\ ev.device \in Device /\ ev.duration \in FormSpan(low)
  BY SpansShown DEF ScriptedIO, ReadableEvent
<1>2. /\ Num(ev.serviceTick) \in EditorText /\ Num(0) \in EditorText
      /\ DurText(ev.duration) \in EditorText /\ DurText(ev.duration).lo \in low
  <2>1. low \subseteq Int
    BY DEF Lows
  <2>2. DurText(ev.duration) \in EditorText /\ DurText(ev.duration).lo \in low
    BY <1>1, <2>1, SpanWritten
  <2>3. QED
    BY <1>1, <2>2, NumWritten
<1>3. CASE ev.hasDuration
  <2> DEFINE t == Num(ev.serviceTick)
             u == DurText(ev.duration)
  <2>1. EventText(ev) = [tick |-> t, device |-> ev.device, hasDuration |-> TRUE, duration |-> u]
    BY <1>3 DEF EventText, EventFor, Event
  <2> HIDE DEF t, u
  <2>2. QED
    BY <1>1, <1>2, <2>1 DEF EditorEvent, t, u
<1>4. CASE ~ev.hasDuration
  <2> DEFINE t == Num(ev.serviceTick)
             u == Num(0)
  <2>1. EventText(ev) = [tick |-> t, device |-> ev.device, hasDuration |-> FALSE, duration |-> u]
    BY <1>4 DEF EventText, Event
  <2> HIDE DEF t, u
  <2>2. QED
    BY <1>1, <1>2, <2>1 DEF EditorEvent, t, u
<1>5. QED
  BY <1>3, <1>4

\* The processes of a file as the editor shows them.
ShownProcs(sc) ==
    [i \in DOMAIN sc.procs |-> [arrival |-> sc.procs[i].arrival, burst |-> sc.procs[i].burst,
                                events |-> TimelineText(sc.procs[i].script)]]

LEMMA ShownProcsOk ==
    ASSUME NEW low, Lows(low), NEW sc \in Scenario, Readable(low, sc)
    PROVE  ShownProcs(sc) \in Seq(EditorProcess(low))
<1> DEFINE n == Len(sc.procs)
<1>1. sc.procs \in Seq(ScenarioProcess) /\ DOMAIN sc.procs = 1..n /\ n \in Nat
  BY DEF Scenario
<1>2. ASSUME NEW i \in 1..n
      PROVE  [arrival |-> sc.procs[i].arrival, burst |-> sc.procs[i].burst,
              events |-> TimelineText(sc.procs[i].script)] \in EditorProcess(low)
  <2> DEFINE p == sc.procs[i]
  <2>1. p \in ScenarioProcess /\ ReadableProcess(low, p)
    BY <1>1 DEF Readable
  <2> HIDE DEF p
  <2>2. p.arrival \in Int /\ p.burst \in Int /\ p.script \in Seq(ScriptedIO)
    BY <2>1 DEF ScenarioProcess
  <2>3. \A j \in DOMAIN p.script : EventText(p.script[j]) \in EditorEvent(low)
    BY <2>1, <2>2, EventWritten DEF ReadableProcess
  <2>4. TimelineText(p.script) \in Seq(EditorEvent(low))
    <3>1. DOMAIN p.script = 1..Len(p.script) /\ Len(p.script) \in Nat
      BY <2>2
    <3>2. TimelineText(p.script) \in [1..Len(p.script) -> EditorEvent(low)]
      BY <2>3, <3>1 DEF TimelineText
    <3>3. QED
      BY <3>1, <3>2
  <2>5. QED
    BY <2>2, <2>4 DEF EditorProcess, p
<1>3. ShownProcs(sc) \in [1..n -> EditorProcess(low)]
  BY <1>1, <1>2 DEF ShownProcs
<1> HIDE DEF n
<1>4. QED
  BY <1>1, <1>3

\* The boxes of a row: what they hold is a number, and one of an int stays one.
LEMMA BoxNumber ==
    ASSUME NEW n \in Int
    PROVE  /\ InBox(n) \in Int
           /\ n \in 0..TimeMost => InBox(n) = n
           /\ n <= TimeMost => (InBox(n) > 0 <=> n > 0)
           /\ n <= 0 => InBox(n) = 0
           /\ n \in MachineInt => InBox(n) \in MachineInt
<1>1. TimeMost \in Nat /\ TimeMost > 0
  BY DEF TimeMost
<1>2. InBox(n) \in {0, n} \/ (InBox(n) = TimeMost /\ TimeMost < n)
  BY DEF InBox
<1>3. n \in MachineInt => InBox(n) \in MachineInt
  <2>1. IntHalf \in Nat /\ IntHalf > 0
    BY IntHalfAssumption
  <2>2. QED
    BY <1>1, <1>2, <2>1 DEF MachineInt
<1>4. QED
  BY <1>1, <1>3 DEF InBox

LEMMA BoxedFields ==
    ASSUME NEW low, NEW p \in EditorProcess(low)
    PROVE  /\ Boxed(p) \in EditorProcess(low)
           /\ Boxed(p) = [arrival |-> InBox(p.arrival), burst |-> InBox(p.burst),
                          events |-> p.events]
<1> PICK a, b : a = InBox(p.arrival) /\ b = InBox(p.burst)
  OBVIOUS
<1>1. a \in Int /\ b \in Int
  BY BoxNumber DEF EditorProcess
<1>2. Boxed(p) = [p EXCEPT !.arrival = a, !.burst = b]
  BY DEF Boxed
<1>3. QED
  BY <1>1, <1>2 DEF EditorProcess

LEMMA ViewedOk ==
    ASSUME NEW low, NEW procs \in Seq(EditorProcess(low))
    PROVE  Viewed(procs) \in Seq(EditorProcess(low))
<1> DEFINE P == EditorProcess(low)
           n == Len(procs)
<1>1. n \in Nat /\ DOMAIN procs = 1..n /\ \A i \in 1..n : procs[i] \in P
  OBVIOUS
<1>2. \A i \in 1..n : (IF i <= InView THEN Boxed(procs[i]) ELSE procs[i]) \in P
  BY <1>1, BoxedFields
<1> HIDE DEF P, n
<1>3. Viewed(procs) \in [1..n -> P]
  BY <1>1, <1>2 DEF Viewed
<1>4. QED
  BY <1>1, <1>3 DEF P

\* A form as it is at the beginning.
LEMMA StartFormOk ==
    ASSUME NEW low, Lows(low)
    PROVE  FormStart \in EditorForm(low) /\ EditorStart.form \in EditorForm(low)
<1>1. DefaultConfig \in SimConfig /\ ReadableConfig(low, BridgeDefaults)
  BY DefaultShape, BridgeConfig
<1>2. /\ BridgeDefaults.service = DefaultConfig.service
      /\ BridgeDefaults.duration = DefaultConfig.duration
  BY <1>1 DEF BridgeDefaults, SimConfig
<1>3. /\ DefaultConfig.num \in [NumKey -> Int] /\ DefaultConfig.mode \in [Device -> IoMode]
      /\ DefaultConfig.duration \in [Device -> Duration]
  BY <1>1 DEF SimConfig
<1>4. DefaultConfig.service \in FormSpan(low) /\ DefaultConfig.duration \in [Device -> FormSpan(low)]
  <2>1. \A d \in Device : DefaultConfig.duration[d] \in FormSpan(low)
    BY <1>1, <1>2, SpansShown DEF ReadableConfig
  <2>2. QED
    BY <1>1, <1>2, <1>3, <2>1, SpansShown DEF ReadableConfig
<1> DEFINE num == [DefaultConfig.num EXCEPT !["arrivalRate"] = 20, !["lambda"] = 50,
                                            !["arrivalInterval"] = 3]
           share == [d \in {"disk", "tape"} |-> IF d = "disk" THEN 34 ELSE 33]
<1>5. num \in [NumKey -> Int] /\ share \in [{"disk", "tape"} -> Int] /\ "batch" \in ArrivalMode
  <2>1. num \in [NumKey -> Int]
    BY <1>3 DEF NumKey
  <2>2. share \in [{"disk", "tape"} -> Int]
    OBVIOUS
  <2> HIDE DEF num, share
  <2>3. QED
    BY <2>1, <2>2 DEF ArrivalMode
<1>6. FormStart = [num |-> num, service |-> DefaultConfig.service,
                   duration |-> DefaultConfig.duration, mode |-> DefaultConfig.mode,
                   arrivalMode |-> "batch", share |-> share]
  BY DEF FormStart
<1> HIDE DEF num, share
<1>7. FormStart \in EditorForm(low)
  BY <1>3, <1>4, <1>5, <1>6 DEF EditorForm
<1>8. EditorStart.form = [FormStart EXCEPT !.num = [FormStart.num EXCEPT !["pIo"] = 20]]
  BY DEF EditorStart
<1>9. [FormStart.num EXCEPT !["pIo"] = 20] \in [NumKey -> Int]
  <2>1. FormStart.num \in [NumKey -> Int]
    BY <1>7 DEF EditorForm
  <2>2. QED
    BY <2>1 DEF NumKey
<1>10. EditorStart.form \in EditorForm(low)
  BY <1>7, <1>8, <1>9 DEF EditorForm
<1>11. QED
  BY <1>7, <1>10

LEMMA EditorStartOk ==
    ASSUME NEW low, Lows(low)
    PROVE  EditorOk(low, EditorStart) /\ ~EditorStart.open /\ ~EditorStart.dialog
<1>1. EditorStart.form \in EditorForm(low)
  BY StartFormOk
<1>2. PICK f : f = EditorStart.form
  OBVIOUS
<1>3. EditorStart = [open |-> FALSE, form |-> f, procs |-> <<>>, path |-> "",
                     valid |-> TRUE, pendingUse |-> FALSE, dialog |-> FALSE]
  BY <1>2 DEF EditorStart
<1>4. DOMAIN EditorStart = EditorFields
  BY <1>3 DEF EditorFields
<1>5. EditorStart.procs = <<>> /\ EditorStart.path = "" /\ ~EditorStart.open /\ ~EditorStart.dialog
  BY <1>3
<1>6. <<>> \in Seq(EditorProcess(low))
  OBVIOUS
<1>7. QED
  BY <1>1, <1>4, <1>5, <1>6, Zenon DEF EditorOk

\* A file, if there is one, that the parser can make sense of, whatever it says.
FileFits(low, file) == file.exists => FittingLines(low, file.lines)

LEMMA FitsLegible ==
    ASSUME NEW low, NEW lines, FittingLines(low, lines)
    PROVE  LegibleLines(lines)
BY DEF FittingLines, Fits, LegibleLines

\* What a summary is.
LEMMA SummaryType ==
    ASSUME NEW low, Lows(low), NEW file, FileFits(low, file)
    PROVE  Summarize(file) \in Scenario /\ Readable(low, Summarize(file))
<1> DEFINE B == BridgeDefaults
<1>1. B \in SimConfig /\ ReadableConfig(low, B)
  BY BridgeConfig
<1> HIDE DEF B
<1>2. CASE file.exists
  <2>1. FittingLines(low, file.lines) /\ LegibleLines(file.lines)
    BY <1>2, FitsLegible DEF FileFits
  <2>2. ParseLines(file.lines, B) \in Scenario /\ Readable(low, ParseLines(file.lines, B))
    BY <1>1, <2>1, ParseType, ParseReadable
  <2>3. QED
    BY <1>2, <2>2 DEF Summarize, ParseFile, B
<1>3. CASE ~file.exists
  <2> DEFINE sc == Parsed(FALSE, B, <<>>)
  <2>1. sc \in Scenario /\ sc.cfg = B /\ sc.procs = <<>>
    BY <1>1 DEF Parsed, Scenario
  <2>2. Summarize(file) = sc
    BY <1>3 DEF Summarize, ParseFile, B
  <2> HIDE DEF sc
  <2>3. QED
    BY <1>1, <2>1, <2>2 DEF Readable
<1>4. QED
  BY <1>2, <1>3

LEMMA RevalidatedOk ==
    ASSUME NEW low, NEW e, EditorOk(low, e)
    PROVE  /\ EditorOk(low, Revalidated(e))
           /\ Revalidated(e).open = e.open /\ Revalidated(e).dialog = e.dialog
           /\ Revalidated(e).form = e.form /\ Revalidated(e).procs = e.procs
           /\ Revalidated(e).valid = ParseLines(ToScn(Revalidated(e)), BridgeDefaults).ok
<1> DEFINE v == ParseLines(ToScn(e), BridgeDefaults).ok
           r == Revalidated(e)
<1>1. r = [e EXCEPT !.valid = v]
  BY DEF Revalidated
<1> HIDE DEF v, r
<1>2. /\ DOMAIN r = EditorFields /\ r.valid = v
      /\ \A k \in EditorFields : k # "valid" => r[k] = e[k]
  BY <1>1 DEF EditorOk, EditorFields
<1>3. /\ r.open = e.open /\ r.dialog = e.dialog /\ r.form = e.form /\ r.procs = e.procs
      /\ r.path = e.path
  BY <1>2 DEF EditorFields
<1>4. ToScn(r) = ToScn(e)
  BY <1>3, TextOf
<1>5. EditorOk(low, r)
  BY <1>2, <1>3 DEF EditorOk
<1>6. QED
  BY <1>2, <1>3, <1>4, <1>5 DEF r, v

\* openWith, of a file or of none.
Loaded(e, path) ==
    [e EXCEPT !.path = path, !.form = FormOf(Summarize(files[path]), e.form),
              !.procs = Viewed(ShownProcs(Summarize(files[path])))]
Blank(e) == [EditorStart EXCEPT !.pendingUse = e.pendingUse]

LEMMA OpenedOk ==
    ASSUME NEW low, Lows(low), NEW e, EditorOk(low, e), NEW path \in Path \cup {""},
           path \in Path => FileFits(low, files[path])
    PROVE  LET r == OpenWith(e, path)
           IN  /\ EditorOk(low, r)
               /\ r.valid = ParseLines(ToScn(r), BridgeDefaults).ok
               /\ (r.dialog => e.dialog)
<1> DEFINE r == OpenWith(e, path)
           a == Loaded(e, path)
           b == Blank(e)
           sc == Summarize(files[path])
<1>1. r = Revalidated(IF path # "" /\ sc.ok THEN a ELSE b)
  BY DEF OpenWith, Loaded, Blank, ShownProcs
<1>2. EditorOk(low, b) /\ ~b.dialog
  <2>1. EditorOk(low, EditorStart) /\ ~EditorStart.dialog
    BY EditorStartOk
  <2>2. PICK s : s = EditorStart
    OBVIOUS
  <2>3. b = [s EXCEPT !.pendingUse = e.pendingUse]
    BY <2>2 DEF Blank
  <2>4. EditorOk(low, s) /\ ~s.dialog
    BY <2>1, <2>2
  <2> HIDE DEF b
  <2>5. /\ DOMAIN b = EditorFields /\ b.form = s.form /\ b.procs = s.procs /\ b.path = s.path
        /\ b.dialog = s.dialog
    BY <2>3, <2>4 DEF EditorOk, EditorFields
  <2>6. QED
    BY <2>4, <2>5 DEF EditorOk
<1>3. path # "" => EditorOk(low, a) /\ a.dialog = e.dialog
  <2> SUFFICES ASSUME path # "" PROVE EditorOk(low, a) /\ a.dialog = e.dialog
    OBVIOUS
  <2>1. sc \in Scenario /\ Readable(low, sc)
    BY SummaryType
  <2> DEFINE f == FormOf(sc, e.form)
             q == Viewed(ShownProcs(sc))
  <2>2. f \in EditorForm(low) /\ q \in Seq(EditorProcess(low))
    BY <2>1, FormOfOk, ShownProcsOk, ViewedOk DEF EditorOk
  <2>3. a = [e EXCEPT !.path = path, !.form = f, !.procs = q]
    BY DEF Loaded
  <2> HIDE DEF a, f, q
  <2>4. /\ DOMAIN a = EditorFields /\ a.form = f /\ a.procs = q /\ a.path = path
        /\ a.dialog = e.dialog
    BY <2>3 DEF EditorOk, EditorFields
  <2>5. QED
    BY <2>2, <2>4 DEF EditorOk
<1> HIDE DEF r, a, b, sc
<1>4. PICK d : d = (IF path # "" /\ sc.ok THEN a ELSE b)
  OBVIOUS
<1>5. EditorOk(low, d) /\ (d.dialog => e.dialog)
  <2>1. CASE path # "" /\ sc.ok
    BY <1>3, <1>4, <2>1
  <2>2. CASE ~(path # "" /\ sc.ok)
    BY <1>2, <1>4, <2>2
  <2>3. QED
    BY <2>1, <2>2
<1>6. r = Revalidated(d)
  BY <1>1, <1>4
<1>7. QED
  BY <1>5, <1>6, RevalidatedOk DEF r

-----------------------------------------------------------------------------
(* Changes in the editor keep its type.                                    *)

LEMMA RangeOfInts == \A a, b : \A n \in a..b : n \in Int
OBVIOUS

LEMMA ProcChanged ==
    ASSUME NEW low, Timelines \subseteq Seq(EditorEvent(low)),
           NEW p \in EditorProcess(low), NEW q \in ChangedProc(p)
    PROVE  q \in EditorProcess(low)
<1>1. \/ \E n \in Tried \cap (0..TimeMost) : q = [p EXCEPT !.arrival = n]
      \/ \E n \in Tried \cap (0..TimeMost) : q = [p EXCEPT !.burst = n]
      \/ \E t \in Timelines : q = [p EXCEPT !.events = t]
  BY Zenon DEF ChangedProc
<1>2. \A n \in Tried \cap (0..TimeMost) : n \in Int
  BY RangeOfInts, Zenon
<1>3. \A n \in Int : /\ [p EXCEPT !.arrival = n] \in EditorProcess(low)
                     /\ [p EXCEPT !.burst = n] \in EditorProcess(low)
  BY DEF EditorProcess
<1>4. \A t \in Seq(EditorEvent(low)) : [p EXCEPT !.events = t] \in EditorProcess(low)
  BY DEF EditorProcess
<1>5. QED
  BY <1>1, <1>2, <1>3, <1>4, Zenon

LEMMA ProcsChanged ==
    ASSUME NEW low, Timelines \subseteq Seq(EditorEvent(low)),
           NEW procs \in Seq(EditorProcess(low)), NEW q \in ChangedProcs(procs)
    PROVE  q \in Seq(EditorProcess(low))
<1> DEFINE P == EditorProcess(low)
<1>1. \/ q = Append(procs, [arrival |-> 0, burst |-> 10, events |-> <<>>])
      \/ \E i \in DOMAIN procs : q = Viewed(RemoveAt(procs, i))
      \/ \E i \in DOMAIN procs :
            \E p \in ChangedProc(Boxed(procs[i])) : q = [procs EXCEPT ![i] = p]
  BY Zenon DEF ChangedProcs
<1>2. CASE q = Append(procs, [arrival |-> 0, burst |-> 10, events |-> <<>>])
  <2>1. <<>> \in Seq(EditorEvent(low))
    OBVIOUS
  <2>2. [arrival |-> 0, burst |-> 10, events |-> <<>>] \in P
    BY <2>1 DEF EditorProcess
  <2> HIDE DEF P
  <2>3. QED
    BY <1>2, <2>2 DEF P
<1>3. CASE \E i \in DOMAIN procs : q = Viewed(RemoveAt(procs, i))
  <2>1. PICK i \in DOMAIN procs : q = Viewed(RemoveAt(procs, i))
    BY <1>3
  <2>2. i \in 1..Len(procs) /\ Len(procs) \in Nat
    OBVIOUS
  <2> HIDE DEF P
  <2>3. SubSeq(procs, 1, i - 1) \in Seq(P) /\ SubSeq(procs, i + 1, Len(procs)) \in Seq(P)
    BY <2>2 DEF P
  <2>4. RemoveAt(procs, i) \in Seq(P)
    BY <2>3 DEF RemoveAt, P
  <2>5. QED
    BY <2>1, <2>4, ViewedOk DEF P
<1>4. CASE \E i \in DOMAIN procs :
              \E p \in ChangedProc(Boxed(procs[i])) : q = [procs EXCEPT ![i] = p]
  <2>1. PICK i \in DOMAIN procs :
            \E p \in ChangedProc(Boxed(procs[i])) : q = [procs EXCEPT ![i] = p]
    BY <1>4
  <2>2. PICK p \in ChangedProc(Boxed(procs[i])) : q = [procs EXCEPT ![i] = p]
    BY <2>1
  <2>5. Boxed(procs[i]) \in EditorProcess(low)
    BY BoxedFields
  <2>3. p \in P
    BY <2>5, ProcChanged
  <2> HIDE DEF P
  <2>4. QED
    BY <2>2, <2>3 DEF P
<1>5. QED
  BY <1>1, <1>2, <1>3, <1>4

LEMMA EditorFormFields ==
    ASSUME NEW low, NEW g \in EditorForm(low)
    PROVE  /\ \A s \in [NumKey -> Int] : [g EXCEPT !.num = s] \in EditorForm(low)
           /\ \A s \in FormSpan(low) : [g EXCEPT !.service = s] \in EditorForm(low)
           /\ \A s \in [Device -> FormSpan(low)] : [g EXCEPT !.duration = s] \in EditorForm(low)
           /\ \A s \in [Device -> IoMode] : [g EXCEPT !.mode = s] \in EditorForm(low)
           /\ \A s \in [{"disk", "tape"} -> Int] : [g EXCEPT !.share = s] \in EditorForm(low)
<1> DEFINE boxes == [Device -> FormSpan(low)]
           box == FormSpan(low)
           nums == [NumKey -> Int]
           shares == [{"disk", "tape"} -> Int]
           modes == [Device -> IoMode]
<1>1. EditorForm(low) = [num : nums, service : box, duration : boxes, mode : modes,
                         arrivalMode : ArrivalMode, share : shares]
  BY Zenon DEF EditorForm
<1> HIDE DEF box, boxes, nums, shares, modes
<1>2. \A s \in nums : [g EXCEPT !.num = s] \in EditorForm(low)
  BY <1>1
<1>3. \A s \in box : [g EXCEPT !.service = s] \in EditorForm(low)
  BY <1>1
<1>4. \A s \in boxes : [g EXCEPT !.duration = s] \in EditorForm(low)
  BY <1>1
<1>5. \A s \in modes : [g EXCEPT !.mode = s] \in EditorForm(low)
  BY <1>1
<1>6. \A s \in shares : [g EXCEPT !.share = s] \in EditorForm(low)
  BY <1>1
<1>7. QED
  BY <1>2, <1>3, <1>4, <1>5, <1>6, Zenon DEF box, boxes, nums, shares, modes

LEMMA EditorFormEdited ==
    ASSUME NEW low, Lows(low), NEW g \in EditorForm(low), NEW f \in Changed(g, 50)
    PROVE  f \in EditorForm(low)
<1> DEFINE F == EditorForm(low)
           one == 1..100
           box == FormSpan(low)
<1>1. /\ g.num \in [NumKey -> Int] /\ g.service \in box /\ g.duration \in [Device -> box]
      /\ g.mode \in [Device -> IoMode] /\ g.share \in [{"disk", "tape"} -> Int]
      /\ g = [num |-> g.num, service |-> g.service, duration |-> g.duration, mode |-> g.mode,
              arrivalMode |-> g.arrivalMode, share |-> g.share]
  BY DEF EditorForm
<1>2. /\ \A s \in [NumKey -> Int] : [g EXCEPT !.num = s] \in F
      /\ \A s \in box : [g EXCEPT !.service = s] \in F
      /\ \A s \in [Device -> box] : [g EXCEPT !.duration = s] \in F
      /\ \A s \in [Device -> IoMode] : [g EXCEPT !.mode = s] \in F
      /\ \A s \in [{"disk", "tape"} -> Int] : [g EXCEPT !.share = s] \in F
  BY EditorFormFields, Zenon
<1>3. \A n \in one : n \in low /\ n \in Int
  <2>1. \A n \in 1..100 : n \in MachineInt /\ n \in Int
    BY IntHalfAssumption DEF MachineInt
  <2>2. QED
    BY <2>1 DEF Lows
<1>4. \A s \in box : /\ \A n \in one : [s EXCEPT !.min = n] \in box
                     /\ \A n \in Int : [s EXCEPT !.max = n] \in box
  BY <1>3 DEF FormSpan
<1> HIDE DEF F, one, box
<1>5. ASSUME NEW k \in NumKey, NEW n \in Int, f = [g EXCEPT !.num[k] = n] PROVE f \in F
  <2>1. f = [g EXCEPT !.num = [g.num EXCEPT ![k] = n]]
    BY <1>1, <1>5
  <2>2. [g.num EXCEPT ![k] = n] \in [NumKey -> Int]
    BY <1>1
  <2>3. QED
    BY <1>2, <2>1, <2>2
<1>6. ASSUME NEW k \in NumKey, NEW a, NEW b, f \in WithNum(g, k, a..b) PROVE f \in F
  <2>1. \E n \in a..b : f = [g EXCEPT !.num[k] = n]
    BY <1>6, Zenon DEF WithNum
  <2>2. \E n \in Int : f = [g EXCEPT !.num[k] = n]
    BY <2>1, RangeOfInts, Zenon
  <2>3. QED
    BY <1>5, <2>2
<1>7. ASSUME f \in WithSpans(g) PROVE f \in F
  <2>1. \/ \E n \in one : f = [g EXCEPT !.service.min = n]
        \/ \E n \in Int : f = [g EXCEPT !.service.max = n]
        \/ \E d \in Device : \E n \in one : f = [g EXCEPT !.duration[d].min = n]
        \/ \E d \in Device : \E n \in Int : f = [g EXCEPT !.duration[d].max = n]
    <3>1. \/ \E n \in one : f = [g EXCEPT !.service.min = n]
          \/ \E n \in g.service.min..100 : f = [g EXCEPT !.service.max = n]
          \/ \E d \in Device : f \in WithDuration(g, d)
      BY <1>7, Zenon DEF WithSpans, one
    <3>2. ASSUME NEW d \in Device, f \in WithDuration(g, d)
          PROVE  \/ \E n \in one : f = [g EXCEPT !.duration[d].min = n]
                 \/ \E n \in g.duration[d].min..100 : f = [g EXCEPT !.duration[d].max = n]
      BY <3>2, Zenon DEF WithDuration, one
    <3>3. QED
      BY <3>1, <3>2, RangeOfInts, Zenon
  <2>2. CASE \/ \E n \in one : f = [g EXCEPT !.service.min = n]
             \/ \E n \in Int : f = [g EXCEPT !.service.max = n]
    <3>1. \/ \E n \in one : f = [g EXCEPT !.service = [g.service EXCEPT !.min = n]]
          \/ \E n \in Int : f = [g EXCEPT !.service = [g.service EXCEPT !.max = n]]
      BY <1>1, <2>2
    <3>2. \E s \in box : f = [g EXCEPT !.service = s]
      BY <1>1, <1>4, <3>1, Zenon
    <3>3. QED
      BY <1>2, <3>2
  <2>3. ASSUME NEW d \in Device, NEW s \in box,
               f = [g EXCEPT !.duration = [g.duration EXCEPT ![d] = s]]
        PROVE  f \in F
    <3>1. [g.duration EXCEPT ![d] = s] \in [Device -> box]
      BY <1>1
    <3>2. QED
      BY <1>2, <2>3, <3>1
  <2>4. CASE \E d \in Device : \E n \in one : f = [g EXCEPT !.duration[d].min = n]
    <3>1. PICK d \in Device, n \in one : f = [g EXCEPT !.duration[d].min = n]
      BY <2>4
    <3>2. f = [g EXCEPT !.duration = [g.duration EXCEPT ![d] = [g.duration[d] EXCEPT !.min = n]]]
      BY <1>1, <3>1
    <3>3. [g.duration[d] EXCEPT !.min = n] \in box
      BY <1>1, <1>4
    <3>4. QED
      BY <2>3, <3>2, <3>3
  <2>5. CASE \E d \in Device : \E n \in Int : f = [g EXCEPT !.duration[d].max = n]
    <3>1. PICK d \in Device, n \in Int : f = [g EXCEPT !.duration[d].max = n]
      BY <2>5
    <3>2. f = [g EXCEPT !.duration = [g.duration EXCEPT ![d] = [g.duration[d] EXCEPT !.max = n]]]
      BY <1>1, <3>1
    <3>3. [g.duration[d] EXCEPT !.max = n] \in box
      BY <1>1, <1>4
    <3>4. QED
      BY <2>3, <3>2, <3>3
  <2>6. QED
    BY <2>1, <2>2, <2>4, <2>5
<1>8. ASSUME f \in WithModes(g) PROVE f \in F
  <2>1. PICK d \in Device, m \in IoMode : f = [g EXCEPT !.mode[d] = m]
    BY <1>8 DEF WithModes
  <2>2. f = [g EXCEPT !.mode = [g.mode EXCEPT ![d] = m]]
    BY <1>1, <2>1
  <2>3. [g.mode EXCEPT ![d] = m] \in [Device -> IoMode]
    BY <1>1
  <2>4. QED
    BY <1>2, <2>2, <2>3
<1>9. ASSUME f \in WithShares(g) PROVE f \in F
  <2>1. PICK d \in {"disk", "tape"}, n \in Int : f = [g EXCEPT !.share[d] = n]
    <3>1. \/ \E n \in 0..100 : f = [g EXCEPT !.share["disk"] = n]
          \/ \E n \in 0..(100 - g.share["disk"]) : f = [g EXCEPT !.share["tape"] = n]
      BY <1>9 DEF WithShares
    <3>2. \/ \E n \in Int : f = [g EXCEPT !.share["disk"] = n]
          \/ \E n \in Int : f = [g EXCEPT !.share["tape"] = n]
      BY <3>1, RangeOfInts, Zenon
    <3>3. QED
      BY <3>2
  <2>2. f = [g EXCEPT !.share = [g.share EXCEPT ![d] = n]]
    BY <1>1, <2>1
  <2>3. [g.share EXCEPT ![d] = n] \in [{"disk", "tape"} -> Int]
    BY <1>1
  <2>4. QED
    BY <1>2, <2>2, <2>3
<1>10. \A k \in {"processCount", "quantumHi", "quantumLo", "pIo", "seed"} : k \in NumKey
  BY DEF NumKey
<1>11. \/ f \in WithNum(g, "processCount", 1..50) \/ f \in WithNum(g, "quantumHi", 1..50)
       \/ f \in WithNum(g, "quantumLo", 1..50) \/ f \in WithNum(g, "pIo", 0..100)
       \/ f \in WithNum(g, "seed", 0..SeedMost)
       \/ f \in WithSpans(g) \/ f \in WithModes(g) \/ f \in WithShares(g)
  BY Zenon DEF Changed
<1>12. \E k \in NumKey : \E a, b : f \in WithNum(g, k, a..b)
       \/ f \in WithSpans(g) \/ f \in WithModes(g) \/ f \in WithShares(g)
  BY <1>10, <1>11, Zenon
<1>13. QED
  BY <1>6, <1>7, <1>8, <1>9, <1>12, Zenon DEF F

-----------------------------------------------------------------------------
(* The launch of a file.                                                   *)

FileArg(p) == Option("file", p, Num(0))

\* The parser that has taken the file.
FileTaken(s, p) ==
    /\ s \in ParserState
    /\ s.error = 0 /\ s.explicit = {} /\ ~s.rateSet
    /\ s.cfg.scenario = p /\ s.cfg.emit = FALSE /\ s.cfg.arrivalMode = "batch"
    /\ s.cfg.num = DefaultConfig.num /\ s.cfg.duration = DefaultConfig.duration

LaunchedFile(p) ==
    /\ p \in Path /\ SummaryOk(p, files)
    /\ phase \in {"idle", "parsing", "configured", "spawning", "running"}
    /\ phase = "parsing" =>
          \/ argv = <<FileArg(p), ServeArg>> /\ ps = ParserStart
          \/ argv \in {<<ServeArg>>, <<>>} /\ FileTaken(ps, p)
    /\ phase = "configured" =>
          ps.cfg \in SimConfig /\ ps.cfg.scenario = p /\ ps.cfg.emit = FALSE

LEMMA FileTakes ==
    ASSUME NEW p \in Path
    PROVE  FileTaken(Take(ParserStart, FileArg(p)), p)
<1> DEFINE s == ParserStart
           c == [DefaultConfig EXCEPT !.scenario = p]
           t == Take(s, FileArg(p))
<1>1. s \in ParserState /\ s.cfg = DefaultConfig /\ s.explicit = {} /\ ~s.rateSet /\ s.error = 0
  BY StartShape DEF ParserStart
<1>2. FileArg(p).opt = "file" /\ FileArg(p).key = p
  BY DEF FileArg, Option
<1>3. DefaultConfig.scenario = "" /\ DefaultConfig.emit = FALSE /\ DefaultConfig.arrivalMode = "batch"
  BY DEF DefaultConfig
<1>4. t = [s EXCEPT !.cfg.scenario = p]
  BY <1>1, <1>2, <1>3 DEF Take, TakeFile
<1>5. t = [s EXCEPT !.cfg = c]
  BY <1>1, <1>4
<1>6. DefaultConfig \in SimConfig
  BY DefaultShape
<1>7. c \in SimConfig
  BY <1>6 DEF SimConfig
<1>8. /\ c.scenario = p /\ c.emit = FALSE /\ c.arrivalMode = "batch"
      /\ c.num = DefaultConfig.num /\ c.duration = DefaultConfig.duration
  BY <1>3, <1>6 DEF SimConfig
<1> HIDE DEF s, c, t
<1>9. /\ t \in ParserState /\ t.cfg = c /\ t.explicit = {} /\ ~t.rateSet /\ t.error = 0
  BY <1>1, <1>5, <1>7 DEF ParserState
<1>10. QED
  BY <1>8, <1>9 DEF FileTaken, s, t

LEMMA PortTakes ==
    ASSUME NEW p, NEW s, FileTaken(s, p)
    PROVE  FileTaken(Take(s, ServeArg), p)
<1> DEFINE c == [s.cfg EXCEPT !.port = 1]
           t == Take(s, ServeArg)
<1>1. s \in ParserState /\ s.cfg \in SimConfig
  BY DEF FileTaken, ParserState
<1>2. ServeArg.opt = "serve" /\ ServeArg.key = "=" /\ ServeArg.text = Num(1)
  BY DEF ServeArg, Option
<1>3. Strict(Num(1)) /\ Num(1).lo = 1
  BY NumberRead
<1>4. AsInt(1) = 1 /\ IsPort(1)
  BY IntHalfAssumption DEF AsInt, IsPort
<1>5. t = [s EXCEPT !.cfg.port = 1]
  BY <1>2, <1>3, <1>4 DEF Take, TakeServe
<1>6. t = [s EXCEPT !.cfg = c]
  BY <1>1, <1>5 DEF ParserState
<1>7. c \in SimConfig
  <2>1. \A n \in Int : [s.cfg EXCEPT !.port = n] \in SimConfig
    BY <1>1 DEF SimConfig
  <2>2. QED
    BY <2>1
<1>8. /\ c.scenario = s.cfg.scenario /\ c.emit = s.cfg.emit /\ c.arrivalMode = s.cfg.arrivalMode
      /\ c.num = s.cfg.num /\ c.duration = s.cfg.duration
  BY <1>1 DEF SimConfig
<1> HIDE DEF c, t
<1>9. /\ t \in ParserState /\ t.cfg = c /\ t.explicit = s.explicit /\ t.rateSet = s.rateSet
      /\ t.error = s.error
  BY <1>1, <1>6, <1>7 DEF ParserState
<1>10. QED
  BY <1>8, <1>9 DEF FileTaken, t

LEMMA FileValidated ==
    ASSUME NEW p, NEW s, FileTaken(s, p)
    PROVE  LET t == Validate(s)
           IN  t.error = 0 /\ t.cfg \in SimConfig /\ t.cfg.scenario = p /\ t.cfg.emit = FALSE
<1> DEFINE t == Validate(s)
<1>1. s \in ParserState /\ s.cfg \in SimConfig
  BY DEF FileTaken, ParserState
<1>2. Acceptable(s)
  <2>1. /\ s.cfg.num["quantumHi"] = 3 /\ s.cfg.num["quantumLo"] = 6 /\ s.cfg.num["pIo"] = 0
    BY DEF FileTaken, DefaultConfig, NumKey
  <2>2. \A d \in Device : s.cfg.duration[d] \in {Span(5, 5), Span(8, 8), Span(12, 12)}
    BY DEF FileTaken, DefaultConfig
  <2>3. \A d \in Device : s.cfg.duration[d].min <= s.cfg.duration[d].max
                          /\ s.cfg.duration[d].min >= 1
    <3>1. \A n \in {5, 8, 12} : Span(n, n).min = n /\ Span(n, n).max = n /\ n <= n /\ n >= 1
      BY DEF Span
    <3>2. QED
      BY <2>2, <3>1
  <2>4. EffectiveMode(s) = "batch"
    BY DEF EffectiveMode, FileTaken
  <2>5. SharesFit(s)
    BY DEF SharesFit, FileTaken, Device
  <2>6. ModeHasParameter(EffectiveMode(s), s.cfg.num)
    BY <2>4 DEF ModeHasParameter
  <2>7. 0 \in 0..100
    OBVIOUS
  <2>8. QED
    BY <2>1, <2>3, <2>5, <2>6, <2>7 DEF Acceptable, FileTaken
<1>3. FilledShares(s) \in [Device -> Int]
  BY <1>1, FilledType
<1>4. EffectiveMode(s) \in ArrivalMode
  BY <1>1 DEF EffectiveMode, ArrivalMode, SimConfig
<1> DEFINE c == [s.cfg EXCEPT !.share = FilledShares(s), !.arrivalMode = EffectiveMode(s)]
<1>5. t = [s EXCEPT !.cfg = c]
  BY <1>1, <1>2 DEF Validate, ParserState
<1>6. c \in SimConfig /\ c.scenario = s.cfg.scenario /\ c.emit = s.cfg.emit
  BY <1>1, <1>3, <1>4 DEF SimConfig
<1> HIDE DEF c, t
<1>7. t.error = s.error /\ t.cfg = c
  BY <1>1, <1>5 DEF ParserState
<1>8. QED
  BY <1>6, <1>7 DEF FileTaken, t

\* The program reads the file as the overlay did.
LEMMA FileAccepted ==
    ASSUME NEW file, file.exists => LegibleLines(file.lines), Summarize(file).ok,
           NEW c \in SimConfig
    PROVE  LoadScenario(file, c).ok /\ LoadScenario(file, c).cfg.emit = c.emit
<1>1. file.exists
  BY DEF Summarize, ParseFile, Parsed
<1>2. ParseFile(file, BridgeDefaults) = ParseLines(file.lines, BridgeDefaults)
      /\ ParseFile(file, c) = ParseLines(file.lines, c)
  BY <1>1 DEF ParseFile
<1>3. BridgeDefaults \in SimConfig
  BY BridgeConfig
<1>4. ParseFile(file, c).ok
  BY <1>1, <1>2, <1>3, ParseSameProcesses DEF SameProcesses, Summarize
<1>5. ParseFile(file, c) \in Scenario
  BY <1>1, <1>2, ParseType
<1> DEFINE sc == ParseFile(file, c)
           r == LoadScenario(file, c)
<1>6. r.ok = sc.ok
  <2>1. r = IF sc.procs = <<>> THEN sc ELSE [sc EXCEPT !.cfg.num["processCount"] = Len(sc.procs)]
    BY DEF LoadScenario
  <2> HIDE DEF r, sc
  <2>2. QED
    BY <1>5, <2>1 DEF Scenario, sc
<1>7. r.cfg.emit = c.emit
  BY LoadType DEF OptionsKept
<1>8. QED
  BY <1>4, <1>6, <1>7

LEMMA ProgramKeepsFile ==
    ASSUME NEW p, LaunchedFile(p), files[p].exists => LegibleLines(files[p].lines),
           [Program]_startVars
    PROVE  LaunchedFile(p)'
<1>1. p \in Path /\ SummaryOk(p, files)
  BY DEF LaunchedFile
<1>2. files' = files
  BY DEF startVars, Program, TakeOption, Refused, OptionsTaken, Configure, SpawnSome, Run
<1>3. CASE TakeOption
  <2>1. /\ phase = "parsing" /\ argv # <<>> /\ ps' = Take(ps, Head(argv)) /\ argv' = Tail(argv)
        /\ phase' = phase
    BY <1>3 DEF TakeOption
  <2>2. CASE argv = <<FileArg(p), ServeArg>> /\ ps = ParserStart
    <3>1. Head(argv) = FileArg(p) /\ Tail(argv) = <<ServeArg>>
      BY <2>2
    <3>2. FileTaken(ps', p) /\ argv' = <<ServeArg>>
      BY <1>1, <2>1, <2>2, <3>1, FileTakes
    <3>3. QED
      BY <1>1, <1>2, <2>1, <3>2 DEF LaunchedFile
  <2>3. CASE argv = <<ServeArg>> /\ FileTaken(ps, p)
    <3>1. Head(argv) = ServeArg /\ Tail(argv) = <<>>
      BY <2>3
    <3>2. FileTaken(ps', p) /\ argv' = <<>>
      BY <2>1, <2>3, <3>1, PortTakes
    <3>3. QED
      BY <1>1, <1>2, <2>1, <3>2 DEF LaunchedFile
  <2>4. QED
    BY <2>1, <2>2, <2>3 DEF LaunchedFile
<1>4. CASE Refused
  <2>1. ps.error # 0 /\ phase = "parsing"
    BY <1>4 DEF Refused
  <2>2. ParserStart.error = 0
    BY DEF ParserStart
  <2>3. QED
    BY <2>1, <2>2 DEF LaunchedFile, FileTaken
<1>5. CASE OptionsTaken
  <2>1. /\ phase = "parsing" /\ argv = <<>> /\ ps' = Validate(ps)
        /\ phase' = IF ps'.error = 0 THEN "configured" ELSE "usage"
    BY <1>5 DEF OptionsTaken
  <2>2. <<>> # <<FileArg(p), ServeArg>>
    OBVIOUS
  <2>3. FileTaken(ps, p)
    BY <2>1, <2>2 DEF LaunchedFile
  <2>4. ps'.error = 0 /\ ps'.cfg \in SimConfig /\ ps'.cfg.scenario = p /\ ps'.cfg.emit = FALSE
    BY <2>1, <2>3, FileValidated
  <2>5. QED
    BY <1>1, <1>2, <2>1, <2>4 DEF LaunchedFile
<1>6. CASE Configure
  <2>1. phase = "configured" /\ ps.cfg \in SimConfig /\ ps.cfg.scenario = p /\ ps.cfg.emit = FALSE
    BY <1>6 DEF Configure, LaunchedFile
  <2>2. p # "" /\ Summarize(files[p]).ok
    BY <1>1 DEF SummaryOk
  <2> DEFINE sc == LoadScenario(files[p], ps.cfg)
  <2>3. sc.ok /\ sc.cfg.emit = FALSE
    BY <2>1, <2>2, FileAccepted
  <2>4. IF sc.ok THEN phase' \in {"spawning"} \cup (IF sc.cfg.emit THEN {"failed"} ELSE {})
        ELSE phase' = "failed"
    BY <1>6, <2>1, <2>2 DEF Configure
  <2> HIDE DEF sc
  <2>5. phase' = "spawning"
    BY <2>3, <2>4
  <2>6. QED
    BY <1>1, <1>2, <2>5 DEF LaunchedFile
<1>7. CASE SpawnSome \/ Run
  <2>1. phase' \in {"spawning", "running"}
    BY <1>7 DEF SpawnSome, Run
  <2>2. QED
    BY <1>1, <1>2, <2>1 DEF LaunchedFile
<1>8. CASE UNCHANGED startVars
  BY <1>1, <1>2, <1>8 DEF LaunchedFile, startVars, progVars
<1>9. QED
  BY <1>3, <1>4, <1>5, <1>6, <1>7, <1>8 DEF Program

-----------------------------------------------------------------------------
(* The invariant: what the overlay takes for a good file is one and stays  *)
(* one, since the editor only writes what it found valid.                  *)

FilesFit(low, fs) == DOMAIN fs = Path /\ \A p \in Path : FileFits(low, fs[p])

EditorInv(low) ==
    /\ EditorOk(low, editor)
    /\ editor.open => /\ phase = "idle"
                      /\ editor.valid = ParseLines(ToScn(editor), BridgeDefaults).ok
    /\ editor.dialog => editor.open /\ editor.valid

PickOk(o, fs) ==
    /\ DOMAIN o = {"mode", "form", "path", "summaryOk"}
    /\ o.path \in Path \cup {""}
    /\ o.summaryOk => SummaryOk(o.path, fs)

LaunchInv ==
    \/ lastParams = NoParams
    \/ lastParams.mode = "random"
    \/ lastParams.mode = "scenario" /\ LaunchedFile(lastParams.path)

FileInv(low) ==
    FilesFit(low, files) /\ EditorInv(low) /\ PickOk(overlay, files) /\ LaunchInv

\* What user and disk start from, as far as low tells texts apart.
TextsFit(low) ==
    /\ \A fs \in FileSystems : FilesFit(low, fs)
    /\ Timelines \subseteq Seq(EditorEvent(low))

LEMMA InitFiles ==
    ASSUME NEW low, Lows(low), TextsFit(low), ScreenInit
    PROVE  FileInv(low)
<1>1. /\ files \in FileSystems
      /\ overlay = [mode |-> "random", form |-> FormStart, path |-> "", summaryOk |-> FALSE]
      /\ editor = EditorStart /\ lastParams = NoParams
  BY DEF ScreenInit, NoUser
<1>2. FilesFit(low, files)
  BY <1>1 DEF TextsFit
<1>3. EditorInv(low)
  BY <1>1, EditorStartOk DEF EditorInv
<1>4. PickOk(overlay, files)
  BY <1>1 DEF PickOk
<1>5. QED
  BY <1>1, <1>2, <1>3, <1>4 DEF FileInv, LaunchInv

LEMMA FileInvImplies == ASSUME NEW low, FileInv(low) PROVE ScenarioLaunches
<1>1. ASSUME lastParams.mode = "scenario" PROVE LaunchedFile(lastParams.path)
  BY <1>1 DEF FileInv, LaunchInv, NoParams
<1>2. QED
  BY <1>1 DEF ScenarioLaunches, LaunchedFile

\* A file picked, with a look at it.
LEMMA PickedOk ==
    ASSUME NEW fs, PickOk(overlay, fs), NEW path \in Path \cup {""}, NEW gs
    PROVE  PickOk(WithScenario(path, gs), gs)
BY DEF PickOk, WithScenario

\* Whatever leaves files and program alone.
LEMMA LaunchKept ==
    ASSUME LaunchInv, lastParams' = lastParams, UNCHANGED startVars
    PROVE  LaunchInv'
<1>1. \A p : LaunchedFile(p)' = LaunchedFile(p)
  BY DEF LaunchedFile, startVars, progVars
<1>2. QED
  BY <1>1 DEF LaunchInv

\* What is written is what was found valid, and no other file changes.
LEMMA SavedOk ==
    ASSUME NEW low, Lows(low), FilesFit(low, files), EditorInv(low), editor.open, editor.valid,
           NEW path \in Path, files' = [files EXCEPT ![path] = FileOf(ToScn(editor))]
    PROVE  /\ FilesFit(low, files')
           /\ \A p \in Path : SummaryOk(p, files) => SummaryOk(p, files')
<1> DEFINE lines == ToScn(editor)
<1>1. lines \in Seq(EditorLine(low))
  <2>1. low \subseteq Int
    BY DEF Lows
  <2>2. QED
    BY <2>1, TextWritten DEF EditorInv, EditorOk
<1>2. FittingLines(low, lines)
  BY <1>1, WrittenFits
<1>3. ParseLines(lines, BridgeDefaults).ok
  BY DEF EditorInv
<1> HIDE DEF lines
<1>4. FileOf(lines).exists /\ FileOf(lines).lines = lines
  BY DEF FileOf
<1>5. FileFits(low, FileOf(lines))
  BY <1>2, <1>4 DEF FileFits
<1>6. Summarize(FileOf(lines)).ok
  BY <1>3, <1>4 DEF Summarize, ParseFile
<1>7. /\ DOMAIN files' = Path /\ files'[path] = FileOf(lines)
      /\ \A p \in Path : p # path => files'[p] = files[p]
  BY DEF FilesFit, lines
<1>8. QED
  BY <1>5, <1>6, <1>7 DEF FilesFit, SummaryOk

LEMMA SaveKeeps ==
    ASSUME NEW low, Lows(low), FileInv(low), editor.open, editor.valid,
           NEW path \in Path, NEW use, SaveTo(path, use)
    PROVE  FileInv(low)'
<1>1. /\ files' = [files EXCEPT ![path] = FileOf(ToScn(editor))]
      /\ overlay' = IF use THEN WithScenario(path, files') ELSE overlay
      /\ argv' = argv /\ ps' = ps /\ phase' = phase /\ lastParams' = lastParams
  BY DEF SaveTo, progVars
<1>2. /\ FilesFit(low, files) /\ EditorInv(low) /\ PickOk(overlay, files) /\ LaunchInv
  BY DEF FileInv
<1>3. /\ FilesFit(low, files')
      /\ \A p \in Path : SummaryOk(p, files) => SummaryOk(p, files')
  BY <1>1, <1>2, SavedOk
<1>4. PickOk(overlay', files')
  <2>1. CASE use
    BY <1>1, <1>2, <2>1, PickedOk
  <2>2. CASE ~use
    <3>1. \A o : PickOk(o, files) => PickOk(o, files')
      BY <1>3 DEF PickOk, SummaryOk
    <3>2. QED
      BY <1>1, <1>2, <2>2, <3>1
  <2>3. QED
    BY <2>1, <2>2
<1>5. LaunchInv'
  <2>1. phase = "idle" /\ phase' = "idle"
    BY <1>1, <1>2 DEF EditorInv
  <2>2. ASSUME NEW p, LaunchedFile(p) PROVE LaunchedFile(p)'
    <3>1. p \in Path /\ SummaryOk(p, files')
      BY <1>3, <2>2 DEF LaunchedFile
    <3>2. QED
      BY <2>1, <3>1 DEF LaunchedFile
  <2>3. QED
    BY <1>1, <1>2, <2>2 DEF LaunchInv
<1>6. EditorInv(low)'
  <2> DEFINE e == editor'
  <2>1. e = [editor EXCEPT !.path = path, !.dialog = FALSE, !.open = ~use,
                           !.pendingUse = @ /\ ~use]
    BY DEF SaveTo
  <2>2. DOMAIN editor = EditorFields
    BY <1>2 DEF EditorInv, EditorOk
  <2>3. /\ DOMAIN e = EditorFields /\ e.form = editor.form /\ e.procs = editor.procs
        /\ e.valid = editor.valid /\ e.path = path /\ e.dialog = FALSE /\ e.open = ~use
    BY <2>1, <2>2 DEF EditorFields
  <2>4. ToScn(e) = ToScn(editor)
    BY <2>3, TextOf
  <2>5. phase' = "idle"
    BY <1>1, <1>2 DEF EditorInv
  <2>6. EditorOk(low, e)
    BY <1>2, <2>3 DEF EditorInv, EditorOk
  <2>7. e.valid = ParseLines(ToScn(e), BridgeDefaults).ok
    BY <1>2, <2>3, <2>4 DEF EditorInv
  <2> HIDE DEF e
  <2>8. EditorOk(low, e) /\ (e.open => phase' = "idle" /\ e.valid = ParseLines(ToScn(e), BridgeDefaults).ok)
        /\ ~e.dialog
    BY <2>3, <2>5, <2>6, <2>7
  <2>9. QED
    BY <2>8 DEF EditorInv, e
<1>7. QED
  BY <1>1, <1>3, <1>4, <1>5, <1>6 DEF FileInv

\* A step that leaves the program, its files and the editor alone.
LEMMA OverlayKeeps ==
    ASSUME NEW low, FileInv(low), UNCHANGED <<startVars, editor, lastParams>>,
           PickOk(overlay', files)
    PROVE  FileInv(low)'
<1>1. LaunchInv'
  BY LaunchKept DEF FileInv
<1>2. files' = files /\ phase' = phase /\ editor' = editor
  BY DEF startVars, progVars
<1>3. EditorInv(low)'
  BY <1>2 DEF FileInv, EditorInv
<1>4. QED
  BY <1>1, <1>2, <1>3 DEF FileInv

\* A step that changes the editor alone, while the program is idle.
LEMMA EditorKeeps ==
    ASSUME NEW low, FileInv(low), UNCHANGED <<startVars, overlay, lastParams>>,
           EditorInv(low)'
    PROVE  FileInv(low)'
<1>1. LaunchInv'
  BY LaunchKept DEF FileInv
<1>2. files' = files /\ overlay' = overlay
  BY DEF startVars, progVars
<1>3. QED
  BY <1>1, <1>2 DEF FileInv

-----------------------------------------------------------------------------
(* The invariant holds throughout.                                         *)

\* Launching: what the overlay took for a good file is given to the program.
LEMMA LaunchFits ==
    ASSUME NEW low, FileInv(low), Launch PROVE FileInv(low)'
<1>1. /\ phase = "idle" /\ ~editor.open /\ CanLaunch /\ lastParams' = Params
      /\ overlay' = Applied(Params) /\ files' = files /\ editor' = editor
      /\ argv' = BuildArgs(Params) /\ ps' = ParserStart /\ phase' = "parsing"
  BY DEF Launch, OverlayShown, Start, Fresh
<1>2. FilesFit(low, files) /\ EditorInv(low) /\ PickOk(overlay, files)
  BY DEF FileInv
<1>3. EditorInv(low)'
  BY <1>1, <1>2 DEF EditorInv
<1>4. CASE overlay.mode = "scenario"
  <2>1. Params = [mode |-> "scenario", path |-> overlay.path]
    BY <1>4 DEF Params
  <2>2. PICK p : p = overlay.path
    OBVIOUS
  <2>3. Params.mode = "scenario" /\ Params.path = p
    BY <2>1, <2>2
  <2>4. p \in Path /\ SummaryOk(p, files)
    BY <1>1, <1>2, <1>4, <2>2 DEF CanLaunch, PickOk
  <2>5. argv' = <<FileArg(p), ServeArg>>
    BY <1>1, <2>3 DEF BuildArgs, FileArg
  <2>6. LaunchedFile(p)'
    BY <1>1, <2>4, <2>5 DEF LaunchedFile
  <2>7. LaunchInv'
    BY <1>1, <2>3, <2>6 DEF LaunchInv
  <2>8. PickOk(overlay', files')
    BY <1>1, <1>2, <2>3, <2>4, PickedOk DEF Applied
  <2>9. QED
    BY <1>1, <1>2, <1>3, <2>7, <2>8 DEF FileInv
<1>5. CASE overlay.mode # "scenario"
  <2>1. Params.mode = "random" /\ Params = [mode |-> "random", form |-> overlay.form]
    BY <1>5 DEF Params
  <2>2. LaunchInv'
    BY <1>1, <2>1 DEF LaunchInv
  <2>3. overlay' = [overlay EXCEPT !.mode = "random", !.form = Params.form]
    BY <1>1, <2>1 DEF Applied
  <2>4. PickOk(overlay', files')
    BY <1>1, <1>2, <2>3 DEF PickOk
  <2>5. QED
    BY <1>1, <1>2, <1>3, <2>2, <2>4 DEF FileInv
<1>6. QED
  BY <1>4, <1>5

LEMMA ShowAgainFits ==
    ASSUME NEW low, FileInv(low), ShowAgain PROVE FileInv(low)'
<1>1. /\ phase \in Settled /\ phase' = "idle" /\ overlay' = Applied(lastParams)
      /\ lastParams # NoParams /\ lastParams' = lastParams
      /\ files' = files /\ editor' = editor /\ argv' = argv /\ ps' = ps
  BY DEF ShowAgain
<1>2. FilesFit(low, files) /\ EditorInv(low) /\ PickOk(overlay, files) /\ LaunchInv
  BY DEF FileInv
<1>3. EditorInv(low)'
  BY <1>1, <1>2 DEF EditorInv
<1>4. CASE lastParams.mode = "random"
  <2>1. overlay' = [overlay EXCEPT !.mode = "random", !.form = lastParams.form]
    BY <1>1, <1>4 DEF Applied
  <2>2. PickOk(overlay', files')
    BY <1>1, <1>2, <2>1 DEF PickOk
  <2>3. QED
    BY <1>1, <1>2, <1>3, <1>4, <2>2 DEF FileInv, LaunchInv
<1>5. CASE lastParams.mode = "scenario" /\ LaunchedFile(lastParams.path)
  <2> DEFINE p == lastParams.path
  <2>1. p \in Path /\ SummaryOk(p, files)
    BY <1>5 DEF LaunchedFile
  <2>2. LaunchedFile(p)'
    BY <1>1, <2>1 DEF LaunchedFile
  <2>3. overlay' = WithScenario(p, files)
    BY <1>1, <1>5 DEF Applied
  <2>4. PickOk(overlay', files')
    BY <1>1, <1>2, <2>1, <2>3, PickedOk
  <2>5. QED
    BY <1>1, <1>2, <1>3, <1>5, <2>2, <2>4 DEF FileInv, LaunchInv
<1>6. QED
  BY <1>1, <1>2, <1>4, <1>5 DEF LaunchInv

LEMMA OpenEditorFits ==
    ASSUME NEW low, Lows(low), FileInv(low), OpenEditor PROVE FileInv(low)'
<1>1. /\ phase = "idle" /\ ~editor.open
      /\ editor' = [OpenWith(editor, overlay.path) EXCEPT !.open = TRUE]
      /\ UNCHANGED <<startVars, overlay, lastParams>>
  BY DEF OpenEditor, OverlayShown
<1>2. FilesFit(low, files) /\ EditorInv(low) /\ PickOk(overlay, files) /\ LaunchInv
  BY DEF FileInv
<1> DEFINE r == OpenWith(editor, overlay.path)
           e == editor'
<1>3. overlay.path \in Path \cup {""}
  BY <1>2 DEF PickOk
<1>4. overlay.path \in Path => FileFits(low, files[overlay.path])
  BY <1>2 DEF FilesFit
<1>5. EditorOk(low, editor)
  BY <1>2 DEF EditorInv
<1>6. /\ EditorOk(low, r) /\ r.valid = ParseLines(ToScn(r), BridgeDefaults).ok
      /\ (r.dialog => editor.dialog)
  BY <1>3, <1>4, <1>5, OpenedOk
<1>7. ~editor.dialog
  BY <1>1, <1>2 DEF EditorInv
<1>8. e = [r EXCEPT !.open = TRUE]
  BY <1>1
<1> HIDE DEF r, e
<1>9. /\ DOMAIN e = EditorFields /\ e.form = r.form /\ e.procs = r.procs /\ e.path = r.path
      /\ e.valid = r.valid /\ e.dialog = r.dialog
  BY <1>6, <1>8 DEF EditorOk, EditorFields
<1>10. EditorOk(low, e)
  BY <1>6, <1>9 DEF EditorOk
<1>11. ToScn(e) = ToScn(r)
  BY <1>9, TextOf
<1>12. phase' = "idle"
  BY <1>1 DEF startVars, progVars
<1>13. EditorInv(low)'
  <2>1. EditorOk(low, e) /\ e.valid = ParseLines(ToScn(e), BridgeDefaults).ok /\ ~e.dialog
    BY <1>6, <1>7, <1>9, <1>10, <1>11
  <2>2. QED
    BY <1>12, <2>1 DEF EditorInv, e
<1>14. QED
  BY <1>1, <1>13, EditorKeeps

LEMMA EditEditorFits ==
    ASSUME NEW low, Lows(low), TextsFit(low), FileInv(low), EditEditor PROVE FileInv(low)'
<1>1. editor.open /\ ~editor.dialog /\ UNCHANGED <<startVars, overlay, lastParams>>
  BY DEF EditEditor
<1>2. EditorInv(low) /\ EditorOk(low, editor) /\ phase = "idle"
  BY <1>1 DEF FileInv, EditorInv
<1>3. PICK e : EditorOk(low, e) /\ ~e.dialog /\ editor' = Revalidated(e)
  <2>1. ASSUME NEW f \in Changed(editor.form, 50), editor' = Revalidated([editor EXCEPT !.form = f])
        PROVE  \E e : EditorOk(low, e) /\ ~e.dialog /\ editor' = Revalidated(e)
    <3> DEFINE e == [editor EXCEPT !.form = f]
    <3>1. f \in EditorForm(low)
      BY <1>2, EditorFormEdited DEF EditorOk
    <3>2. /\ DOMAIN e = EditorFields /\ e.form = f /\ e.procs = editor.procs
          /\ e.path = editor.path /\ e.dialog = editor.dialog
      BY <1>2 DEF EditorOk, EditorFields
    <3> HIDE DEF e
    <3>3. EditorOk(low, e) /\ ~e.dialog
      BY <1>1, <1>2, <3>1, <3>2 DEF EditorOk
    <3>4. QED
      BY <2>1, <3>3 DEF e
  <2>2. ASSUME NEW q \in ChangedProcs(editor.procs), editor' = Revalidated([editor EXCEPT !.procs = q])
        PROVE  \E e : EditorOk(low, e) /\ ~e.dialog /\ editor' = Revalidated(e)
    <3> DEFINE e == [editor EXCEPT !.procs = q]
    <3>1. q \in Seq(EditorProcess(low))
      BY <1>2, ProcsChanged DEF EditorOk, TextsFit
    <3>2. /\ DOMAIN e = EditorFields /\ e.form = editor.form /\ e.procs = q
          /\ e.path = editor.path /\ e.dialog = editor.dialog
      BY <1>2 DEF EditorOk, EditorFields
    <3> HIDE DEF e
    <3>3. EditorOk(low, e) /\ ~e.dialog
      BY <1>1, <1>2, <3>1, <3>2 DEF EditorOk
    <3>4. QED
      BY <2>2, <3>3 DEF e
  <2>3. QED
    BY <2>1, <2>2, Zenon DEF EditEditor
<1>4. /\ EditorOk(low, editor') /\ ~(editor'.dialog)
      /\ editor'.valid = ParseLines(ToScn(editor'), BridgeDefaults).ok
  BY <1>3, RevalidatedOk
<1>5. phase' = "idle"
  BY <1>1, <1>2 DEF startVars, progVars
<1>6. EditorInv(low)'
  BY <1>4, <1>5 DEF EditorInv
<1>7. QED
  BY <1>1, <1>6, EditorKeeps

LEMMA ScrollFits ==
    ASSUME NEW low, FileInv(low), Scroll PROVE FileInv(low)'
<1>1. editor.open /\ ~editor.dialog /\ UNCHANGED <<startVars, overlay, lastParams>>
  BY DEF Scroll
<1>2. EditorOk(low, editor) /\ phase = "idle"
  BY <1>1 DEF FileInv, EditorInv
<1>3. PICK i \in DOMAIN editor.procs : editor' = Revalidated([editor EXCEPT !.procs[i] = Boxed(@)])
  BY DEF Scroll
<1> DEFINE q == [editor.procs EXCEPT ![i] = Boxed(editor.procs[i])]
           e == [editor EXCEPT !.procs = q]
<1>4. q \in Seq(EditorProcess(low))
  <2>1. editor.procs \in Seq(EditorProcess(low))
    BY <1>2 DEF EditorOk
  <2>2. Boxed(editor.procs[i]) \in EditorProcess(low)
    BY <2>1, BoxedFields
  <2>3. QED
    BY <2>1, <2>2
<1>5. editor' = Revalidated(e)
  BY <1>3
<1> HIDE DEF q
<1>6. /\ DOMAIN e = EditorFields /\ e.form = editor.form /\ e.procs = q
      /\ e.path = editor.path /\ e.dialog = editor.dialog
  BY <1>2 DEF EditorOk, EditorFields
<1> HIDE DEF e
<1>7. EditorOk(low, e) /\ ~e.dialog
  BY <1>1, <1>2, <1>4, <1>6 DEF EditorOk
<1>8. /\ EditorOk(low, editor') /\ ~(editor'.dialog)
      /\ editor'.valid = ParseLines(ToScn(editor'), BridgeDefaults).ok
  BY <1>5, <1>7, RevalidatedOk
<1>9. phase' = "idle"
  BY <1>1, <1>2 DEF startVars, progVars
<1>10. EditorInv(low)'
  BY <1>8, <1>9 DEF EditorInv
<1>11. QED
  BY <1>1, <1>10, EditorKeeps

\* A step that opens or ends the dialog or closes the editor.
LEMMA FlagsFit ==
    ASSUME NEW low, FileInv(low), UNCHANGED <<startVars, overlay, lastParams>>,
           editor.open, DOMAIN editor' = EditorFields,
           \A k \in {"form", "procs", "path", "valid"} : editor'[k] = editor[k],
           editor'.dialog => editor'.open /\ editor.valid
    PROVE  FileInv(low)'
<1>1. EditorInv(low) /\ EditorOk(low, editor) /\ phase = "idle"
      /\ editor.valid = ParseLines(ToScn(editor), BridgeDefaults).ok
  BY DEF FileInv, EditorInv
<1> DEFINE e == editor'
<1>2. e.form = editor.form /\ e.procs = editor.procs /\ e.path = editor.path
      /\ e.valid = editor.valid
  OBVIOUS
<1>3. ToScn(e) = ToScn(editor)
  BY <1>2, TextOf
<1>4. EditorOk(low, e) /\ e.valid = ParseLines(ToScn(e), BridgeDefaults).ok
  BY <1>1, <1>2, <1>3 DEF EditorOk
<1>5. phase' = "idle"
  BY <1>1 DEF startVars, progVars
<1>6. EditorInv(low)'
  BY <1>2, <1>4, <1>5 DEF EditorInv
<1>7. QED
  BY <1>6, EditorKeeps

LEMMA ScreenFits ==
    ASSUME NEW low, Lows(low), TextsFit(low), FileInv(low), [ScreenNext]_screenVars
    PROVE  FileInv(low)'
<1>1. /\ FilesFit(low, files) /\ EditorInv(low) /\ PickOk(overlay, files) /\ LaunchInv
      /\ EditorOk(low, editor) /\ DOMAIN editor = EditorFields
  BY DEF FileInv, EditorInv, EditorOk
<1>2. CASE Program /\ UNCHANGED userVars
  <2>1. phase # "idle" /\ files' = files
    BY <1>2 DEF Program, TakeOption, Refused, OptionsTaken, Configure, SpawnSome, Run
  <2>2. EditorInv(low)'
    <3>1. ~editor.open /\ editor' = editor
      BY <1>1, <1>2, <2>1 DEF EditorInv, userVars
    <3>2. QED
      BY <1>1, <3>1 DEF EditorInv
  <2>3. ASSUME NEW p, LaunchedFile(p) PROVE LaunchedFile(p)'
    <3>1. p \in Path
      BY <2>3 DEF LaunchedFile
    <3>2. files[p].exists => LegibleLines(files[p].lines)
      BY <1>1, <3>1, FitsLegible DEF FilesFit, FileFits
    <3>3. QED
      BY <1>2, <2>3, <3>2, ProgramKeepsFile
  <2>4. overlay' = overlay /\ lastParams' = lastParams
    BY <1>2 DEF userVars
  <2>5. LaunchInv'
    BY <1>1, <2>3, <2>4 DEF LaunchInv
  <2>6. QED
    BY <1>1, <2>1, <2>2, <2>4, <2>5 DEF FileInv
<1>3. CASE EditOverlay
  <2>1. PICK f : overlay' = [overlay EXCEPT !.form = f]
    BY <1>3 DEF EditOverlay
  <2>2. PickOk(overlay', files)
    BY <1>1, <2>1 DEF PickOk
  <2>3. QED
    BY <1>3, <2>2, OverlayKeeps DEF EditOverlay
<1>4. CASE SelectMode
  <2>1. PickOk(overlay', files)
    <3>1. PickOk(WithScenario(overlay.path, files), files)
      BY <1>1, PickedOk DEF PickOk
    <3>2. PickOk([overlay EXCEPT !.mode = "random"], files)
      BY <1>1 DEF PickOk
    <3>3. QED
      BY <1>4, <3>1, <3>2 DEF SelectMode
  <2>2. QED
    BY <1>4, <2>1, OverlayKeeps DEF SelectMode
<1>5. CASE Browse
  <2>1. PickOk(overlay', files)
    BY <1>1, <1>5, PickedOk DEF Browse
  <2>2. QED
    BY <1>5, <2>1, OverlayKeeps DEF Browse
<1>6. CASE SaveAs
  <2>1. editor' = [editor EXCEPT !.dialog = TRUE] /\ editor.open /\ editor.valid
        /\ UNCHANGED <<startVars, overlay, lastParams>>
    BY <1>6 DEF SaveAs
  <2>2. /\ DOMAIN editor' = EditorFields /\ editor'.open = editor.open
        /\ \A k \in {"form", "procs", "path", "valid"} : editor'[k] = editor[k]
    BY <1>1, <2>1 DEF EditorFields
  <2>3. QED
    BY <2>1, <2>2, FlagsFit
<1>7. CASE SaveAndUse
  <2>1. editor.open /\ editor.valid
    BY <1>7 DEF SaveAndUse
  <2>2. CASE editor.path # ""
    <3>1. editor.path \in Path /\ SaveTo(editor.path, TRUE)
      BY <1>1, <1>7, <2>2 DEF SaveAndUse, EditorOk
    <3>2. QED
      BY <2>1, <3>1, SaveKeeps
  <2>3. CASE editor.path = ""
    <3>1. editor' = [editor EXCEPT !.dialog = TRUE, !.pendingUse = TRUE]
          /\ UNCHANGED <<startVars, overlay, lastParams>>
      BY <1>7, <2>3 DEF SaveAndUse
    <3>2. /\ DOMAIN editor' = EditorFields /\ editor'.open = editor.open
          /\ \A k \in {"form", "procs", "path", "valid"} : editor'[k] = editor[k]
      BY <1>1, <3>1 DEF EditorFields
    <3>3. QED
      BY <2>1, <3>1, <3>2, FlagsFit
  <2>4. QED
    BY <2>2, <2>3
<1>8. CASE DialogAccepted
  <2>1. editor.open /\ editor.valid
    BY <1>1, <1>8 DEF DialogAccepted, EditorInv
  <2>2. PICK p \in Path : SaveTo(p, editor.pendingUse)
    BY <1>8 DEF DialogAccepted
  <2>3. QED
    BY <2>1, <2>2, SaveKeeps
<1>9. CASE DialogEnds
  <2>1. editor.open /\ UNCHANGED <<startVars, overlay, lastParams>>
    BY <1>1, <1>9 DEF DialogEnds, EditorInv
  <2>2. PICK use : editor' = [editor EXCEPT !.dialog = FALSE, !.pendingUse = use]
    BY <1>9 DEF DialogEnds
  <2>3. /\ DOMAIN editor' = EditorFields /\ ~(editor'.dialog)
        /\ \A k \in {"form", "procs", "path", "valid"} : editor'[k] = editor[k]
    BY <1>1, <2>2 DEF EditorFields
  <2>4. QED
    BY <2>1, <2>3, FlagsFit
<1>10. CASE CloseEditor
  <2>1. editor.open /\ ~editor.dialog /\ editor' = [editor EXCEPT !.open = FALSE]
        /\ UNCHANGED <<startVars, overlay, lastParams>>
    BY <1>10 DEF CloseEditor
  <2>2. /\ DOMAIN editor' = EditorFields /\ editor'.dialog = editor.dialog
        /\ \A k \in {"form", "procs", "path", "valid"} : editor'[k] = editor[k]
    BY <1>1, <2>1 DEF EditorFields
  <2>3. QED
    BY <2>1, <2>2, FlagsFit
<1>11. CASE UNCHANGED screenVars
  BY <1>1, <1>11, OverlayKeeps DEF screenVars, userVars
<1>12. QED
  BY <1>2, <1>3, <1>4, <1>5, <1>6, <1>7, <1>8, <1>9, <1>10, <1>11,
     LaunchFits, ShowAgainFits, OpenEditorFits, ScrollFits, EditEditorFits DEF ScreenNext, User

\* Whatever is on disk, whatever the user picks, edits, saves and launches, and
\* in whatever order: rr-feedback reads a file that the overlay lets the user
\* launch.
THEOREM FilesLaunch == ScreenSpec => []ScenarioLaunches
<1>1. Lows(Int) /\ TextsFit(Int)
  <2>1. Lows(Int)
    BY IntHalfAssumption DEF Lows, MachineInt
  <2>2. ASSUME NEW lines \in Seq(ScenarioLine) PROVE FittingLines(Int, lines)
    <3>1. LegibleLines(lines) /\ Len(lines) \in Nat
      BY LinesLegible
    <3>2. ASSUME NEW i \in 1..Len(lines) PROVE Fits(Int, lines[i])
      <4>1. LegibleLine(lines[i])
        BY <3>1 DEF LegibleLines
      <4>2. QED
        BY <4>1 DEF Fits, LegibleLine, LegibleText, LegibleEvent
    <3>3. QED
      BY <3>1, <3>2 DEF FittingLines
  <2>3. ASSUME NEW fs \in FileSystems PROVE FilesFit(Int, fs)
    <3>1. fs \in [Path -> [exists : BOOLEAN, lines : Seq(ScenarioLine)]]
      BY FileSystemsAssumption
    <3>2. DOMAIN fs = Path /\ \A p \in Path : fs[p].lines \in Seq(ScenarioLine)
      BY <3>1
    <3>3. QED
      BY <2>2, <3>2 DEF FilesFit, FileFits
  <2>4. TimelineEvent \subseteq EditorEvent(Int)
    <3>1. \A e \in TimelineEvent : e.duration.lo \in Int
      BY DEF TimelineEvent, Text
    <3>2. QED
      BY <3>1 DEF EditorEvent
  <2>5. Timelines \subseteq Seq(EditorEvent(Int))
    <3>1. Seq(TimelineEvent) \subseteq Seq(EditorEvent(Int))
      BY <2>4
    <3>2. QED
      BY <3>1, TimelinesAssumption
  <2>6. QED
    BY <2>1, <2>3, <2>5 DEF TextsFit
<1>2. ScreenInit => FileInv(Int)
  BY <1>1, InitFiles
<1>3. FileInv(Int) /\ [ScreenNext]_screenVars => FileInv(Int)'
  BY <1>1, ScreenFits
<1>4. FileInv(Int) => ScenarioLaunches
  BY FileInvImplies
<1>5. QED
  BY <1>2, <1>3, <1>4, PTL DEF ScreenSpec

-----------------------------------------------------------------------------
(* Parsing forwards: lines that lead from one scenario to another without  *)
(* being refused.                                                          *)

Trail(s, lines) ==
    \A i \in 1..Len(lines) : s[i - 1].ok /\ s[i] = ApplyLine(s[i - 1], lines[i])
Leads(lines, a, b) ==
    /\ Len(lines) \in Nat /\ b.ok
    /\ \E s \in [0..Len(lines) -> Scenario] : s[0] = a /\ s[Len(lines)] = b /\ Trail(s, lines)

LEMMA LeadsNowhere == ASSUME NEW a \in Scenario, a.ok PROVE Leads(<<>>, a, a)
<1> DEFINE s == [i \in 0..0 |-> a]
<1>1. s \in [0..0 -> Scenario] /\ s[0] = a
  OBVIOUS
<1>2. Len(<<>>) = 0 /\ Trail(s, <<>>)
  BY DEF Trail
<1> HIDE DEF s
<1>3. QED
  BY <1>1, <1>2 DEF Leads

\* One text after another.
LEMMA LeadsThrough ==
    ASSUME NEW S, NEW l \in Seq(S), NEW m \in Seq(S), NEW a, NEW b, NEW c,
           Leads(l, a, b), Leads(m, b, c)
    PROVE  Leads(l \o m, a, c)
<1> DEFINE n == Len(l)
           k == Len(m)
           lm == l \o m
<1>1. n \in Nat /\ k \in Nat /\ Len(lm) = n + k
      /\ \A i \in 1..(n + k) : lm[i] = IF i <= n THEN l[i] ELSE m[i - n]
  OBVIOUS
<1>2. PICK s \in [0..n -> Scenario] : s[0] = a /\ s[n] = b /\ Trail(s, l)
  BY DEF Leads
<1>3. PICK t \in [0..k -> Scenario] : t[0] = b /\ t[k] = c /\ Trail(t, m)
  BY DEF Leads
<1>4. /\ \A i \in 1..n : s[i - 1].ok /\ s[i] = ApplyLine(s[i - 1], l[i])
      /\ \A i \in 1..k : t[i - 1].ok /\ t[i] = ApplyLine(t[i - 1], m[i])
      /\ c.ok
  BY <1>2, <1>3 DEF Trail, Leads
<1> DEFINE u == [i \in 0..(n + k) |-> IF i <= n THEN s[i] ELSE t[i - n]]
<1> HIDE DEF n, k, lm
<1>5. /\ \A i \in 0..n : u[i] = s[i]
      /\ \A i \in 0..k : u[i + n] = t[i]
  BY <1>1, <1>2, <1>3
<1>6. u \in [0..(n + k) -> Scenario] /\ u[0] = a /\ u[n + k] = c
  <2>1. \A i \in 0..(n + k) : (IF i <= n THEN s[i] ELSE t[i - n]) \in Scenario
    BY <1>1
  <2>2. u \in [0..(n + k) -> Scenario]
    BY <2>1
  <2>3. 0 \in 0..n /\ k \in 0..k /\ k + n = n + k
    BY <1>1
  <2> HIDE DEF u
  <2>4. QED
    BY <1>2, <1>3, <1>5, <2>2, <2>3
<1> HIDE DEF u
<1>7. ASSUME NEW i \in 1..(n + k) PROVE u[i - 1].ok /\ u[i] = ApplyLine(u[i - 1], lm[i])
  <2>1. CASE i <= n
    <3>1. i \in 1..n /\ i \in 0..n /\ i - 1 \in 0..n
      BY <1>1, <2>1
    <3>2. u[i] = s[i] /\ u[i - 1] = s[i - 1] /\ lm[i] = l[i]
      BY <1>1, <1>5, <2>1, <3>1
    <3>3. QED
      BY <1>4, <3>1, <3>2
  <2>2. CASE i > n
    <3>1. i - n \in 1..k /\ i - n \in 0..k /\ (i - n) - 1 \in 0..k
          /\ (i - n) + n = i /\ ((i - n) - 1) + n = i - 1
      BY <1>1, <2>2
    <3>2. u[i] = t[i - n] /\ u[i - 1] = t[(i - n) - 1]
      BY <1>5, <3>1
    <3>3. lm[i] = m[i - n]
      BY <1>1, <2>2
    <3>4. QED
      BY <1>4, <3>1, <3>2, <3>3
  <2>3. QED
    BY <1>1, <2>1, <2>2
<1>8. Trail(u, lm)
  BY <1>1, <1>7 DEF Trail
<1>9. Len(lm) \in Nat /\ Len(lm) = n + k
  BY <1>1
<1>10. u \in [0..Len(lm) -> Scenario] /\ u[0] = a /\ u[Len(lm)] = c
  BY <1>6, <1>9
<1>11. Leads(lm, a, c)
  BY <1>4, <1>8, <1>9, <1>10 DEF Leads
<1>12. QED
  BY <1>11 DEF lm

\* The parser follows such lines to their end.
LEMMA LeadsParsed ==
    ASSUME NEW lines, NEW cfg \in SimConfig, NEW b \in Scenario,
           Leads(lines, Parsed(TRUE, cfg, <<>>), b)
    PROVE  ParseLines(lines, cfg) = Validated(b)
<1> DEFINE n == Len(lines)
           a == Parsed(TRUE, cfg, <<>>)
<1>1. n \in Nat /\ b.ok
  BY DEF Leads
<1>2. PICK s \in [0..n -> Scenario] : s[0] = a /\ s[n] = b /\ Trail(s, lines)
  BY DEF Leads
<1>3. \A i \in 1..n : s[i - 1].ok /\ s[i] = ApplyLine(s[i - 1], lines[i])
  BY <1>2 DEF Trail
<1>4. PICK left : Parses(left, lines) /\ ParseLines(lines, cfg) = left[n][a]
  BY <1>1, ParseRecursion
<1>5. ASSUME NEW k \in 0..n, NEW sc \in Scenario
      PROVE  left[k][sc] = IF ~sc.ok THEN sc
                           ELSE IF k = 0 THEN Validated(sc)
                           ELSE left[k - 1][ApplyLine(sc, lines[n - k + 1])]
  BY <1>4 DEF Parses
<1> HIDE DEF n, a
<1> DEFINE K == {k \in Nat : k <= n => left[k][s[n - k]] = Validated(b)}
<1>6. 0 \in K
  <2>1. left[0][b] = Validated(b)
    BY <1>1, <1>5
  <2>2. QED
    BY <1>1, <1>2, <2>1
<1>7. ASSUME NEW k \in K PROVE k + 1 \in K
  <2> SUFFICES ASSUME k + 1 <= n PROVE left[k + 1][s[n - (k + 1)]] = Validated(b)
    OBVIOUS
  <2> DEFINE i == n - k
  <2>1. i \in 1..n /\ i - 1 = n - (k + 1) /\ k + 1 \in 0..n /\ n - (k + 1) + 1 = i
        /\ k + 1 # 0 /\ (k + 1) - 1 = k /\ i - 1 \in 0..n
    BY <1>1
  <2>2. left[k][s[i]] = Validated(b)
    BY <1>1
  <2> HIDE DEF i
  <2>3. s[i - 1] \in Scenario
    BY <2>1
  <2>4. left[k + 1][s[i - 1]] = left[k][ApplyLine(s[i - 1], lines[i])]
    <3>1. left[k + 1][s[i - 1]] = IF ~s[i - 1].ok THEN s[i - 1]
                                  ELSE IF k + 1 = 0 THEN Validated(s[i - 1])
                                  ELSE left[(k + 1) - 1][ApplyLine(s[i - 1], lines[n - (k + 1) + 1])]
      BY <1>5, <2>1, <2>3
    <3>2. QED
      BY <1>3, <2>1, <3>1
  <2>5. QED
    BY <1>3, <2>1, <2>2, <2>4
<1>8. n \in K
  <2> HIDE DEF K
  <2>1. K \subseteq Nat
    BY DEF K
  <2>2. K = Nat
    BY <1>6, <1>7, <2>1, SetInduction
  <2>3. QED
    BY <1>1, <2>2
<1>9. left[n][s[0]] = Validated(b)
  BY <1>1, <1>8
<1>10. QED
  BY <1>2, <1>4, <1>9 DEF n

-----------------------------------------------------------------------------
(* The lines of a text outside any process, one by one.                    *)

\* What a line outside any process sets, and what it leaves alone.
Sets(a, b, part, key, v) ==
    /\ b \in Scenario /\ b.ok /\ b.procs = <<>>
    /\ \A k \in NumKey : b.cfg.num[k] = IF part = "num" /\ k = key THEN v ELSE a.cfg.num[k]
    /\ \A d \in Device :
          /\ b.cfg.share[d] = IF part = "share" /\ d = key THEN v ELSE a.cfg.share[d]
          /\ b.cfg.duration[d] = IF part = "duration" /\ d = key THEN v ELSE a.cfg.duration[d]
          /\ b.cfg.mode[d] = IF part = "mode" /\ d = key THEN v ELSE a.cfg.mode[d]
    /\ b.cfg.service = IF part = "service" THEN v ELSE a.cfg.service

LEMMA ConfigSet ==
    ASSUME NEW a \in Scenario, a.ok, a.procs = <<>>, NEW c \in SimConfig, NEW b,
           b = [a EXCEPT !.cfg = c]
    PROVE  b \in Scenario /\ b.ok /\ b.procs = <<>> /\ b.cfg = c
BY DEF Scenario

LEMMA NumSet ==
    ASSUME NEW a \in Scenario, a.ok, a.procs = <<>>, NEW k \in FileKey, NEW n \in Int
    PROVE  Sets(a, ApplyLine(a, Option("int", k, Num(n))), "num", k, AsInt(n))
<1> DEFINE ln == Option("int", k, Num(n))
           b == ApplyLine(a, ln)
           c == [a.cfg EXCEPT !.num[k] = AsInt(n)]
<1>1. ln.opt = "int" /\ ln.key = k /\ ln.text = Num(n)
  BY DEF Option
<1>2. Strict(Num(n)) /\ Num(n).lo = n
  BY NumberRead
<1> HIDE DEF ln
<1>3. b = [a EXCEPT !.cfg = c]
  BY <1>1, <1>2 DEF ApplyLine, ApplyGlobal, Scenario
<1>4. a.cfg \in SimConfig /\ k \in NumKey /\ AsInt(n) \in Int
  BY AsIntType DEF Scenario, FileKey, NumKey
<1>5. /\ c \in SimConfig /\ c.num = [a.cfg.num EXCEPT ![k] = AsInt(n)]
      /\ c.share = a.cfg.share /\ c.duration = a.cfg.duration /\ c.mode = a.cfg.mode
      /\ c.service = a.cfg.service
  BY <1>4 DEF SimConfig
<1>6. \A j \in NumKey : c.num[j] = IF j = k THEN AsInt(n) ELSE a.cfg.num[j]
  BY <1>4, <1>5 DEF SimConfig
<1> HIDE DEF b, c
<1>7. b \in Scenario /\ b.ok /\ b.procs = <<>> /\ b.cfg = c
  BY <1>3, <1>5, ConfigSet
<1>8. QED
  BY <1>5, <1>6, <1>7 DEF Sets, b, ln

LEMMA ShareSet ==
    ASSUME NEW a \in Scenario, a.ok, a.procs = <<>>, NEW k \in Device, NEW n \in Int
    PROVE  Sets(a, ApplyLine(a, Option("share", k, Num(n))), "share", k, AsInt(n))
<1> DEFINE ln == Option("share", k, Num(n))
           b == ApplyLine(a, ln)
           c == [a.cfg EXCEPT !.share[k] = AsInt(n)]
<1>1. ln.opt = "share" /\ ln.key = k /\ ln.text = Num(n)
  BY DEF Option
<1>2. Strict(Num(n)) /\ Num(n).lo = n
  BY NumberRead
<1> HIDE DEF ln
<1>3. b = [a EXCEPT !.cfg = c]
  BY <1>1, <1>2 DEF ApplyLine, ApplyGlobal, Scenario
<1>4. a.cfg \in SimConfig /\ AsInt(n) \in Int
  BY AsIntType DEF Scenario
<1>5. /\ c \in SimConfig /\ c.share = [a.cfg.share EXCEPT ![k] = AsInt(n)]
      /\ c.num = a.cfg.num /\ c.duration = a.cfg.duration /\ c.mode = a.cfg.mode
      /\ c.service = a.cfg.service
  BY <1>4 DEF SimConfig
<1>6. \A j \in Device : c.share[j] = IF j = k THEN AsInt(n) ELSE a.cfg.share[j]
  BY <1>4, <1>5 DEF SimConfig
<1> HIDE DEF b, c
<1>7. b \in Scenario /\ b.ok /\ b.procs = <<>> /\ b.cfg = c
  BY <1>3, <1>5, ConfigSet
<1>8. QED
  BY <1>5, <1>6, <1>7 DEF Sets, b, ln

\* A duration that an int can hold is read as it was written.
Narrow == {n \in Int : n < IntHalf}
LEMMA SpanReadBack ==
    ASSUME NEW d \in Spans(Narrow)
    PROVE  /\ DurationOk(DurText(d)) /\ RangeToDuration(DurText(d)) = d
           /\ d \in Duration
<1>1. d = Span(d.min, d.max) /\ d.min \in Ends(Narrow) /\ d.max \in MachineInt
  BY DEF Spans, Span
<1>2. d.min \in Int /\ d.min >= 0 /\ d.min < IntHalf /\ d.max \in Int /\ -IntHalf <= d.max /\ d.max < IntHalf
  <2>1. \A n \in Narrow \cap Nat : AsInt(n) = n
    BY AsIntFits, IntHalfAssumption DEF Narrow
  <2>2. QED
    BY <1>1, <2>1, IntHalfAssumption DEF Ends, Narrow, MachineInt
<1>3. AsInt(d.min) = d.min /\ AsInt(d.max) = d.max
  BY <1>2, AsIntFits, IntHalfAssumption
<1>4. CASE d.min = d.max
  <2>1. DurText(d) = Num(d.min)
    BY <1>4 DEF DurText
  <2>2. DurText(d).head /\ DurText(d).tail = "end" /\ DurText(d).lo = d.min
    <3>1. \A n : Num(n).head /\ Num(n).tail = "end" /\ Num(n).lo = n
      BY DEF Num
    <3>2. QED
      BY <2>1, <3>1
  <2>3. RangeToDuration(DurText(d)) = Span(d.min, d.max)
    BY <1>3, <1>4, <2>2 DEF RangeToDuration
  <2>4. QED
    BY <1>1, <1>2, <2>2, <2>3 DEF DurationOk, Span, Duration
<1>5. CASE d.min # d.max
  <2>1. DurText(d) = NumRange(d.min, d.max)
    BY <1>5 DEF DurText
  <2>2. DurText(d).head /\ DurText(d).tail = "range" /\ DurText(d).lo = d.min /\ DurText(d).hi = d.max
    BY <2>1, RangeRead
  <2>3. RangeToDuration(DurText(d)) = Span(d.min, d.max)
    BY <1>3, <2>2 DEF RangeToDuration
  <2>4. QED
    BY <1>1, <1>2, <2>2, <2>3 DEF DurationOk, Span, Duration
<1>6. QED
  BY <1>4, <1>5

LEMMA DurationSet ==
    ASSUME NEW a \in Scenario, a.ok, a.procs = <<>>, NEW k \in Device, NEW d \in Spans(Narrow)
    PROVE  Sets(a, ApplyLine(a, Option("duration", k, DurText(d))), "duration", k, d)
<1> DEFINE ln == Option("duration", k, DurText(d))
           b == ApplyLine(a, ln)
           c == [a.cfg EXCEPT !.duration[k] = d]
<1>1. ln.opt = "duration" /\ ln.key = k /\ ln.text = DurText(d)
  BY DEF Option
<1>2. DurationOk(DurText(d)) /\ RangeToDuration(DurText(d)) = d /\ d \in Duration
  BY SpanReadBack
<1> HIDE DEF ln
<1>3. b = [a EXCEPT !.cfg = c]
  BY <1>1, <1>2 DEF ApplyLine, ApplyGlobal, Scenario
<1>4. a.cfg \in SimConfig
  BY DEF Scenario
<1>5. /\ c \in SimConfig /\ c.duration = [a.cfg.duration EXCEPT ![k] = d]
      /\ c.num = a.cfg.num /\ c.share = a.cfg.share /\ c.mode = a.cfg.mode
      /\ c.service = a.cfg.service
  BY <1>2, <1>4 DEF SimConfig
<1>6. \A j \in Device : c.duration[j] = IF j = k THEN d ELSE a.cfg.duration[j]
  BY <1>4, <1>5 DEF SimConfig
<1> HIDE DEF b, c
<1>7. b \in Scenario /\ b.ok /\ b.procs = <<>> /\ b.cfg = c
  BY <1>3, <1>5, ConfigSet
<1>8. QED
  BY <1>5, <1>6, <1>7 DEF Sets, b, ln

LEMMA ServiceSet ==
    ASSUME NEW a \in Scenario, a.ok, a.procs = <<>>, NEW d \in Spans(Narrow)
    PROVE  Sets(a, ApplyLine(a, Option("service", "", DurText(d))), "service", "", d)
<1> DEFINE ln == Option("service", "", DurText(d))
           b == ApplyLine(a, ln)
           c == [a.cfg EXCEPT !.service = d]
<1>1. ln.opt = "service" /\ ln.text = DurText(d)
  BY DEF Option
<1>2. DurationOk(DurText(d)) /\ RangeToDuration(DurText(d)) = d /\ d \in Duration
  BY SpanReadBack
<1> HIDE DEF ln
<1>3. b = [a EXCEPT !.cfg = c]
  BY <1>1, <1>2 DEF ApplyLine, ApplyGlobal, Scenario
<1>4. a.cfg \in SimConfig
  BY DEF Scenario
<1>5. /\ c \in SimConfig /\ c.service = d
      /\ c.num = a.cfg.num /\ c.share = a.cfg.share /\ c.mode = a.cfg.mode
      /\ c.duration = a.cfg.duration
  BY <1>2, <1>4 DEF SimConfig
<1> HIDE DEF b, c
<1>7. b \in Scenario /\ b.ok /\ b.procs = <<>> /\ b.cfg = c
  BY <1>3, <1>5, ConfigSet
<1>8. QED
  BY <1>5, <1>7 DEF Sets, b, ln

LEMMA ModeSet ==
    ASSUME NEW a \in Scenario, a.ok, a.procs = <<>>, NEW k \in Device, NEW m \in IoMode
    PROVE  Sets(a, ApplyLine(a, Option("mode", k, Word(m))), "mode", k, m)
<1> DEFINE ln == Option("mode", k, Word(m))
           b == ApplyLine(a, ln)
           c == [a.cfg EXCEPT !.mode[k] = m]
<1>1. ln.opt = "mode" /\ ln.key = k /\ ln.text = Word(m)
  BY DEF Option
<1>2. Word(m).word = m
  BY WordRead
<1> HIDE DEF ln
<1>3. b = [a EXCEPT !.cfg = c]
  BY <1>1, <1>2 DEF ApplyLine, ApplyGlobal, Scenario
<1>4. a.cfg \in SimConfig
  BY DEF Scenario
<1>5. /\ c \in SimConfig /\ c.mode = [a.cfg.mode EXCEPT ![k] = m]
      /\ c.num = a.cfg.num /\ c.share = a.cfg.share /\ c.duration = a.cfg.duration
      /\ c.service = a.cfg.service
  BY <1>4 DEF SimConfig
<1>6. \A j \in Device : c.mode[j] = IF j = k THEN m ELSE a.cfg.mode[j]
  BY <1>4, <1>5 DEF SimConfig
<1> HIDE DEF b, c
<1>7. b \in Scenario /\ b.ok /\ b.procs = <<>> /\ b.cfg = c
  BY <1>3, <1>5, ConfigSet
<1>8. QED
  BY <1>5, <1>6, <1>7 DEF Sets, b, ln

\* Three lines, and texts that are made of such.
LEMMA ThreeLead ==
    ASSUME NEW l1, NEW l2, NEW l3, NEW a \in Scenario, NEW b \in Scenario,
           NEW c \in Scenario, NEW d \in Scenario, a.ok, b.ok, c.ok, d.ok,
           b = ApplyLine(a, l1), c = ApplyLine(b, l2), d = ApplyLine(c, l3)
    PROVE  Leads(<<l1, l2, l3>>, a, d)
<1> DEFINE s == [i \in 0..3 |-> IF i = 0 THEN a ELSE IF i = 1 THEN b ELSE IF i = 2 THEN c ELSE d]
           lines == <<l1, l2, l3>>
<1>1. s \in [0..3 -> Scenario] /\ s[0] = a /\ s[1] = b /\ s[2] = c /\ s[3] = d
  OBVIOUS
<1>2. Len(lines) = 3 /\ lines[1] = l1 /\ lines[2] = l2 /\ lines[3] = l3
  OBVIOUS
<1> HIDE DEF s, lines
<1>3. Trail(s, lines)
  <2> SUFFICES ASSUME NEW i \in 1..3 PROVE s[i - 1].ok /\ s[i] = ApplyLine(s[i - 1], lines[i])
    BY <1>2 DEF Trail
  <2>1. i = 1 \/ i = 2 \/ i = 3
    OBVIOUS
  <2>2. QED
    BY <1>1, <1>2, <2>1
<1>4. QED
  BY <1>1, <1>2, <1>3 DEF Leads, lines

LEMMA SixSplit ==
    ASSUME NEW l1, NEW l2, NEW l3, NEW l4, NEW l5, NEW l6, NEW a, NEW b, NEW c,
           Leads(<<l1, l2, l3>>, a, b), Leads(<<l4, l5, l6>>, b, c)
    PROVE  Leads(<<l1, l2, l3, l4, l5, l6>>, a, c)
<1> DEFINE S == {l1, l2, l3, l4, l5, l6}
<1>1. <<l1, l2, l3>> \in Seq(S) /\ <<l4, l5, l6>> \in Seq(S)
  BY ThreeIn
<1>2. <<l1, l2, l3, l4, l5, l6>> = <<l1, l2, l3>> \o <<l4, l5, l6>>
  OBVIOUS
<1>3. QED
  BY <1>1, <1>2, LeadsThrough

LEMMA NineSplit ==
    ASSUME NEW l1, NEW l2, NEW l3, NEW l4, NEW l5, NEW l6, NEW l7, NEW l8, NEW l9,
           NEW a, NEW b, NEW c,
           Leads(<<l1, l2, l3, l4, l5, l6>>, a, b), Leads(<<l7, l8, l9>>, b, c)
    PROVE  Leads(<<l1, l2, l3, l4, l5, l6, l7, l8, l9>>, a, c)
<1> DEFINE S == {l1, l2, l3, l4, l5, l6, l7, l8, l9}
           six == <<l1, l2, l3, l4, l5, l6>>
           three == <<l7, l8, l9>>
<1>1. six \in Seq(S) /\ three \in Seq(S)
  BY SixIn, ThreeIn
<1>2. <<l1, l2, l3, l4, l5, l6, l7, l8, l9>> = six \o three
  OBVIOUS
<1> HIDE DEF S, six, three
<1>3. Leads(six \o three, a, c)
  <2>1. Leads(six, a, b) /\ Leads(three, b, c)
    BY DEF six, three
  <2>2. QED
    BY <1>1, <2>1, LeadsThrough
<1>4. QED
  BY <1>2, <1>3

-----------------------------------------------------------------------------
(* The lines outside any process, as the editor writes them.               *)

\* A form that shows what was read from a file, as far as it sets these keys.
FormReads(f, keys) ==
    /\ \A k \in keys : f.num[k] \in Int /\ AsInt(f.num[k]) = f.num[k]
    /\ \A d \in Device : f.duration[d] \in Spans(Narrow) /\ f.mode[d] \in IoMode
    /\ \A d \in {"disk", "tape"} : f.share[d] \in Int /\ AsInt(f.share[d]) = f.share[d]
    /\ f.service \in Spans(Narrow)

\* What each of these lines sets.
Made(a, b, part, key, v) == Sets(a, b, part, key, v) /\ b \in Scenario /\ b.ok /\ b.procs = <<>>

LEMMA NumMade ==
    ASSUME NEW f, NEW keys \in SUBSET FileKey, FormReads(f, keys), NEW a \in Scenario, a.ok, a.procs = <<>>, NEW b,
           NEW k \in keys, b = ApplyLine(a, NumText(f, k))
    PROVE  Made(a, b, "num", k, f.num[k])
<1>1. PICK n : n = f.num[k]
  OBVIOUS
<1>2. n \in Int /\ AsInt(n) = n
  BY <1>1 DEF FormReads
<1>3. b = ApplyLine(a, Option("int", k, Num(n)))
  BY <1>1 DEF NumText
<1>4. Sets(a, b, "num", k, AsInt(n))
  BY <1>2, <1>3, NumSet
<1>5. QED
  BY <1>1, <1>2, <1>4 DEF Made, Sets

LEMMA ShareMade ==
    ASSUME NEW f, NEW keys, FormReads(f, keys), NEW a \in Scenario, a.ok, a.procs = <<>>, NEW b,
           NEW d \in {"disk", "tape"}, b = ApplyLine(a, Option("share", d, Num(f.share[d])))
    PROVE  Made(a, b, "share", d, f.share[d])
<1>1. PICK n : n = f.share[d]
  OBVIOUS
<1>2. n \in Int /\ AsInt(n) = n /\ d \in Device
  BY <1>1 DEF FormReads, Device
<1>3. Sets(a, b, "share", d, AsInt(n))
  BY <1>1, <1>2, ShareSet
<1>4. QED
  BY <1>1, <1>2, <1>3 DEF Made, Sets

LEMMA DeviceMade ==
    ASSUME NEW f, NEW keys, FormReads(f, keys), NEW a \in Scenario, a.ok, a.procs = <<>>, NEW b,
           NEW d \in Device
    PROVE  /\ b = ApplyLine(a, Option("duration", d, DurText(f.duration[d]))) =>
                 Made(a, b, "duration", d, f.duration[d])
           /\ b = ApplyLine(a, Option("mode", d, Word(f.mode[d]))) =>
                 Made(a, b, "mode", d, f.mode[d])
<1>1. f.duration[d] \in Spans(Narrow) /\ f.mode[d] \in IoMode
  BY DEF FormReads
<1>2. ASSUME b = ApplyLine(a, Option("duration", d, DurText(f.duration[d])))
      PROVE  Made(a, b, "duration", d, f.duration[d])
  <2>1. Sets(a, b, "duration", d, f.duration[d])
    BY <1>1, <1>2, DurationSet
  <2>2. QED
    BY <2>1 DEF Made, Sets
<1>3. ASSUME b = ApplyLine(a, Option("mode", d, Word(f.mode[d])))
      PROVE  Made(a, b, "mode", d, f.mode[d])
  <2>1. Sets(a, b, "mode", d, f.mode[d])
    BY <1>1, <1>3, ModeSet
  <2>2. QED
    BY <2>1 DEF Made, Sets
<1>4. QED
  BY <1>2, <1>3

LEMMA ServiceMade ==
    ASSUME NEW f, NEW keys, FormReads(f, keys), NEW a \in Scenario, a.ok, a.procs = <<>>, NEW b,
           b = ApplyLine(a, Option("service", "", DurText(f.service)))
    PROVE  Made(a, b, "service", "", f.service)
<1>1. f.service \in Spans(Narrow)
  BY DEF FormReads
<1>2. Sets(a, b, "service", "", f.service)
  BY <1>1, ServiceSet
<1>3. QED
  BY <1>2 DEF Made, Sets

LEMMA FixedLead ==
    ASSUME NEW f, FormReads(f, {"quantumHi", "quantumLo", "seed"}), NEW a \in Scenario, a.ok, a.procs = <<>>
    PROVE  \E b \in Scenario :
              /\ b.ok /\ b.procs = <<>> /\ Leads(FixedLines(f), a, b)
              /\ \A k \in NumKey : b.cfg.num[k] = IF k \in {"quantumHi", "quantumLo", "seed"}
                                                  THEN f.num[k] ELSE a.cfg.num[k]
              /\ \A d \in Device : /\ b.cfg.duration[d] = f.duration[d]
                                   /\ b.cfg.mode[d] = f.mode[d]
<1>1. /\ {"quantumHi", "quantumLo", "seed"} \in SUBSET FileKey
      /\ "disk" \in Device /\ "tape" \in Device /\ "printer" \in Device
      /\ Device = {"disk", "tape", "printer"}
  BY DEF FileKey, Device
<1>2. PICK b1 : b1 = ApplyLine(a, NumText(f, "quantumHi"))
  OBVIOUS
<1>3. Made(a, b1, "num", "quantumHi", f.num["quantumHi"])
  BY <1>1, <1>2, NumMade DEF Made
<1>4. PICK b2 : b2 = ApplyLine(b1, NumText(f, "quantumLo"))
  OBVIOUS
<1>5. Made(b1, b2, "num", "quantumLo", f.num["quantumLo"])
  BY <1>1, <1>3, <1>4, NumMade DEF Made
<1>6. PICK b3 : b3 = ApplyLine(b2, NumText(f, "seed"))
  OBVIOUS
<1>7. Made(b2, b3, "num", "seed", f.num["seed"])
  BY <1>1, <1>5, <1>6, NumMade DEF Made
<1>8. Leads(<<NumText(f, "quantumHi"), NumText(f, "quantumLo"), NumText(f, "seed")>>, a, b3)
  BY <1>2, <1>3, <1>4, <1>5, <1>6, <1>7, ThreeLead DEF Made
<1>9. /\ \A k \in NumKey : b3.cfg.num[k] = IF k \in {"quantumHi", "quantumLo", "seed"}
                                           THEN f.num[k] ELSE a.cfg.num[k]
  BY <1>3, <1>5, <1>7 DEF Made, Sets
<1>10. PICK b4 : b4 = ApplyLine(b3, Option("duration", "disk", DurText(f.duration["disk"])))
  OBVIOUS
<1>11. Made(b3, b4, "duration", "disk", f.duration["disk"])
  BY <1>1, <1>7, <1>10, DeviceMade DEF Made
<1>12. PICK b5 : b5 = ApplyLine(b4, Option("duration", "tape", DurText(f.duration["tape"])))
  OBVIOUS
<1>13. Made(b4, b5, "duration", "tape", f.duration["tape"])
  BY <1>1, <1>11, <1>12, DeviceMade DEF Made
<1>14. PICK b6 : b6 = ApplyLine(b5, Option("duration", "printer", DurText(f.duration["printer"])))
  OBVIOUS
<1>15. Made(b5, b6, "duration", "printer", f.duration["printer"])
  BY <1>1, <1>13, <1>14, DeviceMade DEF Made
<1>16. Leads(<<Option("duration", "disk", DurText(f.duration["disk"])),
               Option("duration", "tape", DurText(f.duration["tape"])),
               Option("duration", "printer", DurText(f.duration["printer"]))>>, b3, b6)
  BY <1>7, <1>10, <1>11, <1>12, <1>13, <1>14, <1>15, ThreeLead DEF Made
<1>17. /\ \A k \in NumKey : b6.cfg.num[k] = b3.cfg.num[k]
       /\ \A d \in Device : b6.cfg.duration[d] = f.duration[d]
  BY <1>1, <1>11, <1>13, <1>15 DEF Made, Sets
<1>18. PICK b7 : b7 = ApplyLine(b6, Option("mode", "disk", Word(f.mode["disk"])))
  OBVIOUS
<1>19. Made(b6, b7, "mode", "disk", f.mode["disk"])
  BY <1>1, <1>15, <1>18, DeviceMade DEF Made
<1>20. PICK b8 : b8 = ApplyLine(b7, Option("mode", "tape", Word(f.mode["tape"])))
  OBVIOUS
<1>21. Made(b7, b8, "mode", "tape", f.mode["tape"])
  BY <1>1, <1>19, <1>20, DeviceMade DEF Made
<1>22. PICK b9 : b9 = ApplyLine(b8, Option("mode", "printer", Word(f.mode["printer"])))
  OBVIOUS
<1>23. Made(b8, b9, "mode", "printer", f.mode["printer"])
  BY <1>1, <1>21, <1>22, DeviceMade DEF Made
<1>24. Leads(<<Option("mode", "disk", Word(f.mode["disk"])),
               Option("mode", "tape", Word(f.mode["tape"])),
               Option("mode", "printer", Word(f.mode["printer"]))>>, b6, b9)
  BY <1>15, <1>18, <1>19, <1>20, <1>21, <1>22, <1>23, ThreeLead DEF Made
<1>25. /\ \A k \in NumKey : b9.cfg.num[k] = b6.cfg.num[k]
       /\ \A d \in Device : b9.cfg.duration[d] = b6.cfg.duration[d] /\ b9.cfg.mode[d] = f.mode[d]
  BY <1>1, <1>19, <1>21, <1>23 DEF Made, Sets
<1>26. Leads(FixedLines(f), a, b9)
  BY <1>8, <1>16, <1>24, SixSplit, NineSplit DEF FixedLines
<1>27. QED
  BY <1>9, <1>17, <1>23, <1>25, <1>26 DEF Made

LEMMA RandomLead ==
    ASSUME NEW f, FormReads(f, {"processCount", "pIo"}), NEW a \in Scenario, a.ok, a.procs = <<>>
    PROVE  \E b \in Scenario :
              /\ b.ok /\ b.procs = <<>> /\ Leads(RandomLines(f), a, b)
              /\ \A k \in NumKey : b.cfg.num[k] = IF k \in {"processCount", "pIo"}
                                                  THEN f.num[k] ELSE a.cfg.num[k]
              /\ \A d \in Device : /\ b.cfg.duration[d] = a.cfg.duration[d]
                                   /\ b.cfg.mode[d] = a.cfg.mode[d]
              /\ \A d \in {"disk", "tape"} : b.cfg.share[d] = f.share[d]
              /\ b.cfg.service = f.service
<1>1. /\ {"processCount", "pIo"} \in SUBSET FileKey
      /\ "disk" \in Device /\ "tape" \in Device /\ "printer" \in Device
  BY DEF FileKey, Device
<1>2. PICK b1 : b1 = ApplyLine(a, NumText(f, "processCount"))
  OBVIOUS
<1>3. Made(a, b1, "num", "processCount", f.num["processCount"])
  BY <1>1, <1>2, NumMade DEF Made
<1>4. PICK b2 : b2 = ApplyLine(b1, NumText(f, "pIo"))
  OBVIOUS
<1>5. Made(b1, b2, "num", "pIo", f.num["pIo"])
  BY <1>1, <1>3, <1>4, NumMade DEF Made
<1>6. PICK b3 : b3 = ApplyLine(b2, Option("share", "disk", Num(f.share["disk"])))
  OBVIOUS
<1>7. Made(b2, b3, "share", "disk", f.share["disk"])
  BY <1>1, <1>5, <1>6, ShareMade DEF Made
<1>8. Leads(<<NumText(f, "processCount"), NumText(f, "pIo"),
              Option("share", "disk", Num(f.share["disk"]))>>, a, b3)
  BY <1>2, <1>3, <1>4, <1>5, <1>6, <1>7, ThreeLead DEF Made
<1>9. PICK b4 : b4 = ApplyLine(b3, Option("share", "tape", Num(f.share["tape"])))
  OBVIOUS
<1>10. Made(b3, b4, "share", "tape", f.share["tape"])
  BY <1>1, <1>7, <1>9, ShareMade DEF Made
<1>11. PICK b5 : b5 = ApplyLine(b4, Option("share", "printer", Num(PrinterShare(f))))
  OBVIOUS
<1>12. Made(b4, b5, "share", "printer", AsInt(PrinterShare(f)))
  <2>1. PrinterShare(f) \in Int
    BY DEF FormReads, PrinterShare
  <2>2. QED
    BY <1>1, <1>10, <1>11, <2>1, ShareSet DEF Made, Sets
<1>13. PICK b6 : b6 = ApplyLine(b5, Option("service", "", DurText(f.service)))
  OBVIOUS
<1>14. Made(b5, b6, "service", "", f.service)
  BY <1>12, <1>13, ServiceMade DEF Made
<1>15. Leads(<<Option("share", "tape", Num(f.share["tape"])),
               Option("share", "printer", Num(PrinterShare(f))),
               Option("service", "", DurText(f.service))>>, b3, b6)
  BY <1>7, <1>9, <1>10, <1>11, <1>12, <1>13, <1>14, ThreeLead DEF Made
<1>16. Leads(RandomLines(f), a, b6)
  BY <1>8, <1>15, SixSplit DEF RandomLines
<1>17. /\ \A k \in NumKey : b6.cfg.num[k] = IF k \in {"processCount", "pIo"}
                                           THEN f.num[k] ELSE a.cfg.num[k]
       /\ \A d \in Device : b6.cfg.duration[d] = a.cfg.duration[d] /\ b6.cfg.mode[d] = a.cfg.mode[d]
       /\ b6.cfg.service = f.service
  BY <1>3, <1>5, <1>7, <1>10, <1>12, <1>14 DEF Made, Sets
<1>18. \A d \in {"disk", "tape"} : b6.cfg.share[d] = f.share[d]
  <2>1. b3.cfg.share["disk"] = f.share["disk"]
    BY <1>1, <1>7 DEF Made, Sets
  <2>2. b4.cfg.share["disk"] = b3.cfg.share["disk"] /\ b4.cfg.share["tape"] = f.share["tape"]
    BY <1>1, <1>10 DEF Made, Sets
  <2>3. \A d \in {"disk", "tape"} : b5.cfg.share[d] = b4.cfg.share[d]
    BY <1>1, <1>12 DEF Made, Sets
  <2>4. \A d \in {"disk", "tape"} : b6.cfg.share[d] = b5.cfg.share[d]
    BY <1>1, <1>14 DEF Made, Sets
  <2>5. QED
    BY <2>1, <2>2, <2>3, <2>4
<1>19. QED
  BY <1>14, <1>16, <1>17, <1>18 DEF Made

-----------------------------------------------------------------------------
(* The lines of a process, as the editor writes them.                      *)

\* An event is read as it was shown.
LEMMA EventReadBack ==
    ASSUME NEW ev \in ScriptedIO, ReadableEvent(Narrow, ev)
    PROVE  EventOk(EventText(ev)) /\ ParseIoEvent(EventText(ev)) = ev
<1>1. /\ ev.serviceTick \in Int /\ ev.device \in Device /\ ev.hasDuration \in BOOLEAN
      /\ ev = [serviceTick |-> ev.serviceTick, device |-> ev.device,
               hasDuration |-> ev.hasDuration, duration |-> ev.duration]
  BY DEF ScriptedIO
<1>2. AsInt(ev.serviceTick) = ev.serviceTick /\ ev.duration \in Spans(Narrow)
  BY AsIntFits, IntHalfAssumption DEF ReadableEvent, MachineInt
<1> DEFINE t == EventText(ev)
           n == Num(ev.serviceTick)
           d == IF ev.hasDuration THEN DurText(ev.duration) ELSE Num(0)
<1>3. t.tick = n /\ t.device = ev.device /\ t.hasDuration = ev.hasDuration /\ t.duration = d
  <2>1. CASE ev.hasDuration
    <3>1. t = [tick |-> n, device |-> ev.device, hasDuration |-> TRUE, duration |-> DurText(ev.duration)]
      BY <2>1 DEF EventText, EventFor, Event
    <3> HIDE DEF t, n
    <3>2. QED
      BY <1>1, <2>1, <3>1
  <2>2. CASE ~ev.hasDuration
    <3>1. t = [tick |-> n, device |-> ev.device, hasDuration |-> FALSE, duration |-> Num(0)]
      BY <2>2 DEF EventText, Event
    <3> HIDE DEF t, n
    <3>2. QED
      BY <1>1, <2>2, <3>1
  <2>3. QED
    BY <2>1, <2>2
<1>4. Strict(n) /\ n.lo = ev.serviceTick
  BY NumberRead
<1>5. ev.hasDuration => DurationOk(d) /\ RangeToDuration(d) = ev.duration
  BY <1>2, SpanReadBack
<1>6. ~ev.hasDuration => ev.duration = Span(0, 0)
  BY DEF ReadableEvent
<1> HIDE DEF t, n, d
<1>7. EventOk(t)
  BY <1>1, <1>3, <1>4, <1>5 DEF EventOk
<1>8. ParseIoEvent(t) = [serviceTick |-> ev.serviceTick, device |-> ev.device,
                         hasDuration |-> ev.hasDuration, duration |-> ev.duration]
  BY <1>2, <1>3, <1>4, <1>5, <1>6 DEF ParseIoEvent
<1>9. QED
  BY <1>1, <1>7, <1>8 DEF t

\* The scenario with one more process.
WithProcess(a, q) == [a EXCEPT !.procs = Append(a.procs, q)]

LEMMA LastProcess ==
    ASSUME NEW a \in Scenario, a.ok, NEW q \in ScenarioProcess
    PROVE  LET w == WithProcess(a, q)
           IN  /\ w \in Scenario /\ w.ok /\ w.cfg = a.cfg
               /\ w.procs # <<>> /\ w.procs = Append(a.procs, q)
               /\ w.procs[Len(w.procs)] = q
               /\ \A r \in ScenarioProcess :
                     [w EXCEPT !.procs = [w.procs EXCEPT ![Len(w.procs)] = r]]
                        = WithProcess(a, r)
<1> DEFINE w == WithProcess(a, q)
           m == Append(a.procs, q)
<1>1. a.procs \in Seq(ScenarioProcess) /\ a = [ok |-> a.ok, cfg |-> a.cfg, procs |-> a.procs]
      /\ a.cfg \in SimConfig /\ a.ok \in BOOLEAN
  BY DEF Scenario
<1>2. m \in Seq(ScenarioProcess) /\ m # <<>> /\ Len(m) = Len(a.procs) + 1 /\ m[Len(m)] = q
  BY <1>1
<1>3. ASSUME NEW r \in ScenarioProcess PROVE [m EXCEPT ![Len(m)] = r] = Append(a.procs, r)
  <2> DEFINE u == Append(a.procs, r)
             v == [m EXCEPT ![Len(m)] = r]
             n == Len(a.procs)
  <2>1. u \in Seq(ScenarioProcess) /\ Len(u) = n + 1 /\ u[n + 1] = r
        /\ \A j \in 1..n : u[j] = a.procs[j]
    BY <1>1
  <2>2. v \in Seq(ScenarioProcess) /\ Len(v) = n + 1 /\ v[n + 1] = r
        /\ \A j \in 1..n : v[j] = a.procs[j]
    <3>1. \A j \in 1..n : m[j] = a.procs[j] /\ j # n + 1
      BY <1>1
    <3> HIDE DEF m
    <3>2. QED
      BY <1>1, <1>2, <3>1
  <2> HIDE DEF u, v
  <2>3. \A j \in 1..(n + 1) : u[j] = v[j]
    BY <1>1, <2>1, <2>2
  <2>4. u = v
    BY <1>1, <2>1, <2>2, <2>3
  <2>5. QED
    BY <2>4 DEF u, v
<1>4. w = [a EXCEPT !.procs = m]
  BY DEF WithProcess
<1> HIDE DEF m, w
<1>5. w.ok = a.ok /\ w.cfg = a.cfg /\ w.procs = m /\ w \in Scenario
  BY <1>1, <1>2, <1>4 DEF Scenario
<1>6. ASSUME NEW r \in ScenarioProcess
      PROVE  [w EXCEPT !.procs = [w.procs EXCEPT ![Len(w.procs)] = r]] = WithProcess(a, r)
  <2>1. [w.procs EXCEPT ![Len(w.procs)] = r] = Append(a.procs, r)
    BY <1>3, <1>5
  <2>2. \A s : [w EXCEPT !.procs = s] = [a EXCEPT !.procs = s]
    BY <1>1, <1>4
  <2>3. QED
    BY <2>1, <2>2 DEF WithProcess
<1>7. QED
  BY <1>2, <1>5, <1>6 DEF w, m

\* What a line does to the process it is in.
LEMMA ArrivalLine ==
    ASSUME NEW a \in Scenario, a.ok, NEW q \in ScenarioProcess, NEW n \in MachineInt
    PROVE  /\ ApplyLine(WithProcess(a, q), Option("arrival", "", Num(n)))
                = WithProcess(a, [q EXCEPT !.arrival = n])
           /\ ApplyLine(WithProcess(a, q), Option("burst", "", Num(n)))
                = WithProcess(a, [q EXCEPT !.burst = n])
<1> DEFINE w == WithProcess(a, q)
           i == Len(w.procs)
<1>1. n \in Int /\ AsInt(n) = n
  BY AsIntFits, IntHalfAssumption DEF MachineInt
<1>2. Strict(Num(n)) /\ Num(n).lo = n
  BY NumberRead
<1>3. /\ w \in Scenario /\ w.procs # <<>> /\ w.procs[i] = q /\ i \in DOMAIN w.procs
      /\ \A r \in ScenarioProcess :
            [w EXCEPT !.procs = [w.procs EXCEPT ![i] = r]] = WithProcess(a, r)
  <2>1. /\ w \in Scenario /\ w.procs # <<>> /\ w.procs[i] = q
        /\ \A r \in ScenarioProcess :
              [w EXCEPT !.procs = [w.procs EXCEPT ![i] = r]] = WithProcess(a, r)
    BY LastProcess
  <2>2. w.procs \in Seq(ScenarioProcess)
    BY <2>1 DEF Scenario
  <2> HIDE DEF w
  <2>3. i \in DOMAIN w.procs
    BY <2>1, <2>2
  <2>4. QED
    BY <2>1, <2>3
<1> HIDE DEF w
<1>7. [q EXCEPT !.arrival = n] \in ScenarioProcess /\ [q EXCEPT !.burst = n] \in ScenarioProcess
  BY <1>1 DEF ScenarioProcess
<1>4. ASSUME NEW ln, ln = Option("arrival", "", Num(n))
      PROVE  ApplyLine(w, ln) = WithProcess(a, [q EXCEPT !.arrival = n])
  <2>1. ln.opt = "arrival" /\ ln.text = Num(n)
    BY <1>4 DEF Option
  <2>2. ApplyLine(w, ln) = [w EXCEPT !.procs[i].arrival = n]
    BY <1>1, <1>2, <1>3, <2>1 DEF ApplyLine, ApplyProcess
  <2>3. [w EXCEPT !.procs[i].arrival = n]
           = [w EXCEPT !.procs = [w.procs EXCEPT ![i] = [q EXCEPT !.arrival = n]]]
    BY <1>3 DEF Scenario
  <2>4. QED
    BY <1>3, <1>7, <2>2, <2>3
<1>5. ASSUME NEW ln, ln = Option("burst", "", Num(n))
      PROVE  ApplyLine(w, ln) = WithProcess(a, [q EXCEPT !.burst = n])
  <2>1. ln.opt = "burst" /\ ln.text = Num(n)
    BY <1>5 DEF Option
  <2>2. ApplyLine(w, ln) = [w EXCEPT !.procs[i].burst = n]
    BY <1>1, <1>2, <1>3, <2>1 DEF ApplyLine, ApplyProcess
  <2>3. [w EXCEPT !.procs[i].burst = n]
           = [w EXCEPT !.procs = [w.procs EXCEPT ![i] = [q EXCEPT !.burst = n]]]
    BY <1>3 DEF Scenario
  <2>4. QED
    BY <1>3, <1>7, <2>2, <2>3
<1>6. QED
  BY <1>4, <1>5 DEF w

LEMMA TimelineLine ==
    ASSUME NEW a \in Scenario, a.ok, NEW q \in ScenarioProcess, q.script = <<>>,
           NEW script \in Seq(ScriptedIO), \A j \in DOMAIN script : ReadableEvent(Narrow, script[j])
    PROVE  ApplyLine(WithProcess(a, q), Timeline(TimelineText(script)))
                = WithProcess(a, [q EXCEPT !.script = script])
<1> DEFINE w == WithProcess(a, q)
           i == Len(w.procs)
           ln == Timeline(TimelineText(script))
           r == [q EXCEPT !.script = script]
<1>11. r \in ScenarioProcess
  BY DEF ScenarioProcess
<1>1. /\ w \in Scenario /\ w.procs # <<>> /\ w.procs[i] = q
      /\ [w EXCEPT !.procs = [w.procs EXCEPT ![i] = r]] = WithProcess(a, r)
  <2> HIDE DEF r
  <2>1. QED
    BY <1>11, LastProcess
<1>2. ln.opt = "io" /\ ln.events = TimelineText(script)
  BY DEF Timeline
<1>3. /\ DOMAIN ln.events = DOMAIN script
      /\ \A j \in DOMAIN script : ln.events[j] = EventText(script[j])
  BY <1>2 DEF TimelineText
<1> HIDE DEF ln, w
<1>4. \A j \in DOMAIN ln.events : EventOk(ln.events[j]) /\ ParseIoEvent(ln.events[j]) = script[j]
  <2>1. \A j \in DOMAIN script : script[j] \in ScriptedIO
    OBVIOUS
  <2>2. QED
    BY <1>3, <2>1, EventReadBack
<1>5. [j \in DOMAIN ln.events |-> ParseIoEvent(ln.events[j])] = script
  <2>1. script = [j \in DOMAIN script |-> script[j]]
    OBVIOUS
  <2>2. QED
    BY <1>3, <1>4, <2>1
<1>6. i \in DOMAIN w.procs
  <2>1. w.procs \in Seq(ScenarioProcess)
    BY <1>1 DEF Scenario
  <2>2. QED
    BY <1>1, <2>1
<1>7. ApplyLine(w, ln) = [w EXCEPT !.procs[i].script = @ \o script]
  BY <1>1, <1>2, <1>4, <1>5 DEF ApplyLine, ApplyProcess
<1>8. <<>> \o script = script
  OBVIOUS
<1>9. [w EXCEPT !.procs[i].script = @ \o script] = [w EXCEPT !.procs = [w.procs EXCEPT ![i] = r]]
  <2>1. [w EXCEPT !.procs[i].script = @ \o script]
          = [w EXCEPT !.procs = [w.procs EXCEPT ![i] = [q EXCEPT !.script = q.script \o script]]]
    BY <1>1, <1>6 DEF Scenario
  <2>2. q.script \o script = script
    BY <1>8
  <2>3. QED
    BY <2>1, <2>2
<1>10. QED
  BY <1>1, <1>7, <1>9 DEF w, ln

LEMMA OneLead ==
    ASSUME NEW ln, NEW a \in Scenario, a.ok, NEW b \in Scenario, b.ok, b = ApplyLine(a, ln)
    PROVE  Leads(<<ln>>, a, b)
<1> DEFINE s == [i \in 0..1 |-> IF i = 0 THEN a ELSE b]
           lines == <<ln>>
<1>1. s \in [0..1 -> Scenario] /\ s[0] = a /\ s[1] = b
  OBVIOUS
<1>2. Len(lines) = 1 /\ lines[1] = ln
  OBVIOUS
<1> HIDE DEF s, lines
<1>3. Trail(s, lines)
  <2> SUFFICES ASSUME NEW i \in 1..1 PROVE s[i - 1].ok /\ s[i] = ApplyLine(s[i - 1], lines[i])
    BY <1>2 DEF Trail
  <2>1. i = 1 /\ i - 1 = 0
    OBVIOUS
  <2>2. QED
    BY <1>1, <1>2, <2>1
<1>4. QED
  BY <1>1, <1>2, <1>3 DEF Leads, lines

\* A process as the editor shows it.
Shown(p) == [arrival |-> p.arrival, burst |-> p.burst, events |-> TimelineText(p.script)]

LEMMA ProcessLead ==
    ASSUME NEW p \in ScenarioProcess, ReadableProcess(Narrow, p), NEW a \in Scenario, a.ok
    PROVE  Leads(ProcessText(Shown(p)), a, WithProcess(a, p))
<1>1. /\ p.arrival \in MachineInt /\ p.burst \in MachineInt /\ p.script \in Seq(ScriptedIO)
      /\ p = [arrival |-> p.arrival, burst |-> p.burst, script |-> p.script]
      /\ \A j \in DOMAIN p.script : ReadableEvent(Narrow, p.script[j])
  BY DEF ScenarioProcess, ReadableProcess
<1> DEFINE q1 == [arrival |-> 0, burst |-> 0, script |-> <<>>]
           q2 == [arrival |-> p.arrival, burst |-> 0, script |-> <<>>]
           q3 == [arrival |-> p.arrival, burst |-> p.burst, script |-> <<>>]
           l2 == Option("arrival", "", Num(p.arrival))
           l3 == Option("burst", "", Num(p.burst))
           l4 == Timeline(TimelineText(p.script))
           head == <<ProcessHeader, l2, l3>>
<1>2. /\ q1 \in ScenarioProcess /\ q2 \in ScenarioProcess /\ q3 \in ScenarioProcess
      /\ q3.script = <<>>
  <2>1. MachineInt \subseteq Int /\ <<>> \in Seq(ScriptedIO)
    BY DEF MachineInt
  <2>2. QED
    BY <1>1, <2>1 DEF ScenarioProcess
<1>14. /\ [q1 EXCEPT !.arrival = p.arrival] = q2 /\ [q2 EXCEPT !.burst = p.burst] = q3
       /\ [q3 EXCEPT !.script = p.script] = p /\ (p.script = <<>> => q3 = p)
  <2>1. [q1 EXCEPT !.arrival = p.arrival] = q2 /\ [q2 EXCEPT !.burst = p.burst] = q3
    OBVIOUS
  <2>2. [q3 EXCEPT !.script = p.script]
            = [arrival |-> p.arrival, burst |-> p.burst, script |-> p.script]
    OBVIOUS
  <2>3. QED
    BY <1>1, <2>1, <2>2
<1>3. ApplyLine(a, ProcessHeader) = WithProcess(a, q1)
  BY DEF ApplyLine, ProcessHeader, WithProcess
<1> HIDE DEF q1, q2, q3
<1>4. ApplyLine(WithProcess(a, q1), l2) = WithProcess(a, q2)
  <2>1. ApplyLine(WithProcess(a, q1), l2) = WithProcess(a, [q1 EXCEPT !.arrival = p.arrival])
    BY <1>1, <1>2, ArrivalLine
  <2>2. QED
    BY <1>14, <2>1
<1>5. ApplyLine(WithProcess(a, q2), l3) = WithProcess(a, q3)
  <2>1. ApplyLine(WithProcess(a, q2), l3) = WithProcess(a, [q2 EXCEPT !.burst = p.burst])
    BY <1>1, <1>2, ArrivalLine
  <2>2. QED
    BY <1>14, <2>1
<1>6. ApplyLine(WithProcess(a, q3), l4) = WithProcess(a, p)
  <2>1. ApplyLine(WithProcess(a, q3), l4) = WithProcess(a, [q3 EXCEPT !.script = p.script])
    BY <1>1, <1>2, TimelineLine
  <2>2. QED
    BY <1>14, <2>1
<1>7. \A q \in ScenarioProcess : WithProcess(a, q) \in Scenario /\ WithProcess(a, q).ok
  BY LastProcess
<1> HIDE DEF l2, l3, l4, head
<1>8. Leads(head, a, WithProcess(a, q3))
  BY <1>2, <1>3, <1>4, <1>5, <1>7, ThreeLead DEF head
<1>9. ProcessText(Shown(p)) = head \o (IF TimelineText(p.script) = <<>> THEN <<>> ELSE <<l4>>)
  BY DEF ProcessText, Shown, head, l2, l3, l4
<1> DEFINE S == {ProcessHeader, l2, l3, l4}
<1>10. head \in Seq(S) /\ <<l4>> \in Seq(S) /\ <<>> \in Seq(S)
  <2>1. head \in Seq(S)
    BY ThreeIn DEF head
  <2>2. QED
    BY <2>1
<1>11. CASE p.script = <<>>
  <2>1. TimelineText(p.script) = <<>>
    BY <1>11 DEF TimelineText
  <2>2. head \o <<>> = head
    BY <1>10
  <2>3. QED
    BY <1>8, <1>9, <1>11, <1>14, <2>1, <2>2
<1>12. CASE p.script # <<>>
  <2>1. TimelineText(p.script) # <<>>
    <3>1. DOMAIN TimelineText(p.script) = DOMAIN p.script
      BY DEF TimelineText
    <3>2. DOMAIN p.script # {} /\ DOMAIN <<>> = {}
      BY <1>1, <1>12
    <3>3. QED
      BY <3>1, <3>2
  <2>2. Leads(<<l4>>, WithProcess(a, q3), WithProcess(a, p))
    BY <1>2, <1>6, <1>7, OneLead
  <2> HIDE DEF S
  <2>3. Leads(head \o <<l4>>, a, WithProcess(a, p))
    BY <1>8, <1>10, <2>2, LeadsThrough
  <2>4. QED
    BY <1>9, <2>1, <2>3
<1>13. QED
  BY <1>11, <1>12

LEMMA OneMore ==
    ASSUME NEW b \in Scenario, b.ok, NEW p \in ScenarioProcess
    PROVE  LET c == WithProcess(b, p)
           IN  /\ c \in Scenario /\ c.ok /\ c.cfg = b.cfg
               /\ Len(c.procs) = Len(b.procs) + 1 /\ c.procs[Len(b.procs) + 1] = p
               /\ \A i \in 1..Len(b.procs) : c.procs[i] = b.procs[i]
<1> DEFINE c == WithProcess(b, p)
<1>1. c \in Scenario /\ c.ok /\ c.cfg = b.cfg /\ c.procs = Append(b.procs, p)
  BY LastProcess
<1>2. b.procs \in Seq(ScenarioProcess)
  BY DEF Scenario
<1> HIDE DEF c
<1>3. QED
  BY <1>1, <1>2 DEF c

LEMMA ProcessesLead ==
    ASSUME NEW sc \in Scenario, Readable(Narrow, sc), NEW a \in Scenario, a.ok, a.procs = <<>>
    PROVE  \E b \in Scenario :
              /\ b.ok /\ b.cfg = a.cfg /\ b.procs = sc.procs
              /\ Leads(FlattenSeq(TextsOf(ShownProcs(sc))), a, b)
<1> DEFINE procs == sc.procs
           n == Len(procs)
           S == EditorLine(Narrow)
           texts == TextsOf(ShownProcs(sc))
<1>1. /\ procs \in Seq(ScenarioProcess) /\ n \in Nat /\ DOMAIN procs = 1..n
      /\ \A i \in 1..n : procs[i] \in ScenarioProcess /\ ReadableProcess(Narrow, procs[i])
  BY DEF Scenario, Readable
<1>2. Lows(Narrow)
  BY IntHalfAssumption DEF Lows, Narrow, MachineInt
<1>3. /\ DOMAIN ShownProcs(sc) = 1..n /\ DOMAIN texts = 1..n
      /\ \A i \in 1..n : ShownProcs(sc)[i] = Shown(procs[i])
      /\ \A i \in 1..n : texts[i] = ProcessText(Shown(procs[i]))
  BY <1>1 DEF ShownProcs, TextsOf, Shown
<1>4. /\ Len(texts) = n
      /\ \A i \in 1..n : texts[i] \in Seq(S)
  <2>1. ShownProcs(sc) \in Seq(EditorProcess(Narrow))
    BY <1>2, ShownProcsOk
  <2>2. \A i \in 1..n : Shown(procs[i]) \in EditorProcess(Narrow)
    BY <1>3, <2>1
  <2>3. Narrow \subseteq Int
    BY DEF Narrow
  <2>4. \A i \in 1..n : texts[i] \in Seq(S)
    <3> SUFFICES ASSUME NEW i \in 1..n PROVE texts[i] \in Seq(S)
      OBVIOUS
    <3>1. texts[i] = ProcessText(Shown(procs[i])) /\ Shown(procs[i]) \in EditorProcess(Narrow)
      BY <1>3, <2>2
    <3> HIDE DEF texts
    <3>2. QED
      BY <2>3, <3>1, ProcessWritten
  <2>5. texts = [i \in 1..n |-> texts[i]]
    BY <1>3 DEF TextsOf
  <2> HIDE DEF texts, n
  <2>6. Len(texts) = n
    BY <1>1, <2>5
  <2>7. QED
    BY <2>4, <2>6
<1> HIDE DEF texts, S, procs, n
<1>5. CASE n = 0
  <2>1. procs = <<>>
    BY <1>1, <1>5 DEF n
  <2>2. FlattenSeq(texts) = texts /\ texts = <<>>
    <3>1. Len(texts) = 0
      BY <1>4, <1>5
    <3>2. texts = TextsOf(ShownProcs(sc))
      BY DEF texts
    <3>3. FlattenSeq(texts) = texts
      BY <3>1 DEF FlattenSeq
    <3>4. DOMAIN ShownProcs(sc) = {} /\ DOMAIN texts = {}
      BY <1>3, <1>5
    <3>5. texts = [i \in {} |-> ProcessText(ShownProcs(sc)[i])]
      BY <3>2, <3>4 DEF TextsOf
    <3>6. texts = <<>>
      BY <3>5
    <3>7. QED
      BY <3>3, <3>6
  <2>3. Leads(<<>>, a, a)
    BY LeadsNowhere
  <2>4. QED
    BY <2>1, <2>2, <2>3 DEF procs, texts
<1>6. CASE n # 0
  <2>1. PICK f : Concatenates(f, texts) /\ FlattenSeq(texts) = f[n]
    BY <1>1, <1>4, <1>6, FlattenRecursion
  <2>2. \A i \in 1..n : f[i] = IF i = 1 THEN texts[i] ELSE f[i - 1] \o texts[i]
    BY <1>4, <2>1 DEF Concatenates
  <2> DEFINE Done(k, b) == /\ b \in Scenario /\ b.ok /\ b.cfg = a.cfg /\ Len(b.procs) = k
                           /\ \A i \in 1..k : b.procs[i] = procs[i]
                           /\ f[k] \in Seq(S) /\ Leads(f[k], a, b)
             K == {k \in Nat : k + 1 <= n => \E b : Done(k + 1, b)}
  <2>4. 0 \in K
    <3>1. 1 \in 1..n
      BY <1>1, <1>6
    <3>2. f[1] = texts[1] /\ f[1] \in Seq(S)
      BY <1>4, <2>2, <3>1
    <3>3. Leads(f[1], a, WithProcess(a, procs[1]))
      BY <1>1, <1>3, <3>1, <3>2, ProcessLead
    <3>4. Len(a.procs) = 0
      OBVIOUS
    <3>5. PICK b : b = WithProcess(a, procs[1])
      OBVIOUS
    <3>6. b \in Scenario /\ b.ok /\ b.cfg = a.cfg /\ Len(b.procs) = 1 /\ b.procs[1] = procs[1]
      <4>1. procs[1] \in ScenarioProcess
        BY <1>1, <3>1
      <4>2. /\ b \in Scenario /\ b.ok /\ b.cfg = a.cfg
            /\ Len(b.procs) = Len(a.procs) + 1 /\ b.procs[Len(a.procs) + 1] = procs[1]
        BY <3>5, <4>1, OneMore
      <4>3. QED
        BY <3>4, <4>2
    <3>7. Done(1, b)
      BY <3>2, <3>3, <3>5, <3>6
    <3> HIDE DEF Done
    <3>8. QED
      BY <3>7
  <2>5. ASSUME NEW k \in K PROVE k + 1 \in K
    <3> SUFFICES ASSUME k + 2 <= n PROVE \E c : Done(k + 2, c)
      <4> HIDE DEF Done
      <4>1. QED
        BY Z3
    <3> DEFINE i == k + 2
    <3>1. k \in Nat /\ k + 1 <= n /\ i \in 1..n /\ i # 1 /\ i - 1 = k + 1
      BY <1>1
    <3>2. PICK b : Done(k + 1, b)
      BY <3>1
    <3>3. f[i] = f[k + 1] \o texts[i]
      BY <2>2, <3>1
    <3> HIDE DEF i
    <3>4. f[i] \in Seq(S)
      BY <1>4, <3>1, <3>2, <3>3
    <3>5. PICK c : c = WithProcess(b, procs[i])
      OBVIOUS
    <3>6. procs[i] \in ScenarioProcess /\ ReadableProcess(Narrow, procs[i])
          /\ texts[i] = ProcessText(Shown(procs[i])) /\ texts[i] \in Seq(S)
      BY <1>1, <1>3, <1>4, <3>1
    <3>7. Leads(texts[i], b, c)
      BY <3>2, <3>5, <3>6, ProcessLead
    <3>8. Leads(f[i], a, c)
      BY <3>2, <3>3, <3>6, <3>7, LeadsThrough
    <3>9. /\ c \in Scenario /\ c.ok /\ c.cfg = a.cfg /\ Len(c.procs) = (k + 1) + 1
          /\ c.procs[(k + 1) + 1] = procs[i] /\ \A j \in 1..(k + 1) : c.procs[j] = b.procs[j]
      <4>1. b \in Scenario /\ b.ok /\ b.cfg = a.cfg /\ Len(b.procs) = k + 1
        BY <3>2
      <4>2. procs[i] \in ScenarioProcess
        BY <3>6
      <4> HIDE DEF Done
      <4>3. /\ c \in Scenario /\ c.ok /\ c.cfg = b.cfg
            /\ Len(c.procs) = Len(b.procs) + 1 /\ c.procs[Len(b.procs) + 1] = procs[i]
            /\ \A j \in 1..Len(b.procs) : c.procs[j] = b.procs[j]
        <5>1. PICK p : p = procs[i]
          OBVIOUS
        <5>2. PICK m : m = Len(b.procs)
          OBVIOUS
        <5>3. /\ c \in Scenario /\ c.ok /\ c.cfg = b.cfg
              /\ Len(c.procs) = m + 1 /\ c.procs[m + 1] = p
          BY <3>5, <4>1, <4>2, <5>1, <5>2, OneMore
        <5>4. \A j \in 1..m : c.procs[j] = b.procs[j]
          BY <3>5, <4>1, <4>2, <5>1, <5>2, OneMore
        <5>5. QED
          BY <5>1, <5>2, <5>3, <5>4
      <4>4. QED
        BY <4>1, <4>3
    <3>10. \A j \in 1..i : c.procs[j] = procs[j]
      BY <3>1, <3>2, <3>9
    <3>11. Len(c.procs) = i
      BY <3>1, <3>9
    <3>12. Done(i, c)
      BY <3>4, <3>8, <3>9, <3>10, <3>11
    <3> HIDE DEF Done
    <3>13. QED
      BY <3>12 DEF i
  <2>6. \E b : Done(n, b)
    <3>1. n - 1 \in K
      <4> HIDE DEF K
      <4>1. K \subseteq Nat
        BY DEF K
      <4>2. K = Nat
        BY <2>4, <2>5, <4>1, SetInduction
      <4>3. QED
        BY <1>1, <1>6, <4>2
    <3> HIDE DEF Done
    <3>2. (n - 1) + 1 <= n /\ (n - 1) + 1 = n
      BY <1>1
    <3>3. \E b : Done((n - 1) + 1, b)
      BY <3>1, <3>2
    <3>4. QED
      BY <3>2, <3>3
  <2>7. PICK b : Done(n, b)
    BY <2>6
  <2>8. b.procs = procs
    <3>1. b.procs \in Seq(ScenarioProcess) /\ Len(b.procs) = n /\ Len(procs) = n
      BY <2>7 DEF Scenario, n
    <3>2. \A i \in 1..n : b.procs[i] = procs[i]
      BY <2>7
    <3>3. QED
      BY <1>1, <3>1, <3>2
  <2>9. QED
    BY <2>1, <2>7, <2>8 DEF procs, texts
<1>7. QED
  BY <1>5, <1>6

-----------------------------------------------------------------------------
(* Opening and saving.                                                     *)

\* Without options the program starts from what the bridge starts from.
LEMMA SameDefaults == Validate(ParserStart).cfg = BridgeDefaults
<1> DEFINE s == ParserStart
           share == [d \in Device |-> IF d = "disk" THEN 34 ELSE 33]
<1>1. s \in ParserState /\ s.cfg = DefaultConfig /\ s.explicit = {} /\ ~s.rateSet
  BY StartShape DEF ParserStart
<1>2. /\ DefaultConfig \in SimConfig /\ DefaultConfig.arrivalMode = "batch"
      /\ DefaultConfig.emit = FALSE
  BY DefaultShape DEF DefaultConfig
<1> HIDE DEF s
<1>3. EffectiveMode(s) = "batch"
  BY <1>1, <1>2 DEF EffectiveMode
<1>4. FilledShares(s) = share
  BY <1>1 DEF FilledShares
<1>5. Acceptable(s)
  <2>8. s.cfg.num = DefaultConfig.num /\ s.cfg.duration = DefaultConfig.duration
    BY <1>1
  <2>1. /\ s.cfg.num["quantumHi"] = 3 /\ s.cfg.num["quantumLo"] = 6 /\ s.cfg.num["pIo"] = 0
    BY <2>8 DEF DefaultConfig, NumKey
  <2>2. \A d \in Device : s.cfg.duration[d] \in {Span(5, 5), Span(8, 8), Span(12, 12)}
    BY <2>8 DEF DefaultConfig
  <2>3. \A d \in Device : s.cfg.duration[d].min <= s.cfg.duration[d].max
                          /\ s.cfg.duration[d].min >= 1
    <3>1. \A n \in {5, 8, 12} : Span(n, n).min = n /\ Span(n, n).max = n /\ n <= n /\ n >= 1
      BY DEF Span
    <3>2. QED
      BY <2>2, <3>1
  <2>4. SharesFit(s)
    BY <1>1 DEF SharesFit, Device
  <2>5. ModeHasParameter(EffectiveMode(s), s.cfg.num)
    BY <1>3 DEF ModeHasParameter
  <2>6. 0 \in 0..100
    OBVIOUS
  <2>7. QED
    BY <1>1, <1>2, <2>1, <2>3, <2>4, <2>5, <2>6 DEF Acceptable
<1>6. Validate(s) = [s EXCEPT !.cfg.share = share, !.cfg.arrivalMode = "batch"]
  BY <1>3, <1>4, <1>5 DEF Validate
<1> HIDE DEF share
<1>7. Validate(s).cfg = [DefaultConfig EXCEPT !.share = share, !.arrivalMode = "batch"]
  BY <1>1, <1>6 DEF ParserState
<1>8. [DefaultConfig EXCEPT !.share = share, !.arrivalMode = "batch"]
        = [DefaultConfig EXCEPT !.share = share]
  BY <1>2 DEF SimConfig
<1>9. BridgeDefaults = [DefaultConfig EXCEPT !.share = share]
  BY DEF BridgeDefaults, share
<1>10. QED
  BY <1>7, <1>8, <1>9 DEF s

\* What the form of an opened file says.
LEMMA FormShows ==
    ASSUME NEW sc \in Scenario, Readable(Narrow, sc), NEW form \in EditorForm(Narrow)
    PROVE  LET f == FormOf(sc, form)
           IN  /\ FormReads(f, {"quantumHi", "quantumLo", "seed"})
               /\ sc.procs = <<>> => FormReads(f, {"processCount", "pIo"})
               /\ \A k \in {"quantumHi", "quantumLo", "seed", "pIo"} : f.num[k] = sc.cfg.num[k]
               /\ sc.procs = <<>> => f.num["processCount"] = sc.cfg.num["processCount"]
               /\ f.duration = sc.cfg.duration /\ f.mode = sc.cfg.mode
               /\ f.service = sc.cfg.service
               /\ \A d \in {"disk", "tape"} : f.share[d] = sc.cfg.share[d]
<1> DEFINE f == FormOf(sc, form)
           num == [k \in NumKey |->
                     IF \/ k \in {"quantumHi", "quantumLo", "seed", "pIo"}
                        \/ k = "processCount" /\ sc.procs = <<>>
                     THEN sc.cfg.num[k] ELSE form.num[k]]
           share == [d \in {"disk", "tape"} |-> sc.cfg.share[d]]
<1>1. f = [form EXCEPT !.num = num, !.service = sc.cfg.service,
                       !.duration = sc.cfg.duration, !.mode = sc.cfg.mode, !.share = share]
  BY DEF FormOf
<1>2. /\ \A k \in {"quantumHi", "quantumLo", "seed", "pIo"} : num[k] = sc.cfg.num[k]
      /\ sc.procs = <<>> => num["processCount"] = sc.cfg.num["processCount"]
      /\ \A d \in {"disk", "tape"} : share[d] = sc.cfg.share[d]
  BY DEF NumKey
<1> HIDE DEF f, num, share
<1>3. /\ f.num = num /\ f.service = sc.cfg.service /\ f.duration = sc.cfg.duration
      /\ f.mode = sc.cfg.mode /\ f.share = share
  BY <1>1 DEF EditorForm
<1>4. /\ \A k \in FileKey : sc.cfg.num[k] \in Int /\ AsInt(sc.cfg.num[k]) = sc.cfg.num[k]
      /\ \A d \in Device : sc.cfg.share[d] \in Int /\ AsInt(sc.cfg.share[d]) = sc.cfg.share[d]
  <2>1. \A n \in MachineInt : n \in Int /\ AsInt(n) = n
    BY AsIntFits, IntHalfAssumption DEF MachineInt
  <2>2. QED
    BY <2>1 DEF Readable, ReadableConfig
<1>5. /\ \A d \in Device : sc.cfg.duration[d] \in Spans(Narrow)
      /\ sc.cfg.service \in Spans(Narrow)
  BY DEF Readable, ReadableConfig
<1>6. \A d \in Device : sc.cfg.mode[d] \in IoMode
  BY DEF Scenario, SimConfig
<1>7. \A keys : (\A k \in keys : f.num[k] \in Int /\ AsInt(f.num[k]) = f.num[k]) => FormReads(f, keys)
  <2>1. \A d \in {"disk", "tape"} : f.share[d] \in Int /\ AsInt(f.share[d]) = f.share[d]
    BY <1>2, <1>3, <1>4 DEF Device
  <2>2. QED
    BY <1>3, <1>5, <1>6, <2>1 DEF FormReads
<1>8. \A k \in {"quantumHi", "quantumLo", "seed", "pIo", "processCount"} : k \in FileKey
  BY DEF FileKey
<1>9. FormReads(f, {"quantumHi", "quantumLo", "seed"})
  <2>1. \A k \in {"quantumHi", "quantumLo", "seed"} : f.num[k] \in Int /\ AsInt(f.num[k]) = f.num[k]
    BY <1>2, <1>3, <1>4, <1>8
  <2>2. QED
    BY <1>7, <2>1
<1>10. ASSUME sc.procs = <<>> PROVE FormReads(f, {"processCount", "pIo"})
  <2>1. \A k \in {"processCount", "pIo"} : f.num[k] \in Int /\ AsInt(f.num[k]) = f.num[k]
    BY <1>2, <1>3, <1>4, <1>8, <1>10
  <2>2. QED
    BY <1>7, <2>1
<1>11. QED
  BY <1>2, <1>3, <1>9, <1>10 DEF f

\* What is read of a text r agrees with what the text was made of, sc.
ReadsAs(r, sc) ==
    /\ r \in Scenario /\ (r.ok <=> AllValid(sc.procs)) /\ r.procs = sc.procs
    /\ \A k \in {"quantumHi", "quantumLo", "seed", "pIo"} : r.cfg.num[k] = sc.cfg.num[k]
    /\ r.cfg.duration = sc.cfg.duration /\ r.cfg.mode = sc.cfg.mode
    /\ sc.procs = <<>> =>
          /\ r.cfg.num["processCount"] = sc.cfg.num["processCount"]
          /\ r.cfg.service = sc.cfg.service
          /\ \A d \in {"disk", "tape"} : r.cfg.share[d] = sc.cfg.share[d]

\* A text that the editor shows is read as what it was made of, if its scripts
\* are valid.
LEMMA ReadAgain ==
    ASSUME NEW sc \in Scenario, Readable(Narrow, sc),
           sc.procs # <<>> => sc.cfg.num["pIo"] = 0,
           NEW form \in EditorForm(Narrow), NEW e, e.form = FormOf(sc, form),
           e.procs = ShownProcs(sc)
    PROVE  ReadsAs(ParseLines(ToScn(e), BridgeDefaults), sc)
<1> DEFINE f == FormOf(sc, form)
           B == BridgeDefaults
           a == Parsed(TRUE, B, <<>>)
           texts == FlattenSeq(TextsOf(ShownProcs(sc)))
           random == IF e.procs # <<>> THEN <<>> ELSE RandomLines(f)
<1>1. /\ FormReads(f, {"quantumHi", "quantumLo", "seed"})
      /\ sc.procs = <<>> => FormReads(f, {"processCount", "pIo"})
      /\ \A k \in {"quantumHi", "quantumLo", "seed", "pIo"} : f.num[k] = sc.cfg.num[k]
      /\ sc.procs = <<>> => f.num["processCount"] = sc.cfg.num["processCount"]
      /\ f.duration = sc.cfg.duration /\ f.mode = sc.cfg.mode
      /\ f.service = sc.cfg.service
      /\ \A d \in {"disk", "tape"} : f.share[d] = sc.cfg.share[d]
  BY FormShows
<1>2. B \in SimConfig /\ B.num["pIo"] = 0
  BY BridgeConfig
<1>3. ToScn(e) = FixedLines(f) \o random \o texts
  BY DEF ToScn, FixedLines, RandomLines, TextsOf
<1>4. e.procs # <<>> <=> sc.procs # <<>>
  <2>1. DOMAIN ShownProcs(sc) = DOMAIN sc.procs
    BY DEF ShownProcs
  <2>2. sc.procs \in Seq(ScenarioProcess)
    BY DEF Scenario
  <2>3. \A s \in Seq(ScenarioProcess) : s = <<>> <=> DOMAIN s = {}
    OBVIOUS
  <2>4. ShownProcs(sc) \in Seq(EditorProcess(Narrow))
    BY ShownProcsOk, IntHalfAssumption DEF Lows, Narrow, MachineInt
  <2>5. \A s \in Seq(EditorProcess(Narrow)) : s = <<>> <=> DOMAIN s = {}
    OBVIOUS
  <2>6. QED
    BY <2>1, <2>2, <2>3, <2>4, <2>5
<1> HIDE DEF f, B, texts, random
<1>5. a \in Scenario /\ a.ok /\ a.procs = <<>> /\ a.cfg = B
  BY <1>2 DEF Parsed, Scenario
<1> HIDE DEF a
<1>6. PICK b \in Scenario :
          /\ b.ok /\ b.procs = <<>> /\ Leads(FixedLines(f), a, b)
          /\ \A k \in NumKey : b.cfg.num[k] = IF k \in {"quantumHi", "quantumLo", "seed"}
                                              THEN f.num[k] ELSE a.cfg.num[k]
          /\ \A d \in Device : b.cfg.duration[d] = f.duration[d] /\ b.cfg.mode[d] = f.mode[d]
  BY <1>1, <1>5, FixedLead
<1>7. PICK c \in Scenario :
          /\ c.ok /\ c.procs = <<>> /\ Leads(random, b, c)
          /\ \A k \in {"quantumHi", "quantumLo", "seed", "pIo"} : c.cfg.num[k] = sc.cfg.num[k]
          /\ \A d \in Device : c.cfg.duration[d] = sc.cfg.duration[d] /\ c.cfg.mode[d] = sc.cfg.mode[d]
          /\ sc.procs = <<>> =>
                /\ c.cfg.num["processCount"] = sc.cfg.num["processCount"]
                /\ c.cfg.service = sc.cfg.service
                /\ \A d \in {"disk", "tape"} : c.cfg.share[d] = sc.cfg.share[d]
  <2>1. {"quantumHi", "quantumLo", "seed", "pIo", "processCount"} \subseteq NumKey
    BY DEF NumKey
  <2>2. CASE sc.procs = <<>>
    <3>1. random = RandomLines(f)
      BY <1>4, <2>2 DEF random
    <3>2. PICK c \in Scenario :
              /\ c.ok /\ c.procs = <<>> /\ Leads(RandomLines(f), b, c)
              /\ \A k \in NumKey : c.cfg.num[k] = IF k \in {"processCount", "pIo"}
                                                  THEN f.num[k] ELSE b.cfg.num[k]
              /\ \A d \in Device : /\ c.cfg.duration[d] = b.cfg.duration[d]
                                   /\ c.cfg.mode[d] = b.cfg.mode[d]
              /\ \A d \in {"disk", "tape"} : c.cfg.share[d] = f.share[d]
              /\ c.cfg.service = f.service
      BY <1>1, <1>6, <2>2, RandomLead
    <3>3. \A k \in {"quantumHi", "quantumLo", "seed", "pIo", "processCount"} :
              c.cfg.num[k] = sc.cfg.num[k]
      BY <1>1, <1>6, <2>1, <2>2, <3>2
    <3>4. QED
      BY <1>1, <1>6, <3>1, <3>2, <3>3
  <2>3. CASE sc.procs # <<>>
    <3>1. random = <<>>
      BY <1>4, <2>3 DEF random
    <3>2. Leads(<<>>, b, b)
      BY <1>6, LeadsNowhere
    <3>3. \A k \in {"quantumHi", "quantumLo", "seed", "pIo"} : b.cfg.num[k] = sc.cfg.num[k]
      BY <1>1, <1>2, <1>5, <1>6, <2>1, <2>3
    <3>4. QED
      BY <1>1, <1>6, <2>3, <3>1, <3>2, <3>3
  <2>4. QED
    BY <2>2, <2>3
<1>8. PICK d \in Scenario : d.ok /\ d.cfg = c.cfg /\ d.procs = sc.procs /\ Leads(texts, c, d)
  BY <1>7, ProcessesLead DEF texts
<1>9. Leads(ToScn(e), a, d)
  <2> DEFINE T == EditorLine(Narrow)
  <2>1. FixedLines(f) \in Seq(T) /\ random \in Seq(T) /\ texts \in Seq(T)
    <3>1. Lows(Narrow) /\ Narrow \subseteq Int
      BY IntHalfAssumption DEF Lows, Narrow, MachineInt
    <3>2. f \in EditorForm(Narrow)
      BY <3>1, FormOfOk DEF f
    <3>3. FixedLines(f) \in Seq(T) /\ RandomLines(f) \in Seq(T)
      BY <3>1, <3>2, FixedWritten, RandomWritten
    <3>4. ShownProcs(sc) \in Seq(EditorProcess(Narrow))
      BY <3>1, ShownProcsOk
    <3>5. texts \in Seq(T)
      BY <3>1, <3>4, ProcessesWritten DEF texts
    <3> HIDE DEF T
    <3>6. random \in Seq(T)
      <4>1. <<>> \in Seq(T)
        OBVIOUS
      <4>2. QED
        BY <3>3, <4>1 DEF random
    <3>7. QED
      BY <3>3, <3>5, <3>6
  <2> HIDE DEF T
  <2>2. Leads(FixedLines(f) \o random, a, c)
    BY <1>6, <1>7, <2>1, LeadsThrough
  <2>3. FixedLines(f) \o random \in Seq(T)
    BY <2>1
  <2>4. QED
    BY <1>3, <1>8, <2>1, <2>2, <2>3, LeadsThrough
<1>10. ParseLines(ToScn(e), B) = Validated(d)
  BY <1>2, <1>8, <1>9, LeadsParsed DEF a
<1>11. /\ Validated(d) \in Scenario /\ (Validated(d).ok <=> AllValid(sc.procs))
       /\ Validated(d).procs = d.procs /\ Validated(d).cfg = d.cfg
  <2>1. Validated(d) = IF AllValid(sc.procs) THEN d ELSE [d EXCEPT !.ok = FALSE]
    BY <1>8 DEF Validated, AllValid, Reject
  <2>2. LET x == [d EXCEPT !.ok = FALSE]
        IN  x \in Scenario /\ ~x.ok /\ x.procs = d.procs /\ x.cfg = d.cfg
    BY DEF Scenario
  <2>3. CASE AllValid(sc.procs)
    BY <1>8, <2>1, <2>3
  <2>4. CASE ~AllValid(sc.procs)
    BY <2>1, <2>2, <2>4
  <2>5. QED
    BY <2>3, <2>4
<1>12. d.cfg.duration = sc.cfg.duration /\ d.cfg.mode = sc.cfg.mode
  <2>1. /\ d.cfg.duration \in [Device -> Duration] /\ sc.cfg.duration \in [Device -> Duration]
        /\ d.cfg.mode \in [Device -> IoMode] /\ sc.cfg.mode \in [Device -> IoMode]
    BY DEF Scenario, SimConfig
  <2>2. \A x \in Device : d.cfg.duration[x] = sc.cfg.duration[x] /\ d.cfg.mode[x] = sc.cfg.mode[x]
    BY <1>7, <1>8
  <2>3. QED
    BY <2>1, <2>2
<1>13. QED
  BY <1>7, <1>8, <1>10, <1>11, <1>12 DEF B, ReadsAs

-----------------------------------------------------------------------------
(* Opened and saved again, a file describes the same run: the theorem.     *)

\* No duration written anywhere begins with a number that C's int cuts.
ShortDuration(t) == t.lo < IntHalf
ShortEvents(events) ==
    \A j \in DOMAIN events : events[j].hasDuration => ShortDuration(events[j].duration)
DurationsFit ==
    /\ \A fs \in FileSystems, p \in Path : \A i \in DOMAIN fs[p].lines :
          LET ln == fs[p].lines[i]
          IN  /\ ln.opt \in {"duration", "service"} => ShortDuration(ln.text)
              /\ ln.opt = "io" => ShortEvents(ln.events)
    /\ \A t \in Timelines : ShortEvents(t)

LEMMA NarrowLows == Lows(Narrow) /\ Narrow \subseteq Int
BY IntHalfAssumption DEF Lows, Narrow, MachineInt

\* Such files and timelines fit the numbers that an int keeps as they are.
LEMMA TextsNarrow == ASSUME DurationsFit PROVE TextsFit(Narrow)
<1>1. ASSUME NEW fs \in FileSystems PROVE FilesFit(Narrow, fs)
  <2>1. fs \in [Path -> [exists : BOOLEAN, lines : Seq(ScenarioLine)]]
    BY FileSystemsAssumption
  <2>2. DOMAIN fs = Path /\ \A p \in Path : fs[p].lines \in Seq(ScenarioLine)
    BY <2>1
  <2>3. ASSUME NEW p \in Path PROVE FittingLines(Narrow, fs[p].lines)
    <3>1. PICK lines \in Seq(ScenarioLine) : lines = fs[p].lines
      BY <2>2
    <3>2. LegibleLines(lines) /\ Len(lines) \in Nat /\ DOMAIN lines = 1..Len(lines)
      BY LinesLegible
    <3>3. ASSUME NEW i \in 1..Len(lines) PROVE Fits(Narrow, lines[i])
      <4>1. LegibleLine(lines[i])
        BY <3>2, <3>3 DEF LegibleLines
      <4> DEFINE ln == lines[i]
      <4>2. /\ ln.opt \in {"duration", "service"} => ShortDuration(ln.text)
            /\ ln.opt = "io" => ShortEvents(ln.events)
        BY <3>1, <3>2, <3>3 DEF DurationsFit
      <4> HIDE DEF ln
      <4>3. ln.opt \in {"duration", "service"} => ln.text.lo \in Narrow
        BY <4>1, <4>2 DEF LegibleLine, LegibleText, ShortDuration, Narrow, ln
      <4>4. ASSUME ln.opt = "io", NEW j \in 1..Len(ln.events), ln.events[j].hasDuration
            PROVE  ln.events[j].duration.lo \in Narrow
        <5>1. Len(ln.events) \in Nat /\ ln.events = [k \in 1..Len(ln.events) |-> ln.events[k]]
          BY <4>1, <4>4 DEF LegibleLine, ln
        <5>2. LegibleEvent(ln.events[j])
          BY <4>1, <4>4 DEF LegibleLine, ln
        <5>3. j \in DOMAIN ln.events
          BY <4>4, <5>1
        <5>4. ShortDuration(ln.events[j].duration)
          BY <4>2, <4>4, <5>3 DEF ShortEvents
        <5>5. QED
          BY <5>2, <5>4 DEF LegibleEvent, LegibleText, ShortDuration, Narrow
      <4>5. QED
        BY <4>1, <4>3, <4>4 DEF Fits, ln
    <3>4. QED
      BY <3>1, <3>2, <3>3 DEF FittingLines
  <2>4. QED
    BY <2>2, <2>3 DEF FilesFit, FileFits
<1>2. ASSUME NEW t \in Timelines PROVE t \in Seq(EditorEvent(Narrow))
  <2>1. t \in Seq(TimelineEvent)
    BY TimelinesAssumption
  <2>2. ASSUME NEW j \in DOMAIN t PROVE t[j] \in EditorEvent(Narrow)
    <3>1. t[j] \in TimelineEvent
      BY <2>1, <2>2
    <3>2. t[j].hasDuration => t[j].duration.lo < IntHalf
      BY <2>2 DEF DurationsFit, ShortEvents, ShortDuration
    <3>3. t[j].duration.lo \in Int
      BY <3>1 DEF TimelineEvent, Text
    <3>4. QED
      BY <3>1, <3>2, <3>3 DEF EditorEvent, Narrow
  <2>3. QED
    BY <2>1, <2>2
<1>3. QED
  BY <1>1, <1>2 DEF TextsFit

\* LoadScenario counts the processes, and changes nothing else.
Counted(r, sc) ==
    /\ r.ok = sc.ok /\ r.procs = sc.procs
    /\ \A k \in NumKey : k # "processCount" \/ sc.procs = <<>> =>
                             r.cfg.num[k] = sc.cfg.num[k]
    /\ r.cfg.duration = sc.cfg.duration /\ r.cfg.mode = sc.cfg.mode
    /\ r.cfg.share = sc.cfg.share /\ r.cfg.service = sc.cfg.service

LEMMA LoadCounts ==
    ASSUME NEW file, NEW cfg, NEW sc \in Scenario, ParseFile(file, cfg) = sc,
           NEW r, r = LoadScenario(file, cfg)
    PROVE  Counted(r, sc)
<1> DEFINE c == [sc.cfg EXCEPT !.num["processCount"] = Len(sc.procs)]
<1>1. CASE sc.procs = <<>>
  <2>1. r = sc
    BY <1>1 DEF LoadScenario
  <2>2. QED
    BY <2>1 DEF Counted
<1>2. CASE sc.procs # <<>>
  <2>1. r = [sc EXCEPT !.cfg = c]
    BY <1>2 DEF LoadScenario, Scenario
  <2>2. /\ sc.cfg \in SimConfig
    BY DEF Scenario
  <2>3. /\ \A k \in NumKey : k # "processCount" => c.num[k] = sc.cfg.num[k]
        /\ c.duration = sc.cfg.duration /\ c.mode = sc.cfg.mode
        /\ c.share = sc.cfg.share /\ c.service = sc.cfg.service
    BY <2>2 DEF SimConfig
  <2> HIDE DEF c
  <2>4. r.ok = sc.ok /\ r.procs = sc.procs /\ r.cfg = c
    BY <2>1 DEF Scenario
  <2>5. QED
    BY <1>2, <2>3, <2>4 DEF Counted
<1>3. QED
  BY <1>1, <1>2

\* Scenarios that agree on what matters have the same settings.
LEMMA SameSettings ==
    ASSUME NEW r, NEW sc, r.procs = <<>> <=> sc.procs = <<>>,
           \A k \in {"quantumHi", "quantumLo", "seed", "pIo"} : r.cfg.num[k] = sc.cfg.num[k],
           r.cfg.duration = sc.cfg.duration, r.cfg.mode = sc.cfg.mode,
           sc.procs # <<>> => sc.cfg.num["pIo"] = 0,
           sc.procs = <<>> =>
              /\ r.cfg.num["processCount"] = sc.cfg.num["processCount"]
              /\ r.cfg.service = sc.cfg.service
              /\ \A d \in {"disk", "tape"} : r.cfg.share[d] = sc.cfg.share[d]
    PROVE  SettingsOf(r) = SettingsOf(sc)
<1> DEFINE keys == {"quantumHi", "quantumLo", "seed", "pIo"}
                       \cup (IF sc.procs = <<>> THEN {"processCount"} ELSE {})
           nums(s) == [k \in keys |-> s.cfg.num[k]]
           shares(s) == IF s.cfg.num["pIo"] > 0
                        THEN <<s.cfg.share["disk"], s.cfg.share["tape"]>> ELSE <<>>
           services(s) == IF sc.procs = <<>> THEN <<s.cfg.service>> ELSE <<>>
<1>1. \A k \in keys : r.cfg.num[k] = sc.cfg.num[k]
  OBVIOUS
<1>2. nums(r) = nums(sc)
  BY <1>1
<1>3. shares(r) = shares(sc)
  <2>1. CASE sc.procs = <<>>
    <3>1. r.cfg.num["pIo"] = sc.cfg.num["pIo"]
      OBVIOUS
    <3>2. r.cfg.share["disk"] = sc.cfg.share["disk"] /\ r.cfg.share["tape"] = sc.cfg.share["tape"]
      BY <2>1
    <3>3. QED
      BY <3>1, <3>2
  <2>2. CASE sc.procs # <<>>
    <3>1. r.cfg.num["pIo"] = 0 /\ sc.cfg.num["pIo"] = 0
      BY <2>2
    <3>2. ~(0 > 0)
      OBVIOUS
    <3>3. QED
      BY <3>1, <3>2
  <2>3. QED
    BY <2>1, <2>2
<1>4. services(r) = services(sc)
  OBVIOUS
<1>5. \A s : (s.procs = <<>> <=> sc.procs = <<>>) =>
          SettingsOf(s) = [num |-> nums(s), duration |-> s.cfg.duration, mode |-> s.cfg.mode,
                           share |-> shares(s), service |-> services(s)]
  BY DEF SettingsOf
<1> HIDE DEF nums, shares, services
<1>6. QED
  BY <1>2, <1>3, <1>4, <1>5

\* What the boxes in view make of a scenario: a scenario again, in which only
\* what no box can hold has changed.
LEMMA BoxedScenario ==
    ASSUME NEW sc \in Scenario, Readable(Narrow, sc)
    PROVE  LET t == [sc EXCEPT !.procs = Viewed(sc.procs)]
           IN  /\ t \in Scenario /\ Readable(Narrow, t) /\ t.cfg = sc.cfg
               /\ t.procs = <<>> <=> sc.procs = <<>>
               /\ Viewed(ShownProcs(sc)) = ShownProcs(t)
               /\ SameInBoxes(sc.procs, t.procs)
               /\ AllValid(sc.procs) /\ (\A i \in DOMAIN sc.procs : sc.procs[i].burst <= TimeMost)
                     => AllValid(t.procs)
<1> DEFINE P == sc.procs
           n == Len(P)
           Q == Viewed(P)
           t == [sc EXCEPT !.procs = Q]
<1>1. /\ P \in Seq(ScenarioProcess) /\ n \in Nat /\ DOMAIN P = 1..n
      /\ \A i \in 1..n : P[i] \in ScenarioProcess /\ ReadableProcess(Narrow, P[i])
  BY DEF Scenario, Readable
<1>2. ASSUME NEW p \in ScenarioProcess, ReadableProcess(Narrow, p)
      PROVE  /\ Boxed(p) \in ScenarioProcess /\ ReadableProcess(Narrow, Boxed(p))
             /\ Boxed(p).arrival = InBox(p.arrival) /\ Boxed(p).burst = InBox(p.burst)
             /\ Boxed(p).script = p.script
             /\ \A ev : Boxed([arrival |-> p.arrival, burst |-> p.burst, events |-> ev])
                           = [arrival |-> Boxed(p).arrival, burst |-> Boxed(p).burst,
                              events |-> ev]
  <2> PICK a, b : a = InBox(p.arrival) /\ b = InBox(p.burst)
    OBVIOUS
  <2>1. p.arrival \in Int /\ p.burst \in Int /\ p.arrival \in MachineInt /\ p.burst \in MachineInt
    BY <1>2 DEF ScenarioProcess, ReadableProcess
  <2>2. a \in Int /\ b \in Int /\ a \in MachineInt /\ b \in MachineInt
    BY <2>1, BoxNumber
  <2>3. Boxed(p) = [p EXCEPT !.arrival = a, !.burst = b]
    BY DEF Boxed
  <2>4. /\ Boxed(p) \in ScenarioProcess
        /\ Boxed(p).arrival = a /\ Boxed(p).burst = b /\ Boxed(p).script = p.script
    BY <2>2, <2>3 DEF ScenarioProcess
  <2>5. \A ev : Boxed([arrival |-> p.arrival, burst |-> p.burst, events |-> ev])
                   = [arrival |-> a, burst |-> b, events |-> ev]
    <3> TAKE ev
    <3> DEFINE row == [arrival |-> p.arrival, burst |-> p.burst, events |-> ev]
    <3>1. row.arrival = p.arrival /\ row.burst = p.burst
      OBVIOUS
    <3>2. Boxed(row) = [row EXCEPT !.arrival = a, !.burst = b]
      BY <3>1 DEF Boxed
    <3>3. QED
      BY <3>2
  <2>6. ReadableProcess(Narrow, Boxed(p))
    BY <1>2, <2>2, <2>4 DEF ReadableProcess
  <2>7. QED
    BY <2>4, <2>5, <2>6
<1>3. \A i \in 1..n : Q[i] = IF i <= InView THEN Boxed(P[i]) ELSE P[i]
  BY <1>1 DEF Viewed
<1>4. DOMAIN Q = 1..n
  BY <1>1 DEF Viewed
<1>5. \A i \in 1..n : Q[i] \in ScenarioProcess /\ ReadableProcess(Narrow, Q[i])
  BY <1>1, <1>2, <1>3
<1>6. Q \in [1..n -> ScenarioProcess]
  BY <1>1, <1>5 DEF Viewed
<1> HIDE DEF Q, P, n
<1>7. Q \in Seq(ScenarioProcess) /\ Len(Q) = n
  BY <1>1, <1>6
<1>8. t \in Scenario /\ t.cfg = sc.cfg /\ t.procs = Q
  BY <1>7 DEF Scenario
<1> HIDE DEF t
<1>9. Readable(Narrow, t)
  BY <1>4, <1>5, <1>8 DEF Readable
<1>10. Q = <<>> <=> P = <<>>
  <2>1. \A s \in Seq(ScenarioProcess) : s = <<>> <=> Len(s) = 0
    OBVIOUS
  <2>2. Len(P) = n
    BY DEF n
  <2>3. QED
    BY <1>1, <1>7, <2>1, <2>2
<1>11. Viewed(ShownProcs(sc)) = ShownProcs(t)
  <2>1. /\ DOMAIN ShownProcs(sc) = 1..n
        /\ \A i \in 1..n : ShownProcs(sc)[i]
              = [arrival |-> P[i].arrival, burst |-> P[i].burst,
                 events |-> TimelineText(P[i].script)]
    BY <1>1 DEF ShownProcs, P
  <2>2. ShownProcs(t) = [i \in 1..n |->
              [arrival |-> Q[i].arrival, burst |-> Q[i].burst,
               events |-> TimelineText(Q[i].script)]]
    BY <1>4, <1>8 DEF ShownProcs
  <2>3. Viewed(ShownProcs(sc)) = [i \in 1..n |->
              IF i <= InView THEN Boxed(ShownProcs(sc)[i]) ELSE ShownProcs(sc)[i]]
    BY <2>1 DEF Viewed
  <2>4. ASSUME NEW i \in 1..n
        PROVE  (IF i <= InView THEN Boxed(ShownProcs(sc)[i]) ELSE ShownProcs(sc)[i])
                  = [arrival |-> Q[i].arrival, burst |-> Q[i].burst,
                     events |-> TimelineText(Q[i].script)]
    <3>1. CASE i <= InView
      <4>1. Q[i] = Boxed(P[i]) /\ Q[i].script = P[i].script
        BY <1>1, <1>2, <1>3, <3>1
      <4>2. Boxed(ShownProcs(sc)[i]) = [arrival |-> Boxed(P[i]).arrival,
                                        burst |-> Boxed(P[i]).burst,
                                        events |-> TimelineText(P[i].script)]
        <5> PICK p, ev : p = P[i] /\ ev = TimelineText(P[i].script)
          OBVIOUS
        <5>1. p \in ScenarioProcess /\ ReadableProcess(Narrow, p)
          BY <1>1
        <5>2. Boxed([arrival |-> p.arrival, burst |-> p.burst, events |-> ev])
                 = [arrival |-> Boxed(p).arrival, burst |-> Boxed(p).burst, events |-> ev]
          BY <1>2, <5>1
        <5>3. ShownProcs(sc)[i] = [arrival |-> p.arrival, burst |-> p.burst, events |-> ev]
          BY <2>1
        <5>4. QED
          BY <5>2, <5>3
      <4>3. QED
        BY <3>1, <4>1, <4>2
    <3>2. CASE ~(i <= InView)
      BY <1>3, <2>1, <3>2
    <3>3. QED
      BY <3>1, <3>2
  <2>5. QED
    BY <2>2, <2>3, <2>4
<1>12. SameInBoxes(P, Q)
  <2>1. ASSUME NEW i \in 1..n
        PROVE  /\ Q[i].script = P[i].script
               /\ P[i].arrival \in 0..TimeMost => Q[i].arrival = P[i].arrival
               /\ P[i].burst \in 0..TimeMost => Q[i].burst = P[i].burst
    <3>1. P[i].arrival \in Int /\ P[i].burst \in Int
      BY <1>1 DEF ScenarioProcess
    <3>2. QED
      BY <1>1, <1>2, <1>3, <3>1, BoxNumber
  <2>2. Len(P) = n
    BY DEF n
  <2>3. QED
    BY <1>1, <1>7, <2>1, <2>2 DEF SameInBoxes
<1>13. ASSUME AllValid(P), \A i \in DOMAIN P : P[i].burst <= TimeMost
       PROVE  AllValid(Q)
  <2> SUFFICES ASSUME NEW i \in 1..n PROVE ValidScript(Q[i].script, Q[i].burst)
    BY <1>4 DEF AllValid
  <2>1. P[i].burst \in Int /\ P[i].burst <= TimeMost /\ ValidScript(P[i].script, P[i].burst)
    BY <1>1, <1>13 DEF ScenarioProcess, AllValid
  <2>2. Q[i].script = P[i].script
    BY <1>1, <1>2, <1>3
  <2>3. Q[i].burst = P[i].burst \/ (~(Q[i].burst > 0) /\ Q[i].burst = 0)
    <3>1. InBox(P[i].burst) = P[i].burst \/ InBox(P[i].burst) = 0
      BY <2>1, BoxNumber DEF InBox
    <3>2. Q[i].burst \in {P[i].burst, InBox(P[i].burst)}
      BY <1>1, <1>2, <1>3
    <3>3. QED
      BY <3>1, <3>2
  <2>4. QED
    BY <2>1, <2>2, <2>3 DEF ValidScript
<1>14. QED
  BY <1>8, <1>9, <1>10, <1>11, <1>12, <1>13 DEF P, Q, t

\* Opening a valid file in the editor.
LEMMA OpenedShows ==
    ASSUME NEW low, Lows(low), NEW e, EditorOk(low, e), NEW path \in Path, path # "",
           FileFits(low, files[path]), Summarize(files[path]).ok
    PROVE  LET r == OpenWith(e, path)
               sc == Summarize(files[path])
           IN  r.form = FormOf(sc, e.form) /\ r.procs = Viewed(ShownProcs(sc))
<1> DEFINE sc == Summarize(files[path])
           f == FormOf(sc, e.form)
           q == Viewed(ShownProcs(sc))
           a == Loaded(e, path)
<1>2. OpenWith(e, path) = Revalidated(a)
  BY DEF OpenWith, Loaded, ShownProcs
<1>3. sc \in Scenario /\ Readable(low, sc)
  BY SummaryType
<1>4. f \in EditorForm(low) /\ q \in Seq(EditorProcess(low))
  BY <1>3, FormOfOk, ShownProcsOk, ViewedOk DEF EditorOk
<1>5. a = [e EXCEPT !.path = path, !.form = f, !.procs = q]
  BY DEF Loaded
<1> HIDE DEF a, f, q, sc
<1>6. DOMAIN a = EditorFields /\ a.form = f /\ a.procs = q /\ a.path = path
  BY <1>5 DEF EditorOk, EditorFields
<1>7. EditorOk(low, a)
  BY <1>4, <1>6 DEF EditorOk
<1>8. Revalidated(a).form = a.form /\ Revalidated(a).procs = a.procs
  BY <1>7, RevalidatedOk
<1>9. QED
  BY <1>2, <1>6, <1>8 DEF f, q, sc

\* What the editor shows of a file that the program accepts, written as text,
\* is read as the file was, but for what the boxes cut.
LEMMA FileInvOpens == ASSUME FileInv(Narrow) PROVE OpeningLosesNothing
<1> SUFFICES ASSUME OverlayShown, overlay.mode = "scenario", overlay.path # "",
                    LET before == Launched(files[overlay.path])
                    IN  before.ok /\ (before.procs # <<>> => before.cfg.num["pIo"] = 0)
             PROVE  LET before == Launched(files[overlay.path])
                        after == Launched(FileOf(ToScn(OpenWith(editor, overlay.path))))
                    IN  /\ SettingsOf(after) = SettingsOf(before)
                        /\ SameInBoxes(before.procs, after.procs)
                        /\ (\A i \in DOMAIN before.procs : before.procs[i].burst <= TimeMost)
                              => after.ok
  BY DEF OpeningLosesNothing
<1>1. PICK p \in Path : p = overlay.path
  BY DEF FileInv, PickOk
<1>2. FileFits(Narrow, files[p]) /\ EditorOk(Narrow, editor) /\ p # ""
  BY <1>1 DEF FileInv, FilesFit, EditorInv
<1> DEFINE file == files[p]
           B == BridgeDefaults
           sc == Summarize(file)
           e == OpenWith(editor, p)
           lines == ToScn(e)
           again == ParseLines(lines, B)
           t == [sc EXCEPT !.procs = Viewed(sc.procs)]
           before == Launched(file)
           after == Launched(FileOf(lines))
<1>3. sc \in Scenario /\ Readable(Narrow, sc)
  BY <1>2, NarrowLows, SummaryType
<1>4. before = LoadScenario(file, B) /\ after = LoadScenario(FileOf(lines), B)
  BY SameDefaults DEF Launched
<1>5. ParseFile(file, B) = sc
  BY DEF Summarize
<1>6. ParseFile(FileOf(lines), B) = again
  BY DEF ParseFile, FileOf
<1>7. before.ok /\ (before.procs # <<>> => before.cfg.num["pIo"] = 0)
  BY <1>1
<1> HIDE DEF before, after, again, sc, e, B, file, t
<1>8. Counted(before, sc)
  BY <1>3, <1>4, <1>5, LoadCounts
<1>9. sc.ok /\ (sc.procs # <<>> => sc.cfg.num["pIo"] = 0)
  BY <1>7, <1>8 DEF NumKey, Counted
<1>10. AllValid(sc.procs)
  <2>1. CASE file.exists
    <3>1. LegibleLines(file.lines)
      BY <1>2, <2>1, FitsLegible DEF FileFits, file
    <3>2. sc = ParseLines(file.lines, B)
      BY <1>5, <2>1 DEF ParseFile
    <3>3. B \in SimConfig
      BY BridgeConfig DEF B
    <3>4. QED
      BY <1>9, <3>1, <3>2, <3>3, ParseType
  <2>2. CASE ~file.exists
    <3>1. sc = Parsed(FALSE, B, <<>>)
      BY <1>5, <2>2 DEF ParseFile
    <3>2. ~sc.ok
      BY <3>1 DEF Parsed
    <3>3. QED
      BY <1>9, <3>2
  <2>3. QED
    BY <2>1, <2>2
<1>11. e.form = FormOf(sc, editor.form) /\ e.procs = Viewed(ShownProcs(sc))
  BY <1>2, <1>9, NarrowLows, OpenedShows DEF e, sc, file
<1>12. editor.form \in EditorForm(Narrow)
  BY <1>2 DEF EditorOk
<1>13. /\ t \in Scenario /\ Readable(Narrow, t) /\ t.cfg = sc.cfg
       /\ t.procs = <<>> <=> sc.procs = <<>>
       /\ Viewed(ShownProcs(sc)) = ShownProcs(t)
       /\ SameInBoxes(sc.procs, t.procs)
       /\ (\A i \in DOMAIN sc.procs : sc.procs[i].burst <= TimeMost) => AllValid(t.procs)
  BY <1>3, <1>10, BoxedScenario DEF t
<1>14. FormOf(t, editor.form) = FormOf(sc, editor.form)
  BY <1>13 DEF FormOf
<1>15. /\ again \in Scenario /\ (again.ok <=> AllValid(t.procs)) /\ again.procs = t.procs
       /\ \A k \in {"quantumHi", "quantumLo", "seed", "pIo"} : again.cfg.num[k] = sc.cfg.num[k]
       /\ again.cfg.duration = sc.cfg.duration /\ again.cfg.mode = sc.cfg.mode
       /\ sc.procs = <<>> =>
             /\ again.cfg.num["processCount"] = sc.cfg.num["processCount"]
             /\ again.cfg.service = sc.cfg.service
             /\ \A d \in {"disk", "tape"} : again.cfg.share[d] = sc.cfg.share[d]
  <2>1. e.form = FormOf(t, editor.form) /\ e.procs = ShownProcs(t)
    BY <1>11, <1>13, <1>14
  <2>2. t \in Scenario /\ Readable(Narrow, t) /\ (t.procs # <<>> => t.cfg.num["pIo"] = 0)
    BY <1>9, <1>13
  <2>3. ReadsAs(ParseLines(ToScn(e), BridgeDefaults), t)
    BY <1>12, <2>1, <2>2, ReadAgain
  <2>4. ReadsAs(again, t)
    BY <2>3 DEF again, B, lines
  <2>5. QED
    BY <1>13, <2>4 DEF ReadsAs
<1> HIDE DEF lines
<1>16. Counted(after, again)
  BY <1>4, <1>6, <1>15, LoadCounts
<1>17. {"quantumHi", "quantumLo", "seed", "pIo", "processCount"} \subseteq NumKey
  BY DEF NumKey
<1>18. SettingsOf(before) = SettingsOf(sc)
  <2>1. \A k \in {"quantumHi", "quantumLo", "seed", "pIo"} : before.cfg.num[k] = sc.cfg.num[k]
    BY <1>8, <1>17 DEF Counted
  <2>2. sc.procs = <<>> => before.cfg.num["processCount"] = sc.cfg.num["processCount"]
    BY <1>8, <1>17 DEF Counted
  <2>3. QED
    BY <1>8, <1>9, <2>1, <2>2, SameSettings DEF Counted
<1>19. SettingsOf(after) = SettingsOf(sc)
  <2>0. again.procs = <<>> <=> sc.procs = <<>>
    BY <1>15, <1>13
  <2>1. \A k \in {"quantumHi", "quantumLo", "seed", "pIo"} : after.cfg.num[k] = sc.cfg.num[k]
    <3>1. CASE sc.procs = <<>>
      BY <1>15, <1>16, <1>17, <2>0, <3>1 DEF Counted
    <3>2. CASE sc.procs # <<>>
      BY <1>15, <1>16, <1>17, <3>2 DEF Counted
    <3>3. QED
      BY <3>1, <3>2
  <2>2. sc.procs = <<>> =>
           /\ after.cfg.num["processCount"] = sc.cfg.num["processCount"]
           /\ after.cfg.service = sc.cfg.service
           /\ \A d \in {"disk", "tape"} : after.cfg.share[d] = sc.cfg.share[d]
    BY <1>15, <1>16, <1>17, <2>0 DEF Counted
  <2>3. /\ after.procs = <<>> <=> sc.procs = <<>>
        /\ after.cfg.duration = sc.cfg.duration /\ after.cfg.mode = sc.cfg.mode
    BY <1>15, <1>16, <2>0 DEF Counted
  <2>4. QED
    BY <1>9, <2>1, <2>2, <2>3, SameSettings
<1>20. /\ SameInBoxes(before.procs, after.procs)
       /\ (\A i \in DOMAIN before.procs : before.procs[i].burst <= TimeMost) => after.ok
  <2>1. before.procs = sc.procs /\ after.procs = t.procs /\ (after.ok <=> AllValid(t.procs))
    BY <1>8, <1>15, <1>16 DEF Counted
  <2>2. QED
    BY <1>13, <2>1
<1>21. QED
  BY <1>1, <1>18, <1>19, <1>20 DEF before, after, lines, e, file

\* Whatever is on disk, a valid file opened in the editor and saved again
\* describes the same run, but for arrivals and bursts that no box can hold, as
\* long as no duration is so long that the program cuts it.
THEOREM OpenedLosesNothing ==
    ASSUME DurationsFit
    PROVE  ScreenSpec => []OpeningLosesNothing
<1>1. Lows(Narrow) /\ TextsFit(Narrow)
  BY NarrowLows, TextsNarrow
<1>2. ScreenInit => FileInv(Narrow)
  BY <1>1, InitFiles
<1>3. FileInv(Narrow) /\ [ScreenNext]_screenVars => FileInv(Narrow)'
  BY <1>1, ScreenFits
<1>4. FileInv(Narrow) => OpeningLosesNothing
  BY FileInvOpens
<1>5. QED
  BY <1>2, <1>3, <1>4, PTL DEF ScreenSpec
=============================================================================
