------------------------------ MODULE Startup -------------------------------
(***************************************************************************)
(* The start of rr-feedback (apps/rr-feedback/main.c): the options are     *)
(* taken one by one and validated, a scenario file is read on top of them, *)
(* and the processes are created and handed to the core.                   *)
(*                                                                         *)
(* A burst that is sampled stands as the range it is sampled from, and the *)
(* rolls of the generators are any outcome their rate allows.              *)
(***************************************************************************)
EXTENDS ScenarioFile

CONSTANTS
    BernoulliCap,   \* 100000 in the program
    PoissonCap      \* 1000000

ASSUME CapAssumption == BernoulliCap \in Nat /\ PoissonCap \in Nat

VARIABLES
    files,      \* the file system: files[p] is the file named p
    argv,       \* the options not yet taken
    ps,         \* the state of parse_args
    phase,      \* how far the program is
    job,        \* the configuration and scripts to run
    spawned,    \* the processes handed to sim_add_process
    spawnTick   \* local tick of the generators

progVars == <<argv, ps, phase, job, spawned, spawnTick>>
startVars == <<files, progVars>>

Phase == {"idle", "parsing", "configured", "spawning", "running",
          "help", "usage", "failed"}
Settled == {"running", "help", "usage", "failed"}

\* The program that is given these options, before it looks at them.
Fresh(options) ==
    /\ argv = options
    /\ ps = ParserStart
    /\ job = [cfg |-> DefaultConfig, procs |-> <<>>]
    /\ spawned = <<>>
    /\ spawnTick = 0

\* The step that starts it.
Start(options) ==
    /\ phase' = "parsing"
    /\ argv' = options
    /\ ps' = ParserStart
    /\ job' = [cfg |-> DefaultConfig, procs |-> <<>>]
    /\ spawned' = <<>>
    /\ spawnTick' = 0

-----------------------------------------------------------------------------
(* What there is to spawn.                                                 *)

Count == job.cfg.num["processCount"]
Missing == IF Count > Len(spawned) THEN Count - Len(spawned) ELSE 0

\* spawn_one; without a service duration the burst is 0, which is unlimited.
Service == IF job.cfg.service.min > 0 THEN job.cfg.service ELSE Span(0, 0)
NewProcess(tick) == [arrival |-> tick, burst |-> Service, script |-> <<>>]
Spawn(n, at(_)) == spawned' = spawned \o [i \in 1..n |-> NewProcess(at(i))]

-----------------------------------------------------------------------------
(* Slips, as in Arguments.                                                 *)

\* The second of the two loops that spawn the rest forgotten.
SpawnRestBernoulli ==
    /\ Missing > 0
    /\ job.cfg.arrivalMode \in {"bernoulli", "geometric"}
    /\ spawnTick > BernoulliCap
    /\ spawned' = spawned \o [i \in 1..Missing |-> NewProcess(spawnTick)]
    /\ UNCHANGED spawnTick

\* What is left over arrives at tick 0.
RestTickZero == 0

-----------------------------------------------------------------------------
(* parse_args.                                                             *)

TakeOption ==
    /\ phase = "parsing"
    /\ ps.error = 0
    /\ argv # <<>>
    /\ ps' = Take(ps, Head(argv))
    /\ argv' = Tail(argv)
    /\ UNCHANGED <<files, phase, job, spawned, spawnTick>>

Refused ==
    /\ phase = "parsing"
    /\ ps.error # 0
    /\ phase' = IF ps.error = 2 THEN "help" ELSE "usage"
    /\ UNCHANGED <<files, argv, ps, job, spawned, spawnTick>>

OptionsTaken ==
    /\ phase = "parsing"
    /\ ps.error = 0
    /\ argv = <<>>
    /\ ps' = Validate(ps)
    /\ phase' = IF ps'.error = 0 THEN "configured" ELSE "usage"
    /\ UNCHANGED <<files, argv, job, spawned, spawnTick>>

\* The values of a scenario file replace those of the options; then the file
\* that snapshots are written to is opened, if there is one.
Configure ==
    /\ phase = "configured"
    /\ \E sc \in {IF ps.cfg.scenario = "" THEN Parsed(TRUE, ps.cfg, <<>>)
                  ELSE LoadScenario(files[ps.cfg.scenario], ps.cfg)} :
          IF sc.ok
          THEN /\ job' = [cfg |-> sc.cfg, procs |-> sc.procs]
               /\ phase' \in {"spawning"} \cup (IF sc.cfg.emit THEN {"failed"} ELSE {})
          ELSE phase' = "failed" /\ UNCHANGED job
    /\ UNCHANGED <<files, argv, ps, spawned, spawnTick>>

-----------------------------------------------------------------------------
(* spawn_scripted and spawn_processes.                                     *)

SpawnScripted ==
    /\ job.procs # <<>>
    /\ Missing > 0
    /\ spawned' = [i \in DOMAIN job.procs |->
                     [arrival |-> job.procs[i].arrival,
                      burst |-> Span(job.procs[i].burst, job.procs[i].burst),
                      script |-> job.procs[i].script]]
    /\ UNCHANGED spawnTick

SpawnBatch ==
    /\ job.cfg.arrivalMode = "batch"
    /\ Missing > 0
    /\ Spawn(Missing, LAMBDA i : 0)
    /\ UNCHANGED spawnTick

SpawnUniform ==
    /\ job.cfg.arrivalMode = "uniform"
    /\ Missing > 0
    /\ Spawn(Missing, LAMBDA i : AsInt((i - 1) * job.cfg.num["arrivalInterval"]))
    /\ UNCHANGED spawnTick

\* One roll per tick.
BernoulliTick ==
    /\ job.cfg.arrivalMode \in {"bernoulli", "geometric"}
    /\ Missing > 0
    /\ spawnTick <= BernoulliCap
    /\ \/ job.cfg.num["arrivalRate"] > 0 /\ Spawn(1, LAMBDA i : spawnTick)
       \/ job.cfg.num["arrivalRate"] < 100 /\ UNCHANGED spawned
    /\ spawnTick' = spawnTick + 1

\* A sample per tick, of which no more are used than are missing.
PoissonTick ==
    /\ job.cfg.arrivalMode = "poisson"
    /\ Missing > 0
    /\ spawnTick <= PoissonCap
    /\ \E n \in 0..Missing : Spawn(n, LAMBDA i : spawnTick)
    /\ spawnTick' = spawnTick + 1

RestTick == spawnTick
SpawnRest ==
    /\ Missing > 0
    /\ \/ job.cfg.arrivalMode \in {"bernoulli", "geometric"} /\ spawnTick > BernoulliCap
       \/ job.cfg.arrivalMode = "poisson" /\ spawnTick > PoissonCap
    /\ Spawn(Missing, LAMBDA i : RestTick)
    /\ UNCHANGED spawnTick

Generate == SpawnBatch \/ SpawnUniform \/ BernoulliTick \/ PoissonTick \/ SpawnRest

SpawnSome ==
    /\ phase = "spawning"
    /\ IF job.procs # <<>> THEN SpawnScripted ELSE Generate
    /\ UNCHANGED <<files, argv, ps, phase, job>>

\* The run of the core begins, or the server's.
Run ==
    /\ phase = "spawning"
    /\ Missing = 0
    /\ phase' = "running"
    /\ UNCHANGED <<files, argv, ps, job, spawned, spawnTick>>

Program == TakeOption \/ Refused \/ OptionsTaken \/ Configure \/ SpawnSome \/ Run

-----------------------------------------------------------------------------
\* The program on its own, started from a shell.
CONSTANTS CommandLines, FileSystems

ASSUME CommandLinesAssumption == CommandLines \subseteq Seq(CommandOption)
ASSUME FileSystemsAssumption ==
    FileSystems \subseteq [Path -> [exists : BOOLEAN, lines : Seq(ScenarioLine)]]

ShellInit ==
    /\ files \in FileSystems
    /\ \E options \in CommandLines : Fresh(options)
    /\ phase = "parsing"

StartupSpec == ShellInit /\ [][Program]_startVars /\ WF_startVars(Program)

-----------------------------------------------------------------------------
(* What must hold.                                                         *)

\* The device shares of options that were accepted sum to 100, whichever of
\* them were given: the odd percent of the remainder is nobody's loss.  (No
\* sum is out of the range of an int when each share given is a quarter of
\* it at most.)
SmallShares(state) ==
    \A d \in state.explicit :
        4 * state.cfg.share[d] <= IntHalf /\ -4 * state.cfg.share[d] <= IntHalf
SharesSumTo100 ==
    phase \in {"configured", "spawning", "running"} /\ SmallShares(ps) =>
        ps.cfg.share["disk"] + ps.cfg.share["tape"] + ps.cfg.share["printer"] = 100

\* What an option decides: options that decide different things do not meet.
Subject(o) ==
    CASE o.opt = "interactive" -> <<"int", "steps">>
      [] o.opt \in {"serve", "file", "help"} -> <<o.opt, "">>
      [] OTHER -> <<o.opt, o.key>>

Swapped(options, i) ==
    [options EXCEPT ![i] = options[i + 1], ![i + 1] = options[i]]

\* The order of options that decide different things does not matter, the help
\* apart, which whatever comes before it can forestall: a rate means Bernoulli
\* arrivals before and after any other option, and a mode that is given wins
\* over it before and after.
OrderIrrelevant ==
    phase = "parsing" /\ ps = ParserStart =>
        \A i \in 1..Len(argv) - 1 :
            /\ Subject(argv[i]) # Subject(argv[i + 1])
            /\ argv[i].opt # "help" /\ argv[i + 1].opt # "help"
            => LET one == ParseArgs(argv)
                   other == ParseArgs(Swapped(argv, i))
               IN  one = other \/ (one.error = 1 /\ other.error = 1)

\* What the core is handed is what it assumes, for every way there: as many
\* processes as were asked for; scripts that validate() accepted; generated
\* arrivals in the order of the processes, none before tick 0 unless i times
\* the interval is out of range.
HandedOver ==
    phase = "running" =>
        /\ Len(spawned) = IF Count > 0 THEN Count ELSE 0
        /\ \A i \in DOMAIN spawned :
              ValidScript(spawned[i].script, spawned[i].burst.min)
        /\ job.procs = <<>> /\ (Count - 1) * job.cfg.num["arrivalInterval"] < IntHalf =>
              \A i \in DOMAIN spawned :
                  spawned[i].arrival >= (IF i = 1 THEN 0 ELSE spawned[i - 1].arrival)

\* The program starts, or says why not: whatever the options, the generators
\* run out of ticks when their rolls never hit.
StartEnds == phase = "parsing" ~> phase \in Settled
=============================================================================
