# A formal model of cutesim

cutesim simulates a Round Robin scheduler with feedback: a CPU, two ready
queues, three I/O devices, and processes that arrive, compute, do I/O and
complete.  A server offers it over a socket, one command per line, and a viewer
launches and drives that server.  This directory holds TLA+ modules of the way
into a run (options, scenario files, the viewer's forms), of the scheduling core,
of what it reports, of the server and of the viewer, TLC runs over small
instances, and proofs checked with TLAPS.
Paths are those of the repository (`src/simulation.c` is the library's).

Sections: [the system](#the-system), [modules](#modules), [runs](#runs),
[proofs](#proofs), [mutations](#mutations), [findings](#findings),
[hazards](#hazards), [not modelled](#not-modelled), [plan](#plan).

## The system

| Part | State it keeps | Operations | Talks to |
|---|---|---|---|
| Scheduler core, `src/simulation.c` | clock, pending array, five queues, `running`, `quantum_used`, generator state, per-tick log and `last_*` | `sim_create`, `sim_add_process`, `sim_step`, `sim_run`, `sim_run_until_done`, `sim_is_done` | calls every library part below |
| Process record, `src/process.c` | status, priority, counters, position in its I/O script | `process_create`, `process_set_status` | read and written by the core |
| Queue, `src/queue.c` | linked list: head, tail, size | enqueue, dequeue, peek; the core also unlinks nodes itself | used by the core |
| Random numbers, `src/rng.c` | one 32-bit word inside the simulation | `rng_range`, `rng_roll` | called by the core |
| Statistics, `src/statistics.c` | none | averages over the processes | reads process records |
| Scenario files, `src/scenario.c` | none | parse, validate | fills a configuration and a list of processes |
| Snapshot, `apps/common/snapshot.c` | none | one JSON document per tick | reads the whole simulation |
| Command server, `apps/common/emit_tcp.c` | the simulation, the listening socket, the client's socket | step, status, reset, one command per line | core, snapshot, one client at a time |
| File emitter, `apps/common/emit_file.c` | an open file | a line per tick | snapshot |
| Arguments, `apps/rr-feedback/args.c` | the configuration, what was given explicitly | one option after the other, then validation | getopt_long, `main` |
| Command line, `apps/rr-feedback/main.c`, `display.c` | configuration, scripts, generator | options, scenario file, spawning; batch, steps, interactive; trace | arguments, scenario files, core, server |
| Launch overlay and scenario editor, `apps/viewer/qml/components` | two forms, a list of processes, a path, the summary of a file | edit, validate, save, launch | scenario bridge, controller |
| Scenario bridge, `apps/viewer/src/ScenarioBridge.cpp` | none | parse, summarize, write | the parser of scenario files, the file system |
| Viewer, `apps/viewer/src` and `qml` | connection, last snapshot, histories, child process | launch, connect, send, reset, reconfigure | the server's socket |

The library is single threaded; `sim_step` is its one operation with behaviour,
and the difficulty inside it is the order of its phases:

1. arrivals of this tick enter `hi_queue` in `creation_seq` order;
2. processes whose I/O ended on an earlier tick leave their device: from disk to
   `lo_queue`, from tape and printer to `hi_queue`;
3. if the CPU is free, the head of `hi_queue`, or else of `lo_queue`, gets it;
4. the devices serve a tick: everything in the queue (`concurrent`) or its head
   (`queue`);
5. the process on the CPU starts a scripted I/O that is due, or a random I/O, and
   leaves without consuming the tick; or it consumes the tick and completes, is
   preempted into `lo_queue` with priority LOW, or goes on;
6. the clock advances.

A process that came back, was dispatched and started another I/O has made three
transitions in one call, so the interesting failures need several ticks and
several processes.

The server is single threaded too, but what it talks to is not: clients come, send
and leave while it writes, and the viewer is an event loop whose handlers run
between those of the socket, a timer and the user, with a process it starts and
kills.  The interesting failures there are replies that belong to something that
is over.

The way into a run is sequential, but passes through many hands: a form becomes
flags, or the text of a file; the file is parsed once by the viewer to show it and
again by the program that runs it; options are completed by one another; a file
replaces what was validated.  What goes wrong there is a pair of places that
disagree.

What makes each part correct:

- core: a process is in exactly one place, which agrees with its status; a
  scripted I/O is never skipped; bursts and quanta are exact; no one is served
  twice in a tick; the CPU does not idle while someone is ready; a run ends
  exactly when its bursts and arrivals let it;
- queue: a FIFO from which elements can be unlinked without damage;
- log and snapshot: an observer who has them can reconstruct the tick, and sees
  every process once;
- feedback: the quantum and the queue that the rules of `README.md` name;
- server: one line of reply for each line of input, a session has the simulation
  for itself, a client that comes and goes does no harm, who waits is served;
- arguments and files: the order of options does not matter, shares are complete,
  the core is handed what it assumes;
- overlay and editor: what the form shows is what runs, a file that the viewer
  accepts is accepted by the program, opening and saving a file loses nothing that
  its boxes can show;
- viewer: the screen and the histories are those of the simulation it is connected
  to, every command is answered or its loss noticed, the user is never left
  without anything to do.

## Modules

| Module | Models | Extends |
|---|---|---|
| `Records` | devices, durations, scripts, and what a valid script is | |
| `Arguments` | `args.c`: each option, validation and completion, as operators on the state of the parser | `Records` |
| `ScenarioFile` | `scenario.c` on lines, and its users in `main.c` and `ScenarioBridge.cpp` | `Arguments` |
| `Startup` | `main.c` up to the run: options, file, generators | `ScenarioFile` |
| `LaunchScreen` | the overlay, the scenario editor and `buildArgs`, with the program they start | `Startup` |
| `QueueOrder` | the orders queues are built from: `Ascending`, `Keep` | |
| `ArrivalScan` | phase 1 of `sim_step` on its arrays, statement by statement | `QueueOrder` |
| `QueueContract` | abstract: a FIFO from which elements can be taken | `QueueOrder` |
| `LinkedQueue` | `queue.c` on a heap, and the unlinking loop of `sim_step` | `QueueOrder` |
| `Simulation` | the core, with process records | `Records`, `QueueOrder` |
| `TickLog` | the event log, `last_*`, snapshot and trace | `Simulation` |
| `Feedback` | the feedback rules, with a history variable for the slice | `Simulation` |
| `CpuContract` | abstract: what one tick may do to a process | |
| `Refinement` | `Simulation` implements `CpuContract` | `Simulation` |
| `LineReader` | `recv_line` and the command parser, on bytes | |
| `TcpServer` | `serve_client` and `emit_tcp_serve`, with their clients | |
| `Viewer` | `SimController` and `SimClient`, the server they launch, the user | `TcpServer` |
| `MCCore` | the core, its log, slices and contract in one step, on four kinds of workload | `TickLog`, `Feedback`, `Refinement`, `Workloads` |
| `MCLaunch` | shell and screens in one system | `LaunchScreen` |
| `Workloads`, other `MC*` | constants for TLC | |
| `QueueOrderProofs` | lemmas on the orders and on queues, on finite sets and on least numbers | `QueueOrder` |
| `SimulationProofs` | types, places, bursts, scripts, time, steps and order of the core | `Simulation`, `QueueOrderProofs` |
| `ObserverProofs` | what watches the core: contract, slices, snapshot, log | `TickLog`, `Feedback`, `Refinement`, `SimulationProofs` |
| `ArrivalScanProofs` | phase 1 is correct | `ArrivalScan`, `QueueOrderProofs` |
| `LinkedQueueProofs` | the list is well formed and a FIFO | `LinkedQueue`, `QueueOrderProofs` |
| `LineReaderProofs` | each command is that of its line, up to a NUL | `LineReader`, `QueueOrderProofs` |
| `ViewerProofs` | the server, and the viewer with it | `Viewer` |
| `StartupProofs` | shares, order of options, what the core is handed; what a form launches, which files launch, and the round trip of a file through the editor | `LaunchScreen`, `QueueOrderProofs` |

**Arguments, ScenarioFile.**  The text of an argument or a value is abstracted to
what the conversions find in it (`Text`): a number at its head or not, and what
follows it, the end, a dash and another number, a dash alone, or anything else.
That is all `parse_int_strict`, `parse_duration` and `range_to_duration` tell
apart, and they differ: an option takes `4-` as 4 to 0 and `none` as 0, a file
refuses both.  `Take` is one option, `Validate` what comes after the last;
`ParserState` holds the locals of `parse_args`.  `ApplyLine` is one line of a file,
and `LoadScenario` and `Summarize` are the two calls of the parser.  Numbers are
`int`s of `2 * IntHalf` values; a longer one is cut by the conversions from
`long`, as in the code, and sums that overflow are taken to wrap (undefined in C;
the properties except them).

**Startup.**  `TakeOption` per option, `OptionsTaken`, `Refused`, `Configure` (the
file on top of the options, then the file for `--emit-file`), one action per loop
of the generators, and `Run`, where `Simulation` or `TcpServer` begins.  Processes
in `spawned` are handed over with the range of their bursts.  A roll is any
outcome the rate allows, so that the loops may run to their caps,
`BernoulliCap` and `PoissonCap`.

**LaunchScreen.**  Forms are records of the QML properties; `Changed` is what the
boxes allow, each with its own range and none moving another.  `BuildArgs` and
`ToScn` are the ways out of a form, `FormOf` the way in.  The rows of the process list
have boxes that cut arrival and burst to 0..9999 when the row is made, and write the
result back (`Boxed`): a file's arrival of -1 becomes 0 by opening it.  Rows are made
when they come into view, the first `InView` at once (`Viewed`), another by `Scroll`.
The boxes of the form do no such thing: each exists before a file is opened, and
loses its binding when its text is first set, so that what a file gave to the form stays.  `Launch` starts the
program of `Startup` with its command line; `ShowAgain` is the overlay that comes
back.  Between the two, the connection and the run are those of `Viewer`.

**Simulation.**  An action is a whole call of `sim_step`, since nothing can see
it half done.  Phases 1 to 4 are state functions that read each other in the
code's order; `AtPhase5` is the record of their results, and each outcome of
phase 5 is an action: `IdleTick`, `ScriptedIoTick`, `RandomIoTick`,
`CompleteTick`, `PreemptTick`, `RunTick`.  `TickEffects` is the part all of them
share.  State: `queue[l]` are the five queues by name; a field `f` of
`struct Process` is a function `f[p]` (`io_ticks` is split by device, the code's
field is the sum); `pending` is a set, because its order reaches nothing
(`ArrivalScan`); `scn` is the configuration together with the workload, read
and never written.  `Init` is the state after `sim_create` and one
`sim_add_process` per process.  Process identifiers are numbers, pid and
`creation_seq` at once, as in every caller.

The generator is abstracted to its range: a roll or a sampled duration is any
value that `rng_roll` or `rng_range` may return, so what is checked holds for
every seed.

**TickLog.**  Every action of `Simulation` with its `add_event` calls in code
order, at most `MaxEvents` of them, and `last`, the one of the three `last_*`
pointers that is set.  `SnapshotCpu`, `SnapshotQueue`, `SnapshotFinished` and
`TraceCpu` are the views of `snapshot.c` and `display.c` without their text.

**Feedback.**  Adds `slice`: the queue of the last dispatch and the service the
process had then.  The code keeps neither.

**ArrivalScan, LinkedQueue.**  What `Simulation` assumes of its data structures.
`ArrivalScan` has one action per loop iteration of phase 1.  `LinkedQueue` has a
heap of nodes that are reused, an allocation that may fail, and `Take`, the
unlinking loop; `Contents` maps it to `QueueContract`.

**LineReader, TcpServer.**  `LineReader` has a step per byte, of four kinds: those of
a word, those of `isspace`, newline, and NUL, which `recv_line` stores like any
other and at which the parser stops (`CString`).  It shows that
commands and lines correspond, which `TcpServer` builds on.  In `TcpServer` a
simulation is a run number (not in the code: it tells a simulation from the one
that a reset put in its place) and a tick; what a step does to processes is the
subject of `Simulation`.  A connection is what has been sent and written on it
and how far each side has read; a reply is written in two pieces, body and
newline.  The actions are the client's (`Connect`, `Send`, `Receive`, `Close`) and
the server's: `Accept`, one `Handle...` per command, `Write`, and the ways a
session ends.

**Viewer.**  One action per handler of the event loop: those of the user's buttons,
guarded as in `Header.qml` and `LaunchOverlay.qml`, the timer of `launchBinary`,
and the socket's events.  Launch `n` has connection `n`, to a process of its own.
Two history variables are not in the code: `crashed`, the server died by itself
(outside causes, or a failing `accept`), and `overtaken`.  A run that is finished does
not count for `NotStranded`: its reset button is enabled, but without a connection
it goes nowhere.  `shown` is the last snapshot (all members the controller copies from it are
overwritten together), `history[h]` one of the seven capped histories, `buffer` the part of
a line that was read.

**CpuContract.**  One tick of CPU to at most one process, completion in the very
tick that completes the burst, and the statuses each of the others may have after
a tick.

## Runs

| Run | Question | Size |
|---|---|---|
| `core` | Invariants and steps of the core, its log, snapshot, slices and contract, and whether runs end, under `CoreSpec` | 3 processes; 5,488 scripted workloads of 7 shapes, 162 of long bursts that are sliced, 32 with random I/O, endless bursts and I/O of no ticks, 6 that cannot end: 322,000 states, 2 min |
| `linked_list` | The list stays well formed and is a FIFO | 4 nodes (symmetric), 2 values: 479 states |
| `arrival_scan` | The scan and the sort deliver the arrivals, in order | 5 processes, all orders, all sets of due ones: 46,000 states |
| `setup` | Order and completion of options, what is handed to the core, what the forms launch, what files keep, and whether a start ends, under `SetupSpec` | every line of up to 3 of 23 options, 6 files and none; two changes to a form, then any use of it: 710,000 states, 3 min |
| `commands` | Each newline yields the command of its line, up to a NUL, whatever came before | all inputs of 7 bytes, NULs among them, buffers of 5 and 4: 195,000 states |
| `clients` | Replies in order, of a simulation nobody else touches; answers, the end of sessions and the turn of who waits, under `Spec` | 2 clients, 2 commands and 1, every command and failure: 119,000 states |
| `viewer` | Screen and histories against the simulation; launching, losing the server, and answers, under `ViewerSpec` | 2 launches, 3 commands each, histories of 2, all failures but that of a reset (see [proofs](#the-server-and-the-viewer)): 261,000 states, 2 min |
| `lo_quantum`, `form`, `phantom`, `index`, `glued` | Statements of the documentation that the code does not keep; see [findings](#findings) | |

`core` steps `Simulation`, `TickLog`, `Feedback` and `Refinement` together
(`CoreStep`): the log is written by the action of the core it belongs to, so that
a property of one is checked against the states of all.

**Bounds.**  `N`, the processes; `MaxTick`, the calls of `sim_step`; `Scenarios`,
the workloads; `MaxEvents`, the code's 128 in every run.  Three processes fill the
CPU, a device and its queue at once, and put two finished processes on one device
in one tick.  The shapes have scripts at service 0 and 1, next to each other and
on different devices, durations of 0, 1 and more, and arrivals on the same and on
different ticks.  In `core`, `MaxTick` (60) is above the length of every workload that
ends: were it not, `FiniteEnds` would fail.  Workloads with random I/O or that
cannot end are cut after `Horizon` ticks (5).  Those of `EndlessNeverDone` have one
process that never completes, for want of a burst, by an arrival before the first
tick, or because an I/O starts on every tick; the other two need 2 ticks, so that
within the horizon nothing else keeps `sim_is_done` from saying yes: a core that
lets the late process in fails there.  Deadlock is off where a run stops by design (all done, or `MaxTick`
reached, all connections used, the user content); `linked_list` never stops and
has it on.

`Conn` are the connections, each used once; `MaxSend` the lines on one; `SockBuf`
the pieces that fit in a socket before a write blocks (1 in `clients`, so that it
does); `Backlog` is 2, what `listen(fd, 1)` gives on Linux; `Length` the ticks of
a run.  With two clients one waits while the other is served, and finds the
simulation where that one left it; whichever of them sends two commands, the other
can come before or after.  Two launches leave one connection behind the other.
`MaxHistory` is 2 in `viewer` and `index`, so that the histories overflow, and the code's 512
where they must not.  `LineCap` and `WordCap` are 256 and 16 in the code; the
lengths are only compared with them and with those of the names.

In `setup`, `IntHalf` is 16384 instead of 2^31: above the range of every box used there and
the numbers of the files, with one share and one interval whose sums are out of
its range.  Among the files are an arrival of -1 in the one row that is in view (`InView`
is 1), a burst of 12000 in the next, and a script that goes on behind what the box
leaves of such a burst.
`BernoulliCap` and `PoissonCap` are 2 and 1: enough for a process in the loop, a
miss, and what is left over.  Three options in every order, repetitions included,
give all pairs that decide the same thing with a third between or around them.
`Tried` is the number a user enters, out of range for some boxes, upside down for
some ranges and too large next to another share; `Timelines` are valid, out of
order, and badly written ones.  `MaxEdits` (2) is the number of changes to a
form, of one of the two forms in a behaviour.  There is one `Path`, so that
whatever is saved is what is launched.

**Fairness.**  `sim_run_until_done` is a loop that calls `sim_step` while
`sim_is_done` says no; it is the only process there is, so it goes on:
`WF_tick(Running /\ tick' = tick + 1)`, where every step is one of the loop and
counts a tick.  `rr-feedback` before its run is sequential too
(`WF_startVars(Program)`); in `LaunchScreen` the user need not do anything.

In `TcpServer` the server is a process that runs whenever it is not blocked
(`WF` of `Serve`, which leaves out the failure of `accept`), and
clients read what has arrived (`WF` of `Receive`); nobody has to connect, send or
leave, so that `WaitingServed` is stated for sessions that end.  In `Viewer` the
event loop of Qt and the server process run (`WF` of `EventLoop` and `ServerRuns`,
which is `Serve`);
the user need not do anything.

## Proofs

TLC checks small instances; the theorems hold for every number of processes,
every set of valid scenarios (`ScenariosAssumption`) and every `MaxTick`.
Assumptions on constants are the named `ASSUME`s next to them; TLC evaluates
them on the runs.

`QueueOrderProofs` proves that `Ascending(S)` lists a finite set of integers,
each element once and in order, and is the only such list (`AscendingUnique`), and
that `Keep(q, T)` has exactly the elements of `q` in `T`, without repetition if `q`
has none, in their order (`KeptPlaces`), and what is left of a queue when elements are
taken out of it one by one (`KeepTwice`, `KeepTail`).  The argument is that `Rank` is an
injection from `S` into `1..Cardinality(S)`, hence onto.  `LeastNat` (a set of
numbers has a least) and `SetInduction` (a set with 0 and every successor has all
of `Nat`) replace the induction theorems of the library, which these provers
cannot instantiate: a recursive function is unfolded by showing that the set of
the arguments where it does what it should is such a set.

Each proof of an invariant has one lemma per action.  For the core, where actions
share most of their work, it has two halves: lemmas on what phases 1 to 4 make of
a state (`AtPhase5`), and a case per outcome of phase 5.

### The core

`SimulationProofs` proves of `Simulation`:

1. **Types** (`TypeCorrect`).
2. **Places** (`PlacesCorrect`).  `OnePlace` is split in two: `Apart`, no process
   twice in the queues, and `Fits`, the status says where it is.  Together with the
   types they are inductive.  The lemmas follow a process through the phases:
   arrivals are new to the ready queues; what phase 2 moves leaves one queue and
   enters another; a dispatch, a block and a preemption hand it over through
   `running`.

From there on the queues are forgotten: `StepEffect` says that in a step the process
at phase 5 starts an I/O, or receives a CPU tick and may end with it, or there is
none.

3. **Bursts** (`BurstCorrect`): inductive with the types and places, since only
   the process on the CPU, which is not done, is served.
4. **Scripts** (`ScriptsCorrect`).  The property is not inductive alone: `InScript`
   adds that the position stays within the script.  The entries of a valid script
   increase, so that a tick, which is given only when the next entry is not due,
   moves the service up to that entry and never past it (`TickAhead`).
5. **Time** (`TimeCorrect`).  `ServedAlone`: a process in service on a device is in
   no other queue and not on the CPU, so one step credits it once (`CreditStep`).
6. **Steps** (`ServicesCorrect`, `NoReadyWhileIdle`, `NoTickWasted`), from the same
   lemmas: a process that is not done is ready, on the CPU, or in a device queue,
   whose head is always in service.
7. **Order** (`OrderKept`).  Phase 2 unlinks whatever has finished, wherever it
   stands; that nothing finishes behind the head is the invariant `TailsWait`,
   which needs durations of one tick or more.
8. **Without end** (`EndlessKept`).  `Stuck`: a process that should have arrived before
   tick 0 is still pending, and where every roll starts an I/O the CPU has served
   nobody.  With `BurstExact` neither kind is done, nor is a process without a burst.

`ObserverProofs` adds the specifications that watch the core.  Each takes the steps
of `Simulation` (`Spec`), so that all of the above holds in them.

9. **Refinement** (`ContractKept`).  The process that works, in the contract, is the
   one that consumes the tick; any other changes status by waking, or by
   leaving the CPU for I/O (`RestAtPhase5`).
10. **Slices** (`QuantumCounted`, `DemotionOnlyByQuantum`, `WholeQuantum`).  `Undemoted`
    bounds the service of a process that is still HIGH by its I/Os.  It is not
    inductive: it does not say how much of that service belongs to the stretch the
    process is in.  `Short` does: the service at the *start* of the stretch
    (`StretchStart`) is at most `quantum_hi - 1` for each I/O.  A stretch adds less
    than a quantum before an I/O ends it, and on the CPU `quantum_used`, which is
    the service since the dispatch, is below the quantum.  `SliceInv` is this with
    `QuantumUsedIsSlice`.
11. **Snapshot and trace** (`SnapshotComplete`, `CpuTruthful`).  The snapshot shows a process in
    the queue it is in, in its status, or as the ghost on the CPU.  `OnePlace` gives
    that for all but the ghost; `GhostFits` says of the `last_*` pointer that is set that the
    CPU is free and that its process is where that pointer claims: in `lo_queue`, on a
    device, or done.
12. **The log** (`LogReplayed`).  `FoldRecursion` unfolds the fold: it takes the largest
    index first, so that a set of indices is reached from the empty one, and
    `FoldIsTrace` turns it into a trace, one replayed event after another.  That a log
    *explains* the way from some places to others (`Explains`) then composes over
    concatenation (`ExplainedThrough`), and each phase is explained by its own events: the
    arrivals, the returns of each device, which empty its queue of the finished ones one
    by one (`Shrinks`, `FinishedLeave`), the dispatch, whose process is nowhere else in its
    queue (`KeepTail`, by `Apart`), and the one event of phase 5.  Hypothesis:
    `N + 2 <= MaxEvents`, since `add_event` drops what does not fit.  `EventsFit` counts:
    phases 1 to 4 have at most one event for each process, and the dispatch; phase 5 adds
    one.  127 processes that arrive together can fill a tick with 129.

The theorems are about `Spec`, `SliceSpec` and `LogSpec`; a step of `CoreSpec`, which
the run uses, is a step of each.

### Its data structures

`ArrivalScanProofs` proves of `ArrivalScan`, for any finite set of pending
processes, in any order, any of them due:

13. **Arrivals**: the scan loses and doubles nothing (`ScanCorrect`) and the sort
    delivers `Ascending(due)` (`SortCorrect`).  The invariant describes the array
    with a hole: during the inner loop the elements outside place `j + 1` are in
    order, those behind it are above `key`, and writing `key` into the hole gives a
    listing of the arrivals.

`LinkedQueueProofs` proves of `LinkedQueue`, for any finite set of nodes, with
allocations that may fail:

14. **The list** (`ListWellFormed`, `ListIsQueue`).  `WellFormed` follows the chain from
    the head and counts; `ListInv` says there is a sequence of distinct used nodes,
    joined by `next`, from `head` to `tail`, as long as `size`, which makes a cycle
    impossible and determines the sequence.  An unlinking removes one place of
    it (`Cut`), and three cases of the code (head, tail, between) are three
    shapes of a cut.  The loop of `sim_step`, a recursive function over the
    places, keeps: what was passed has lost its elements of `T`, what is ahead is
    unchanged.  At its end the contents are `Keep` of those before, the step of
    `QueueContract`.

### The server and the viewer

`LineReaderProofs` proves of `LineReader`, for any bytes, names and sizes of the
buffers (names that fit, `NameAssumption`):

15. **Commands** (`CommandsOfTheirLines`).  `LineInv`: as many lines as newlines, each
    returned line is the cut of the one that ends at its newline, and the buffer is the cut of
    the line being read.  What makes the overlong line harmless is that the cut of
    a longer text with the same beginning is the same (`CutStays`, `CutGrows`).  That the parser
    takes exactly the lines that say a name (`Says`: up to the end of the line or a NUL in
    it there is that name and space) is a fact about where its scans stop
    (`FindStops`, `StopsOnce`, `ParsesWhatItSays`).

`ViewerProofs` proves, of `TcpServer` alone, for any set of connections, any lengths
and buffers and any of the faults:

16. **One line per command** (`LinePerCommand`) and **sessions by themselves**
    (`SimulationForItself`).  Neither is inductive alone.  That one client at a time is
    served (`OneAtATime`) is part of the invariant.  `Session` says that the output of the client that is served
    alternates between bodies and newlines, and that its last body shows the
    simulation as it is now; `Replies` that the bodies follow from each other, also
    for a client that has been left; `Unheard` that nothing was read or written for
    one that waits.  Every handler of a command is one step, `Answered`, seen from
    outside: it reads a line and appends a reply to it (`HandleAnswers`).  Most
    other actions leave the output of everybody as it is (`Quiet`), `Write` because
    a piece only moves from one side to the other (`Moved`).

and of `Viewer`, for any number of launches, histories of any length, and the
same buffers and faults:

17. **Nobody stranded** (`NobodyStranded`).  `Link`: at most one socket is open, that of
    the current connection (`OneSocket`), and what the viewer believes of it is so
    (`Aware`): a connection whose server is over has brought up the overlay, unless the
    server crashed.
18. **The screen** (`HistoryKept`, `PrevKept`, `ScreenKeptCurrent`).  The properties relate the screen
    to a simulation in another process, by way of the replies between them.  `Wire`
    says what is on the way: the bodies answer the commands sent, in order, and the
    first is of a simulation that has just begun.  `Screen` says that the viewer has
    read a prefix of it, that what is shown is the last body read, that after the next
    reply only steps are outstanding, and what the histories and `prevEvents` are,
    unless something was overtaken.  Then a body read is the tick after the one
    shown, or a start.  These
    three assume that a reset of the simulation does not fail
    (`"reset" \notin Faults`): the error line it is answered with has no tick, the
    viewer takes it for tick 0 and clears its histories, while the simulation is
    where it was.  No other fault is excluded.

The invariant of 16 holds in `Viewer` because all that the viewer does to the
server is what some client may do.

### The way into a run

`StartupProofs` proves of `Startup`, for command lines of any length and any files
(`FileSystemsAssumption`: any sequence of lines at each path, or none):

19. **Shares** (`SharesComplete`).  The invariant is the type of the parser's state with
    the property: options keep the type whatever they say (`TakeShape`), and
    validation establishes the sum (`Completed`), by the number of shares that were
    given; the remainder is divided by 2 or 1 (`OnePart`, `TwoParts`), and small
    shares keep the sums in the range of an `int` (`AssignedFits`).
20. **Handed over** (`CoreIsHandedWhatItAssumes`).  `HandedInv` follows the list of
    processes through the loops that fill it: as many as were asked for are there or
    missing (`SpawnedSoFar`), each of a type the core takes (`JobType`), and arrivals
    so far are in order unless the arithmetic on ticks overflowed.  For a
    file, the parser keeps its types line by line (a recursive function) and
    `validate` is what makes its scripts valid.
21. **Order** (`OptionsInAnyOrder`).  `parse_args` is a recursive function over the
    options, unfolded like the others (`ArgsRecursion`).  What one option does to each field of the
    parser depends on that field alone: two options that decide different things,
    taken in either order, refuse both or agree on every field, and what comes
    after makes the same of the same.  A key that no option has would have made this false:
    `CommandOption` therefore says which keys go with which option.

and of `LaunchScreen`, for any edits, files and launches (`TimelinesAssumption`: what
is typed into a timeline is any text):

22. **The form** (`FormRunsAsShown`).  `FormInv` says that the form of the overlay is
    one its boxes can show (`GoodForm`, which every edit keeps: `FormEdited`) and that,
    while the parser is at work on a launch, each option made of the form is still to
    come or has been obeyed (`OnItsWay`).  The options of one form decide different
    things (`FormOptionsDiffer`), so that taking one undoes no other (`TakenKeeps`),
    and none is refused.  A parser that has taken them all knows the whole form
    (`FormKnown`), accepts it exactly when it should (`FormAccepted`) and completes it
    to what the form shows (`FormValidated`).  The hypothesis `SeedMost < IntHalf`
    holds in the program, where an `int` has 32 bits: with a smaller one the largest
    seeds of the box would be cut on their way into it.
23. **Files launch** (`FilesLaunch`).  What the parser of files accepts, and the
    processes it finds, do not depend on the configuration it starts from
    (`SameProcesses`, kept line by line), so that the program, with its own options below the
    file, agrees with the bridge that looked at it with the defaults.  `FileInv` does the rest: a
    file that the overlay takes for good (`SummaryOk`) is one, and stays one, because the
    editor writes only a text that it found valid (`SavedOk`); once launched, the
    program's only option of weight is that file (`LaunchedFile`).
24. **The round trip** (`OpenedLosesNothing`).  The parser recurses over the lines
    that are left.  `Leads` follows it forwards: lines that lead
    from one scenario to another through scenarios that are accepted.  Texts compose
    (`LeadsThrough`), each line of the editor leads to one setting (`Sets`,
    `FixedLead`, `RandomLead`), each process to one more (`ProcessLead`), and
    `FlattenSeq` to as many as there are (`ProcessesLead`), whose timelines are read
    as they were shown (`EventReadBack`).  The text of the form then parses to the
    scenario the form was filled from, with the numbers of the rows in view cut to
    their boxes (`ReadAgain`, `BoxedScenario`); `Scroll` and the edits keep a form whose
    text is read (`ScrollFits`, `EditEditorFits`).  `OpeningLosesNothing` compares the file
    before and after: the same settings (`SettingsOf`), the same processes but for
    arrivals and bursts no box can hold (`SameInBoxes`), and a file that is valid unless
    a burst was cut, which may leave a script behind its end.
    The hypothesis `DurationsFit` (no duration begins with a number from 2^31 on) is needed, and
    is about a corner of the code: the file parser cuts such a number to an `int`, which may
    be negative, the program runs with it, and the editor writes it as `-n`, which the
    parser refuses.  Files read in `setup` have it.

`FileInv` is the invariant of both; its parameter `low`, the numbers that durations
begin with, is all of `Int` for 23 and `Narrow` for 24.

### Model-checked only

Everything under fairness, out of the prover's reach: `FiniteEnds`, `StartEnds`, `AllAnswered`,
`WaitingServed`, `LaunchResolves`, `CommandsEnd`.

## Mutations

Each property is shown able to fail.  For every property of a passing run
`PROJECT.json` names a definition and an operator to put in its place, a mistake
the code could contain: an arrival test off by one, a phase moved before
another, a reset or an unlink forgotten, a comparison before instead of after an
increment.  These operators stand under "Slips" in the modules; no action uses
them.

## Findings

- `lo_quantum`: the README speaks of per-queue quantums, and a test of the
  process re-scheduled from `lo_queue` running for `quantum_lo`.  The code takes
  the quantum from the priority of the process.  The two differ for a process that
  returns from disk without ever having been preempted: it waits in `lo_queue` and
  runs for `quantum_hi`.
- `form`: the comment of `buildArgs` says that the three shares always sum to 100.
  The box of the tape's share is limited by the disk's, but keeps its value when
  the disk's is raised afterwards; the overlay then shows the printer at 0, and
  the program refuses the two flags.  `FormIsRun` shows that this, and a range
  turned upside down in the same way, are the only forms it refuses.
- `phantom`: the viewer clears its histories when the reset is sent, not when it is
  answered, and records the reply to an earlier step that is still on its way.
  `HistoryIsRun` holds unless a reset, a reconfigure or a launch overtook a reply
  (`overtaken`), and so shows that this is the only way; steps may overtake replies.
- `index`: the inspector and the process detail take the place of an entry in a history
  for its tick.  A full history drops its first entry for each new one, so that from
  tick 513 on the labels are too low.  `HistoryIsRun`, proved for histories of any
  length, shows that the entries themselves are right.
- `glued`: the buffer of `SimClient` outlives its connection; half a line from a
  server that was replaced spoils the first line of the next one.

Six more sentences are broader than the code; no run is spent on them.  The comment of
`last_completed` says that displays must not show idle on the tick a process completes;
`print_tick_trace` does, and on no other tick on which somebody had the CPU
(`CpuShownRan`).  The help text
calls `queue` the default of the I/O modes (`display.c:87-93`); `default_config`
leaves `concurrent`, which is 0.  The events
of a snapshot are said to encode all transitions, but the log drops what exceeds
128 per tick (`add_event`; nothing up to 126 processes, by `LogReplayed`).  `README.md`
says that every tick is recorded; the histories keep the last 512 (see `index` for
what comes of it).  The comment of `recv_line` leaves the rest of an
overlong line for the next read; the code drops it, which keeps one command per
line (`CommandOfItsLine`).  The comment of `single_token` calls a line with a second
token malformed; one behind a NUL is not seen, and `step`, NUL, anything is a step.

## Hazards

`PROJECT.json` lists what is hard to test in this code, at its line, with the
properties that would notice.  Those without a property say why none fits; a note
on one with a property says what the property leaves out.

## Not modelled

- Failing allocation in `sim_step` and `sim_add_process`: no caller of
  `queue_enqueue` looks at its result, so every invariant of the core would fail
  with it.  `LinkedQueue` has it, for the list alone.
- A client that is not the viewer and leaves with data unread (its connection is
  then reset) is `Close`, which allows the server to find out at any later write.
- A snapshot larger than 16 KB is allocated; a failure ends the session.
- In `Viewer`, the events of a connection whose process was killed arrive before
  the 300 ms timer of the next launch (`Timeout`); Qt delivers them as soon as the
  loop runs.  Sockets do not lose or reorder bytes.  Random ports do not collide
  with those of other programs, except as a failure of the setup, and no port is used twice.
- The search for the binary, and the list of all processes seen, of `SimController`.
- `getopt_long` and its copy, with abbreviations of options; `parse_args` sees the
  options it delivers.  Characters of numbers, blanks and comments in files.
- Partial writes of a scenario file: `writeFile` looks only at the opening.  Files
  change only through the editor.
- The interactive loop of `main`, which prints and waits between steps.
- The generator's arithmetic; JSON and text layout; memory release; the drawing of
  QML; the list of shipped scenarios; the file emitter.
- Negative or duplicate pids and `creation_seq`s: no caller makes them.

## Plan

1. The process list of the viewer (`allProcesses`, first-seen ticks) over the
   snapshots of `TickLog`; the averages of `statistics.c`.
2. `LaunchScreen` and `Viewer` in one run, if their states can be kept apart.
3. Allocation failure as actions of the environment, if a useful property is left.
