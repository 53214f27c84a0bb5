# ScaffCC in TLA+

ScaffCC compiles Scaffold programs to logical quantum gates, optimises and
schedules them, and estimates what they cost on a surface-code machine. These
modules specify the parts with a state worth checking:

* **Braidflash**, the simulator that moves many logical gates at once over a
  shared lattice (`src/braidflash/braidflash.cpp`), the part that behaves most
  like a concurrent system;
* the **schedulers** `lpfs` and `rcp` of `src/scripts/sched.pl`, and the
  **coarse scheduler** of whole programs (`GenSIMDScheduleCG.cpp`);
* the **gate optimiser** (`Optimize.cpp`) and the pass that makes **inverses** of
  functions (`Reverse.cpp`);
* the **frequency estimation** of modules, a pass and the C code it links
  (`RuntimeFrequencyEstimationHybrid.cpp`, `frequency-estimation-hybrid.c`).

TLC checks small instances; the TLA+ proof system proves the main invariants
for all values of the constants.

Paths are relative to the repository. A bare line number is one of
`src/braidflash/braidflash.cpp`; passes are in
`src/llvm/lib/Transforms/Scaffold`.

## 1. The system and its parts

```
 Scaffold source --clang--> LLVM IR --opt passes--> leaf modules (QASM)
       |                       |  |                     |
 scaffold.sh, makefile         |  Optimize         sched.pl (rcp, lpfs, ss)
                               |                        |          |
              frequency estimate (run)       comm_aware.pl       LPFS schedules
                               |                        |          |
                               |      comm_aware_schedule.txt      v
                               |                        |     braidflash
                               |          GenSIMDScheduleCG        |
                               v                        v          v
                        runs per module        length of main   clock counts
```

The parts communicate through files; each is a sequential program. Only
Braidflash simulates many actors, and only there does state survive between
events of different actors. In the others the hard behaviour is a list, table or
stack that changes while it is walked.

| part | state it keeps | operations | hard behaviour | correct when |
|---|---|---|---|---|
| braidflash: lattice and routes | none | `cnot_ancillas`, `cnot_routes`, `braid_*`, `find_*` | off-by-one between tiles and corners | braids are connected, on the mesh, and both routes have the same ends |
| braidflash: simulation loop | mesh owners, dependency graph, queues of events, lapsed events, clock | one cycle: queue ready gates, count down, sort, do or retry each event, reroute, drop | interleaved gates, retries, drops and reinjections, watchdog | every gate runs once, in dependency order; nothing stays engaged; no gate is forgotten; the watchdog stops what cannot go on |
| braidflash: critical path, criticality | copy of the graph, path lengths, `highest_criticality` | `get_critical_clk`, `assign_criticality`, `update_highest_criticality` | order of the layered walk; a key that changes while events wait | longest paths; the highest criticality is that of a gate that can go |
| braidflash: event priority | none | `Event::operator<` | it switches on a member that is never set | the loop is right in any order of the events |
| braidflash: module setup | lattice size, ports, gate list | placement, renumbering, replacing S and T | two numberings of tiles, zero-size blocks | distinct tiles in the lattice, gates the loop can run |
| braidflash: parsing, distillation, reports | tables of gates and frequencies | `parse_LPFS`, `parse_freq`, `parse_tr`, factory formulas, output files | none | I/O and closed formulas |
| `braidflash/arrange.py` | a partition tree | recursive min-cut | none | any placement is acceptable to the simulator |
| `scripts/sched.pl` | time step and SIMD region per operation, ready list, path list, places of qubits | `rcp`, `lpfs`, `ss`, `update_moves` | an operation taken out of turn; parents in the same step | each operation once, after its parents; operands where they are used |
| `GenSIMDScheduleCG` | free step of each register and element, open and closed window, results of the callees | ranks, gate by gate in leaves, boxes in windows | registers as a whole and by element; widths shared in a window | dependent calls never overlap; no step wider than the machine; the length handed to callers is right |
| `Optimize` | one gate list | cancel, move, merge; passes to a fixpoint | a list that changes under the search | the circuit does the same |
| `RuntimeFrequencyEstimationHybrid`, `frequency-estimation-hybrid.c` | repeat value; call stack of 16 entries, hash table of counts | instrumenting; `memoize`, `exit_scope` | loops that run once for many, stack limit, overflow, keys | each module is counted as often as the unrolled program runs it |
| `scripts/comm_aware.pl`, `leaves.pl`, `flattening_thresh.py`, `gen-*.sh`, `regress.sh` | none | text filters and parameter loops | none | |
| `GenSIMDSchedule`, `GenLPFSSchedule`, `GetCriticalPath`, `DynCriticalPath` | as the coarse scheduler, per leaf | the same walks with other output | as above | |
| `Reverse` | the functions of a module and their calls, inverses being made | `visitCallInst`, `GetOrCreateInverseFunction` | a list of functions that grows under the walk; inverses made in the midst of others, and of functions not visited yet | an inverse has the inverted calls in reverse order; no `_reverse_` is left; the pass does not crash and stops |
| other passes (`Rotations`, `Toffoli`, `FunctionClone`, counting, code generation) | LLVM IR | rewriting, printing | none beyond LLVM's | |
| build driver (`scaffold.sh`, `Scaffold.makefile`) | files | make rules | interrupted runs leave empty files | |
| `src/clang`, `src/llvm` | third-party | | | |
| `Algorithms`, `Library` | input programs | | | |

## 2. Plan

Done: BraidRoutes, Braidflash (with GateDag as its abstract specification),
CriticalPath and Criticality, ModuleSetup; the schedulers of `sched.pl` (with
ListSchedule); Frequency; Optimize (with GateMeaning); CoarseSchedule; Reverse
(with ReverseMeaning); the proofs of section 6. Left, in this order:

1. The counts of moves and T gates in CoarseSchedule, where section 7 already
   describes what to expect.
2. `ss` of `sched.pl`, `GenSIMDSchedule` and `GenLPFSSchedule` as variants of the
   modules that are there.

## 3. Modules

| module | models | extends or uses |
|---|---|---|
| `BraidRoutes` | 783-1086 | |
| `Braidflash` | 1088-1180, 1543-1648, 1750-1791, 2017-2479 | BraidRoutes; refines `GateDag` |
| `CriticalPath` | 1651-1736 | |
| `Criticality` | 1738-1748, 2288-2294, 2404-2420 | CriticalPath |
| `ModuleSetup` | 2033-2203 | |
| `SimdSchedule` | `sched.pl`: what both schedulers share | |
| `LpfsSchedule`, `RcpSchedule` | `sched.pl` 518-703, 1022-1176 | SimdSchedule |
| `SchedPl` | the program with `-n lpfs` or `-n rcp` | both; refines `ListSchedule` |
| `CoarseSchedule` | `GenSIMDScheduleCG.cpp` | |
| `Optimize` | `Optimize.cpp` 1041-1099, 1171-1177, 1203-1262, 1280-1349, 1513-1522 | `GateMeaning` |
| `Frequency` | `RuntimeFrequencyEstimationHybrid.cpp`, `frequency-estimation-hybrid.c` | |
| `Reverse` | `Reverse.cpp` 165-386 | |
| `ReverseMeaning` | what functions do, as lists of gates | Reverse |
| `MC...` | instances for TLC | |
| `..._proofs` | section 6 | |

Faulty variants, named `<operator>_<fault>`, stand before the operators they
would replace: each shows that a property can fail.

### BraidRoutes
Lattice geometry as operators. Qubits are tiles numbered row by row, mesh nodes
their corners, links pairs of neighbouring nodes. The operators have the names
of the code's functions. Each `Braid` lists nodes and links as the code's
vectors do. `MCBraidRoutes` steps through all pairs of tiles and both routes.

### Braidflash
One cycle of main()'s loop is a sequence of actions in the code's order:

| action | code |
|---|---|
| `StartModule`, `EndModule` | loop over modules: reset, graph, ready list (2017-2321); loop condition (2332) |
| `Stuck` | the check every 10000 cycles that edges were removed, and its exit (2336-2342) |
| `QueueReadyGates` | events of each ready gate (2347-2369), clock tick |
| `CountDown` | `increment_clock` for the head of one queue (1759-1791) |
| `Prioritise` | sort and flags (2376-2380) |
| `CompleteGate` | `do_event` succeeds on a gate's last event: queue, successors and edges (2381-2424) |
| `AdvanceGate` | it succeeds on another: next timer (2425-2432) |
| `Retry`, `Reroute`, `DropGate` | it fails: keep, `resolve_cnot`, purge and reinject (2434-2477) |
| `EndCycle` | end of the event loop |

`ready_events` is split at the iterator `it_e` into what has been handled and
`todo`. A gate is its position in `module_gates`, which stands for its `seq` and
its vertex. `completed` is no variable of the code; it records which gates were
counted by `gate_complete_count`, so that the graph without edges and a gate
that never had any can be told apart. Three simplifications: `clk` is kept
modulo the watchdog's period; `attempts` stops once both thresholds are passed;
the watchdog compares the edges, not their number (edges only disappear).

`Event`'s constructor never sets the member `policy` on which `operator<`
switches (288-291, 296), so with a priority policy the order of the events is
left open: `Prioritise` chooses any permutation. With policy 0 they stay in
program order. What the policies were meant to do is not modelled: the code does
not do it (section 7).

`code_distance` is chosen at the start from `CodeDistances`. As the code stands
it is always 0 (section 7): the timer of cnot5 is set to -1, and a CNOT stalls
there (`Stalled`). Every run of this module includes 0, beside a distance of
those that `set_code_distance` computes, so that the later events of a CNOT are
reached too. `CodeDistances` is any set of numbers in the proofs.

### GateDag
What a simulation promises: load a module, finish each gate once after all gates
it depends on, load the next only when all are done. `Braidflash` refines it
with `gates <- Gates`, `deps <- DependencyEdges(module_gates)`,
`done <- completed`.

### CriticalPath and Criticality
CriticalPath is the layered walk that `get_critical_clk` and
`assign_criticality` share, gate by gate (`Walk`, `NextLayer`); the second walks
the reversed graph. Criticality goes on from where the second stops:
`Assigned` is the call of `update_highest_criticality` after it (2294),
`Complete` the loss of a completed gate's edges with the update that follows
(2404-2420). Its instance has the latencies that `get_gate_latency` (1257)
gives at code distance 0.

### ModuleSetup
Lattice, ports, renumbering and replacement gates, on the periphery layout and
on the default one (factory blocks in the middle). The number of tiles of a
factory, of factories and of ports are inputs: formulas over error rates set
them. With no factory tile the code computes 2^32 - 1 columns; `-1` stands for
it and gives the same differences. The two ratios of the periphery layout are
constants: the code's variables for them are never assigned (section 7).
`Fits` says when the default layout has room: the tiles that are no factory's
suffice for the data qubits, and no port is past the last tile. Nothing in the
code makes sure of it (section 7), so `TilesApart` and `GatesSimulable` speak of
tiles of the lattice only where it holds; on the periphery layout it always does.
With no port at all `find_closest_magic` answers 0, as the code does.

### SimdSchedule, LpfsSchedule, RcpSchedule, SchedPl
`sched.pl` gives each operation of a function a time step and a SIMD region, and
moves qubits between the regions. SimdSchedule has the dependency graph
(`add_qubit`, 176-187), `sched_op`, `get_ready_children` and `update_moves`; the
other two the loops:

| action | `sched.pl` |
|---|---|
| `FindPath` | the loop over `find_lp` before lpfs starts (531-535, 669-703) |
| `LpfsInit`, `RcpInit` | initial ready list (607-625, 1061-1079) |
| `PathStep`, `PathStalls` | a region with a path takes its next operation, or waits (545-564) |
| `FillStep`, `FillStops` | the others take from the ready list (566-593) |
| `RcpSimd` | the heaviest kind of operation for a region (1084-1176) |
| `LpfsEndStep`, `RcpEndStep` | moves, new ready operations, tests of the loop (594-604, 1049-1057) |

`SchedPl` joins them, as the command line does. Hash walks choose any order;
ids stand for operations. Fields that `lpfs` and `rcp` do not read are left out,
and `-refill`, which has no effect: `find_lp` is called with the value of
`ref values %$ready`, finds nothing and clears the path search.

### ListSchedule
What a list scheduler promises: operations are placed one step after the other,
never before what they depend on, and a step is left only when something was
placed in it. The option `strict` says whether a parent may be in the same step:
with two paths or more `lpfs` does that (section 7, run `same_step`), and the
refinement then promises no more than that a parent is not in a later step.
`InLaterSteps` is the test of the code's own `sched_check`. `SchedPl` refines it with
the step of each operation as the only state beside the current step.

### CoarseSchedule
`GenSIMDScheduleCG.cpp` computes the length of the whole program bottom up.

| action | `GenSIMDScheduleCG.cpp` |
|---|---|
| `RankCall` | `calc_critical_time_unbounded`, from the last call to the first (1091-1172, 1425-1427) |
| `StartPlacing` | reset of the table, sort by rank (1433-1442) |
| `PlaceGate` | a gate of a leaf, `get_ts_to_schedule_leaf` (699-853) |
| `PlaceInWindow`, `PlaceInNewWindow` | a box or gate elsewhere, `get_ts_to_schedule` (549-696) |
| `TakeFromFile` | a function that `comm_aware_schedule.txt` knows (1246-1266, 1440) |
| `save_blackbox_info` | the result of a function (859-888), and the next function (1504-1526) |

The three `Place` actions end in `Place`, which is the rest of
`calc_critical_time` (963-1089) with its special case for the first measurement.
`funcQbits` maps a register to free steps of its elements, with entry -1 for all
that have no entry and -2 for the largest, as in the code. `start` is no variable
of the code: it records the first step that the code prints. The kinds of gates
are those the code tells apart: a CNOT counts for two qubits of a region, a T for
five steps, a measurement may be the first. The moves and T gates that the code
sums beside the lengths, and the reading of LLVM IR, are left out.

### Optimize and GateMeaning
`Optimize.cpp` walks the gate list of a flattened main(). A CNOT starts a search
to the right (`StartSearch`, `NextOffset`, `GiveUp`); an equal one cancels it
(`Cancel`), a reversed one makes it move (`Move`, the jump to `temp_begin`) or
merges with it (`Merge`, `Blocked`); `EndPass` repeats while gates disappear
(1513-1522). `Crash` is the read below the start of the list (section 7).
Positions count from 1. `indMap` is left out as it stays the identity
(section 7).

The gates of a list are those that `optimal_initial` (1203-1262) makes of calls:
`SourceGate`. It gives any other call no type, and the passes treat it as erased;
MeasX is left out, as nothing is said of its outcome.

GateMeaning says what gates do: the state is followed as a sum over paths, with a
free bit for each H and PrepX and a phase of eighths of a turn, so that two lists
of gates can be compared without complex numbers. Bits that are measured, that a
preparation overwrites or that a rotation (whose angle is left open) turns on are
recorded, qubit by qubit: they must be the same too.

### Frequency
A program is a list of modules, each with calls and with the markers
`qasmRepLoopStart` and `qasmRepLoopEnd` that rolled-up loops have. The pass
decides which calls `memoize` and `exit_scope` enclose and with which repeat
value (`Visited`, `Instrumented`, `rep_val`); the actions run the result: `Call`,
`StackFull`, `CallUntracked`, `Return`, `Summary`, `Marker`. `Key` is the part of
the key that the hash table really compares. Counts are taken modulo `Word`. The
property compares them with `Invocations`, the number of runs of the unrolled
program, computed from the text.

### Reverse and ReverseMeaning
A Scaffold program calls `_reverse_f` for the inverse of `f`, with any number of
prefixes. The pass walks over all calls of all functions and replaces those.

| action | `Reverse.cpp` |
|---|---|
| `VisitPlain` | a call without a prefix (311) |
| `VisitReverse` | an even number of prefixes: the function; an odd one: its inverse, which is made first if it is not there (313-376) |
| `VisitUnknown` | no such function, so that the null pointer is used (346-367), or none with a body to copy (268-271) |
| `InvertCall` | a call of the copy is inverted and moved to the end (294-300) |
| `CloneCallee` | its callee has no inverse yet: a copy of the callee is begun (262-286) |
| `CloneFails` | the callee has no body, so its copy has no first block (271) |
| `EndInverse` | the copy is done (303) |
| `NextFunction` | the walk over the module, copies included (383) |

A function is the sequence of the calls in its first basic block and of those in
the others; a call is the function called and the number of prefixes. Arguments,
which the pass leaves alone, and instructions that are no calls are left out. A
name is one of the source and the number of times that `_Reverse` was attached.
`building` is the recursion of `GetOrCreateInverseFunction`: one frame for each
inverse being made, with the calls of its `for` loop left to do. `VisitReverse`
that begins a copy stays at its call and finds the inverse when it is made.
`Found` says which names the search of 323-345 finds (section 7). The programs
given have no recursion between functions, as quantum modules cannot.

ReverseMeaning compares the gates that each function applies, calls followed,
before and after the pass. `GatesOf` follows them to a given depth, one round of
`Unfolded` for each; `Deepest` is one more than the functions of the source, below
which no chain of calls goes (`DeepEnoughHolds` in section 6).

## 4. Runs

| run | instance | distinct states | shows |
|---|---|---|---|
| `program_order` | 5x5 tiles, two long CNOTs with any CNOT between them (of 9 tiles), gates of S and T; policy 0, distances 0 and 2, reroute after 1, drop after 2 failures | 476,506 | safety, `OwnerReleases`, and the refinement of GateDag |
| `thrashing` | all pairs of CNOTs on the inner 4 of 4x4 tiles, three crossing ones and an H with two CNOTs after it, `--drop 0`, distances 0 and 1, any order, fairness | 289,117 | opened braids stay their gate's until the closing event, while gates stall or drop each other; the watchdog stops the run when dependencies are left |
| `routes` | all pairs of tiles of 4x5, both routes | 760 | geometry |
| `critical_path` | all graphs of four gates with two operands each and their reverses, two latencies | 16,208 | longest paths; the highest criticality at every moment |
| `setup` | 3 to 6 qubits, lists of up to two gates, both layouts, five factory sizes | 13,125 | placement and replacement |
| `schedules` | all functions of up to four operations on three qubits; lpfs with 0, 1, 2 paths, with and without `-opp`, and rcp | 123,915 | complete and correct schedules, the refinement of ListSchedule, liveness |
| `coarse` | leaves of four gates; functions of four calls and gates over two leaves of which one or both come from the file; 2 regions of 3 qubits | 229,224 | order, width and length |
| `optimize` | lists of five gates of seven kinds on three qubits after a preparation, and shorter ones with H | 336,476 | the circuit does the same; nothing is left; the passes end |
| `frequency` | five modules with loops and repeated calls, stack of 4, counts modulo 16 | 17,070 | counts, stack, and that shallow programs get their summary |
| `reverse` | three functions in any order, with up to two calls in the first block and one in the next, of one another, of gates, of declared and of unknown functions, with 0 to 3 prefixes | 168,725 | what an inverse is, that nothing is left, that functions do the same, and that the pass stops |
| `reversed_pair`, `same_step` | | violations | section 7 |

**Bounds and why they suffice.** Two CNOTs are enough for a conflict, a reroute
and a drop; the third (`program_order`) lets a gate wait for a predecessor that
is itself dropped. XY and YX routes differ only when row and column both differ,
hence the corner-to-corner CNOTs on 5x5 tiles, whose routes also pass through
inner tiles. Thresholds of 0 to 3 instead of 8 and 20 reach reroutes and drops
within the length of one conflict; the code compares with them only by `>`.
Distance 2 has one cycle of waiting in cnot5 and cnot7, distance 1 none, and at
distance 0 cnot5 waits for ever. The watchdog's period is 40 instead of 10000
cycles, more than a gate of these modules takes: it is reached where gates stall
and where they drop each other, after some gates have completed and before any.
`BoundedSeq` limits setup to two gates because replacement gates depend only on
their own parsed gate and on the count of earlier ones. Four operations on three qubits are enough for two paths that wait
for each other and for an operation that becomes ready in the middle of a step.
The coarse machine has two regions, so that boxes of width 1 share a window and
others do not, and four calls, so that a window is joined late, closed and
followed; the lengths from the file (0, 3 and 7) differ from those computed.
A threshold of 2 shared qubits, where the code has 10, makes searches among six
gates give up. Five modules can be nested four calls deep, one more
than a stack of four entries takes above main()'s; counts modulo 16 wrap. With
three functions, an inverse is begun while another is made, of a function
visited before or not yet visited, and inverses are themselves inverted.

**Deadlock** is checked in `routes`, `schedules`, `coarse`,
`optimize`, `frequency` and `reverse`, whose next-state relations have an action
`Ended` (or a loop over modules) for a program that is done: any other state must go on.
`program_order` and `thrashing` switch it off because main() exits when it is stuck;
`critical_path` and `setup` because the modelled procedures return.

**Fairness.** `FairSpec` adds weak fairness of the next step, in `thrashing`,
`schedules`, `optimize`, `frequency` and `reverse`: each of these programs is one
thread that never waits for anything, so it takes a step whenever one is
possible. No stronger assumption is made about the order of events or the choice
of gates and operations. In Braidflash it is `WF_vars(Runs /\ Next)`: whether
another module comes is up to the input. It is written out with `Runs` (some step
can be taken) for ENABLED.

That every module ends is not claimed, because it is false: at distance 0 no CNOT
completes, and at any distance gates may drop each other in a cycle (section 7).
`WatchdogStops` is what the code does promise: while dependencies are left, gates
complete or the watchdog ends the run. `PassesEnd` is claimed for circuits
without reversed CNOTs only, where the jump to `temp_begin` is not taken
(section 7).

**Comparison with the programs.** The models of the schedulers, the optimiser and
the frequency estimate were compared with the code itself: schedules that
`sched.pl` prints for over a hundred random functions and four hash seeds under
lpfs, and some under rcp; 250 random circuits through the functions of
`Optimize.cpp`; the tables of 80 random programs through the C code of the
frequency estimate. The results were those the models allow.

## 5. Properties

The comment above each definition says what it means.

* Braidflash: `OneEventInFlight`, `EventsInOrder`, `NoGateForgotten` (a gate is in
  exactly one place and moves on), `DependencyOrder`, `NoLeak`,
  `HeldUntilClosed` (owners and events agree), `CleanEnd` (the next module
  inherits nothing; the code does not clear its lists), `OwnerReleases`,
  `SchedulesTheDag` (refinement), `WatchdogStops` (liveness). `NoGateForgotten`
  names its one exception, `Stalled`.
* BraidRoutes: `RoutesCloseTheLoop` (on the mesh, connected, not blocked by
  itself), `SameEndsBothWays`. ModuleSetup: `TilesApart`, `GatesSimulable`.
* CriticalPath: `EachGateInTurn`, `CriticalPathFound`.
  Criticality: `HighestIsActive`.
* SchedPl: `ParentsFirst` (`InLaterSteps` unless lpfs follows two paths),
  `NoOpForgotten`, `OneKindPerRegion`,
  `RegionsHoldOperands`, `IsListSchedule` (refinement), `EveryOpScheduled`
  (liveness).
* CoarseSchedule: `CallsApart`, `WidthKept`, `LengthIsRight`.
* Optimize: `MeaningKept`, `NothingLeftToCancel`, `PassesEnd` (liveness).
* Frequency: `CountsAreInvocations`, `StackMatchesCalls`,
  `ShallowProgramsCounted` (liveness).
* Reverse: `MirrorsCalls`, `AllReplaced`, `NoCrash`, `PassStops` (liveness);
  ReverseMeaning: `MeaningKept`.

`TypeOK` of the schedulers is proved and not listed in a run. `CompletedForGood` of Braidflash is not checked by a run: it is proved, and
`SchedulesTheDag` says more.

## 6. Proofs

All constants are arbitrary within the named assumptions: any lattice, programs,
distances, policy, thresholds, graphs, functions, numbers of regions and sizes of
stacks.

* BraidRoutes: where the routes of two tiles go, on a lattice of any size.
  The corners of a tile and their rows and columns come first (`CornerPlace`),
  then which corner `find_nearest` picks (`NearestCorner`) and that `braid_dor`
  goes along one row and one column, link by link (`DorFollows`). Tiles that are
  not side by side have a *corridor* between the ancilla's side of the source and
  the facing corner of the destination (`Corridor`, `DistantShape`), whose rows
  leave out the ancilla's other end. From this follow `RoutesType`, `RouteFacts`
  (on the mesh, the ancilla link engaged once) and `SameEnds`.
  These lemmas open `Braidflash_proofs`.
  The specification of `MCBraidRoutes` adds `SameEndsHolds` and `LoopHolds`. `Reach`
  counts rounds up to the number of links. `ReachClosed` shows that this is enough: a round that
  adds something touches a link that no earlier round touched, so after as many
  rounds as there are links nothing is added. A route is then walked along its
  corners, and its dimension-ordered part by induction (`ReachAlong`).
* Braidflash, in the same module, has three invariants.
  `IInv`: `TypeOK` is not inductive by itself: that a reroute finds a
  closing event in the queue, and that a drop leaves nothing behind, needs
  *which* events a queue holds. `IInv` says that a queue is a suffix of its
  gate's event sequence (types, timers and openness), that at most one event of
  a gate has lapsed and is the one just before the queue, and that flags and
  lists agree with the point the loop has reached.
  `DagInv` adds that the edges left are exactly the
  dependency edges out of unfinished gates, that finished gates are idle, and
  that active gates have no edge in. From `IInv /\ DagInv` follow
  `TypesHold`, `OneEventInFlightHolds`, `EventsInOrderHolds`,
  `DependencyOrderHolds`, `CompletedForGoodHolds`, `OwnerReleasesHolds` and
  `ImplementsGateDag` (the refinement, initial states and steps).
  `NoGateForgottenHolds` needs no assumption on the distance: an invariant says of
  each queue that its head has a timer of 0 or more unless the gate has a lapsed
  event, or it is the cnot5 of a CNOT at distance 0 (`Timely`, `StopsEarly`).
  What comes after cnot5 never begins there.
  `MeshInv` relates the mesh to the events. What a gate holds at a moment is
  determined by the events it has left (`Left`, their type, openness and braid):
  the braid of a closing event whose opening event has happened is held, link
  by link, and nothing else but the ancilla and the nodes named by `Engages`.
  `Fits` says that the braids of opening and closing events go together. Events
  move between queue, `ready_events` and `todo` without changing `Left`; `do_event`
  takes one from it and engages or releases its braid (`OpenEngages`,
  `CloseEngages`). A reroute replaces the braids of two events, possibly after
  other events of the gate were planned with the other order of dimensions:
  `SwapFits` and `SwapEngages` show that it keeps both, and need `SameEnds` and
  `RouteFacts`. A drop and a completion leave nothing. Hence `NoLeakHolds`,
  `CleanEndHolds` and `HeldUntilClosedHolds`.
* `Criticality_proofs`: `WInv` sorts the gates of a walk into walked, in a layer
  and waiting for an edge that is left, and says that along every edge walked the
  length grows. From it `EachGateInTurnHolds` (a gate
  waiting for ever would need a chain of waiting gates without end, in a graph
  whose edges lead upward). `PathInv` adds that each length is made of that of a
  walked predecessor and the gate's own latency, and that the result is the
  greatest so far; with no edge left the lengths then solve the equations of
  `LongestPaths`, the recursive function that the property compares them with
  (`AllGrow` shows that there is one, `PathsFound` goes through it along the
  gates): `CriticalPathHolds`. `DagInv` adds that the graph of the simulation loses
  edges of gates without in-edges only, so that a gate of highest criticality
  cannot wait for another: that one's would be higher (`HighestIsActiveHolds`).
* `SchedPl_proofs`: `IInv` says that paths, ready list and schedule are apart,
  that what is ready has its parents placed, that times and regions lie where
  the loop has been (`Times`), that `op_cnt` counts the operations placed
  (`Counted`), and that every step that is over placed one (`Progress`), so that
  the loops never give up. From it `SchedTypesHold`, `ParentsFirstHolds`,
  `OneKindHolds`, `NoOpForgottenHolds` and the refinement
  `ImplementsListSchedule`. The lemma `Placement` says once what `sched_op` does
  to the invariant; each action cites it. `RegionsHoldOperandsHolds` needs a
  second invariant, `MovesInv` (`loc` and `active` agree), and `UsersInOrder`:
  `add_qubit` links an operation only to the last one before it that used the
  qubit, but all users of a qubit lie in different steps, so that `Needed` names
  one region at most.
* `CoarseSchedule_proofs`: `CallsApartHolds`. While calls are ranked, the table
  holds for each operand at least the ranks of the calls that use it (`Ranking`),
  from which ranks fall along dependencies (`RanksFall`) and calls are placed in
  program order where they share an element. While they are placed, the table
  holds for each operand at least the end of the calls placed on it and nothing
  beyond the end of the open window (`PlacingInv`). `UpdKeeps` says that an
  ordinary call keeps that up, register or element; `MeasKeeps` the same of the
  first measurement, which may overwrite every entry because it starts no
  earlier than any of them.
  `LayoutInv` is the invariant of windows and steps. No call of a closed window
  reaches into the open one, and the sum of the widths of those that reach beyond
  the closed ones (`Open`) is at most the width recorded for it (`WindowInv`);
  regions hold what they can (`StepFits`); the schedule ends where a call does,
  and is no longer than the durations of the calls placed (`LengthInv`). Hence
  `WidthKeptHolds`: whatever is under way when a call of the open window starts
  is in `Open`. `LengthIsRightHolds` also goes down the chains from the last call,
  with `CallsApart`. Sums are those of the community module's `MapThenSumSet`,
  which adds in an order of its own; `SumRemove` shows that any order will do.
* `ModuleSetup_proofs`: for any parsed module, factories, layout and ratios.
  `GridFacts` is the least square with room for a number of tiles; a tile has one
  row and column (`OneRow`), which renumbering into the wider lattice keeps
  (`WiderLattice`), so that qubits stay apart and off the sides. On the default
  layout the count of tiles that are no factory's grows by at most one
  (`CountedFacts`) and so reaches every qubit's number first at a tile of its own
  (`MiddleLattice`). `PlacedInv` follows the two loops: the ports placed so far lie
  in the rows (columns) before `i`, so that none is placed twice; with a ratio of 0
  the loop never leaves its first row, and nothing is claimed beyond it.
  `GatesInv` adds that all gates are on such tiles, that the gates kept have the
  numbers of the list and the replacements those after it. Hence `TilesApartHolds`
  and `GatesSimulableHolds`. Where they speak of `Fits`, `SmallestFactoriesFit`
  says that it holds for the default factories and three qubits or more.
* `Optimize_proofs`. A CNOT undoes itself (`Involution`) and commutes, as a map of
  states, with every gate that `ifCommute` lets it past (`CNOTCommutes`). A list is
  followed by the `Trace` of the states it goes through, and two lists mean the
  same when they have traces with the same end. The trace without two equal CNOTs,
  or with one of them moved, is the old one with that CNOT applied to the states
  between the two places (`CancelKeepsMeaning`, `ShiftKeepsMeaning`); `canSwap`
  answers only for places that can be reached (`SwapReach`). Hence
  `MeaningKeptHolds`, whose invariant `MeaningInv` adds the types.
  `NothingLeftHolds` needs more than "what lies before `gInd` has been searched in
  vain", because a move changes the list behind the search. But a CNOT that was
  moved stands where the next search of it ends in a merge, unless another pair is
  moved or erased first; so either it still waits for its turn (`OneWaits`), or the
  pass erases a gate and another one follows, or all has been searched
  (`AllSearched`): `PassInv`. `Met` is what `gCount` counts.
* `Frequency_proofs`: `StackMatchesCallsHolds`. `RepeatIsRounds` says that the
  last marker before a call tells the rounds of the loop around it; `CallKeepsStack`
  and `ReturnKeepsStack` that entries and tracked activations stay paired.
  `CountsAreInvocationsHolds` has a ledger for each key (`Balanced`): what its
  entry of the table holds, and for each activation what the rest of its module
  will still add (`Due`), as often as the product of the stack's entries up to it
  (`Factor`), are together what one run of main adds (`Needed`), modulo `Word`. A
  call moves the callee's share from the caller to the new activation, a return
  drops a share of zero (`CallBalances`, `ReturnBalances`). At the end only the
  table is left. What a module adds is a sum over its calls, downwards; how often
  it runs is a sum over the calls of it, upwards. `Duality` shows that both
  come to the same: the weights of all modules, summed by caller and by callee,
  cancel. Keys tell callees and arguments apart (`SameKey`).
* `Reverse_proofs`: `RInv` says where each call of the module comes from
  (`Origins`), that calls lead down (`CallsDown`), and of each inverse which of
  its calls are inverted by now (`Made`). Inverses in the making lie further and
  further down the calls (`Frames`), so that none is copied before it is
  complete: `MirrorsCallsHolds`. `Replaced` adds that what the visitor has passed
  is free of prefixes, and stays so when it is copied; with functions defined
  before they are used only such functions are copied (`Ordered`). From these
  `AllReplacedHolds`, for any module, and `NoCrashHolds`.
  `FromSource` says that calls stay in their places in the functions of the source,
  each as it was or replaced, and that inverses keep the other blocks of their
  functions. Then what the functions do is compared, one level of calls after
  another. The list of an inverse is that of its function undone (`Mirrored`), and
  the functions of the source have the lists that they had (`Agree`). At depth 0 all
  lists are empty, and one level more keeps both: `StepMirrors` needs that lists
  put together and undone are the undone lists put together, from the last to the
  first (`UndoneFlatten`), and that a call of an inverse undoes what the call of
  its function does (`InverseUndoes`); `StepAgrees` that a replaced call does what
  the one with the prefixes was to do (`CallAgrees`). Hence `MeaningKeptHolds`. `DeepEnoughHolds` adds that the depth
  cuts nothing off: calls lead down in the end too (`EndsDown`), so that the list
  of each function is that of its calls (`Unfolds`), before the pass and after it.

The library's induction theorems have an operator as a parameter, which the
provers cannot instantiate. Two forms of induction without one are used instead:
over a set of natural numbers that has 0 and is closed under successor
(`SetInduction`), and by a least counterexample (`LeastNatural`).

Only model-checked is liveness, which needs fairness and ENABLED:
`WatchdogStops`, `EveryOpScheduled`, `PassesEnd`, `ShallowProgramsCounted`,
`PassStops`.

## 7. Where the code departs from what it says

With a run that shows it:

* `reversed_pair` (`Optimize.cpp:1331`). `CNOT a,b;
  CNOT b,a` is replaced by one CNOT, and the two qubits are meant to change their
  names from there on. The first gate is erased (1327) before its qubits are read,
  so that entry 0 of the renaming is exchanged with itself, and the output does
  something else.
* `same_step` (`sched.pl:202`). `op_ready` asks only whether the parents of an
  operation have a step. With two paths or more an operation on a later path may
  be placed in the step of its parent. `sched_check` would print `E: Dependency
  error; ... not after ...` (1409-1411), but main calls it for the orders asap,
  alap and acap only (1744-1757). With fewer paths it does not happen
  (`ParentsFirst`).
* `program_order` and `thrashing` reach it and pass, because `NoGateForgotten`
  excepts it: `set_code_distance` computes `distance` and returns the global
  `code_distance` (1373), which is 0. The timers of cnot5 and cnot7 become -1
  (1954, 1956), which never count down, where 1131 and `documentation.tex:109`
  speak of a minimum of d-1 cycles. So a CNOT stalls before its cnot5, the gates
  that depend on it never start, and the watchdog ends the run if there are any.

Seen while reading, without a run.

*Braidflash.*
* `Event`'s constructor never stores its policy (288-291), and `events_h` does not
  even pass one (1170, 1172). `operator<`, said to be what "determines comparison
  of Events" (287), switches on the unset member (296), so that no priority policy
  is sure to take effect and two events may be compared by different ones.
* The watchdog (2338) compares the number of edges and asks that some are left. A
  module without dependencies, or whose last gates stall, runs for ever: at
  distance 0 a module of one CNOT does.
* After a reroute of cnot3, `resolve_cnot` leaves the end node of the route
  engaged by the gate; its own cnot5 then conflicts with it until it is rerouted
  or dropped.
* The gates that replace S and T are appended at the end of the list from whose
  order the dependency graph is built (2198), so a gate that follows a T on the
  same qubit is simulated before it.
* `rows_to_Y_factory_ratio` and `cols_to_A_factory_ratio` (112-113) are never
  assigned, so the loops of 2054 and 2058 never advance.
* On the default layout the renumbering (2164) may stop on a factory tile, and Y
  ports are placed around the start of the A block (2096).
* There a port of a factory without tiles stands at column `(num_cols + 1) / 2`
  (2095), past the last tile when the lattice has one column: a module of two
  qubits under the default options. Many ports run out of their block (2106), and
  the blocks, rounded up to rectangles (2081-2091), may leave fewer tiles than
  there are data qubits: two qubits and a factory of seven tiles get a 3x3 lattice
  that is all block.
* cnot2 releases the ancilla nodes too, where `documentation.tex:106` speaks of
  the link.
* Nothing but the number of attempts decides who is dropped, so with an
  adversarial order three long CNOTs or more may drop each other in a cycle for
  ever, even with `--drop 3`; with `--drop 0` two equal ones and one across them do
  (`thrashing` reaches the watchdog's exit).

*sched.pl.*
* rcp compares the same entry on both sides of its sort (1146), so that the
  region with the largest weight does not go first.
* The orders alap and acap die on an undefined `Schedule::min` (456); a path
  region with `-opp` holds one operation more than its capacity; `-refill` has no
  effect.

*GenSIMDScheduleCG.*
* moves and mts of the open and closed window are not reset between functions
  (498-517), so that every function gets those of the ones before it too.
* A step that gets its first T gate in an existing step is not counted: the test
  (788-794) comes after the gate was entered (775). For functions from the file
  the bounds of T gates stay 0.
* With an odd `DATA_CONSTRAINT` a region holds CNOTs on one qubit more (754), as
  `WidthKept` says; a Toffoli counts as one qubit.

*Optimize.*
* A pair to cancel or merge whose first gate is the first of the list, with only
  commuting gates between, makes the unsigned index of `canSwap` (1053) run below
  0 (action `Crash`).
* `CNOT a,b; CNOT a,c; CNOT b,a; CNOT c,a` moves its first gates for ever through
  the jump to `temp_begin` (1324).
* Gates whose names it does not know get no type and are dropped from the output.

*Frequency.*
* Modules without qubit parameters are not instrumented inside, so calls made
  there are not counted. `AllQuantum` leaves them out of `CountsAreInvocations`.
* The length of the key (`frequency-estimation-hybrid.c:111`) is the sum of the
  sizes of its fields, 138 bytes, while the fourth double lies at bytes 136 to
  143. Two calls whose fourth angles differ in the upper six bytes are one entry,
  as in `Key`; `FewDoubles` leaves them out. `Algorithms` has a module with
  exactly four doubles (`DoubleExcitationOperator` of the ground state
  estimation).

*Reverse.*
* Rx, Ry and Rz are their own inverses (190-200) and keep their angle, so that a
  rotation is not undone but done twice. `MeaningKept` leaves rotations out.
* Only the calls of the first basic block are inverted and moved (271); a function
  with more is not undone. `MeaningKept` leaves these out too.
* The name of an intrinsic is looked for with one suffix for each argument as if
  all were qubits (337-342): `_reverse_Rz` and `_reverse_PrepZ` are not found, and
  the null pointer that follows is used. A Toffoli is looked for as `ToffoliImpl`
  first (327), a name that no function has (`Toffoli.cpp` makes
  `ToffoliImpl_QQQ`).
* A function copied before the visitor has passed it, because it is defined after
  the one that calls it, crashes the pass if it has a call of `_reverse_g`: that
  has no body to copy. `NoCrash` says exactly when not.
* A function of the source named `f_Reverse` would be taken for the inverse of
  `f`; a call whose types do not match is only reported (354-359).

## 8. Not modelled

* Of Braidflash: reading and writing files, distillation and area formulas
  (floating point), statistics, visualisation, CNOTs of a tile with itself
  (which the factory-tile defect above can produce), modules of one qubit.
* `Event::operator<`: any order of the lapsed events is allowed with a priority
  policy (section 3).
* Time in the code's sense: the clock only drives timers and the watchdog.
* Of `sched.pl`: `ss` (one operation per step), the orders alap and acap, metrics
  and printing. `comm_aware.pl` only filters that output.
* Of `GenSIMDScheduleCG.cpp`: counts of moves and T gates, LLVM IR.
* Of Optimize: conversion from LLVM IR and printing. Of the frequency estimate:
  printing and the layout of the hash table (`uthash`).
* Of `Reverse.cpp`: arguments and the instructions of LLVM IR that are no calls;
  the entry of the table for `store_cbit` (253), its own inverse as other gates.
* `GenSIMDSchedule`, `GenLPFSSchedule` (section 2); the other passes,
  which rewrite LLVM IR or print it; build rules, input programs and third-party
  code (among it `src/rkqc`, a copy of RevKit). `src/clang` and `src/llvm` outside `lib/Transforms/Scaffold` are by far
  the largest part of the tree, and are LLVM's own.
