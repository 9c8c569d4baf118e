# TLA+ models and proofs for vector-vrl

`vector-vrl` runs Vector Remap Language (VRL) programs inside a Python process: a
Rust extension module (`vector-bindings`) compiles and runs VRL, a Python package
(`vector_vrl`) wraps it and checks and runs whole Vector configurations, and a set of
build scripts picks the Vector release the extension is built against. This directory
holds TLA+ modules translated from that code, the TLC configurations that check them
on small instances, and TLAPS proofs of what holds for every instance.

Contents: [Inventory](#inventory), [Modules](#modules), [Runs](#runs-and-bounds),
[Fairness](#fairness), [Proofs](#proofs), [Disagreements](#disagreements-found),
[Model-checked only](#only-model-checked), [Not modelled](#not-modelled),
[Plan](#plan), [Running](#running-the-checks).

## Inventory

| component | source | state | operations | what makes it correct |
|---|---|---|---|---|
| Vector pipeline | `vector-bindings/src/lib.rs` 418-544 | `initialized`, `started_at`, three `Saturating<u64>` counters, PyO3's borrow flag | `initialize`, `process_logs`, `get_stats` | counters count exactly the results handed out; no call is refused a borrow; calls look atomic; every call returns |
| VRL stack | `lib.rs` 50-139 | the closure in its mutex, the thread | `on_vrl_stack`, `compile_vrl_program` | the work runs exactly once, with the thread or without; a panic reaches the caller |
| Event run and entry points | `lib.rs` 140-415, 546-624, 693-740 | the event, its outcome | `execute_vrl`, `execute_vrl_with_secrets`, `validate_vrl`, `get_vrl_performance` | an outcome depends on its own event only; values are changed on the way only as documented; the work is capped |
| Event secrets | `vector-bindings/src/secrets.rs` | one map per event | `get_secret`, `set_secret`, `remove_secret` | a fresh copy per event; a failed event still reports them |
| Nesting guard | `vector-bindings/src/nesting.rs` | position, depth | `check_nesting_depth` | never lets through what would overflow the parser, never refuses what would not |
| Enrichment tables | `vector-bindings/src/enrichment.rs` 76-373, 596-800 | rows (immutable), index cache | file and geoip lookup, the two VRL functions | a lookup by index is a scan of the table |
| Enrichment registry | `enrichment.rs` 21-49, 376-563, `lib.rs` 626-691 | name to table, under an `RwLock`; each table's cache, under a `Mutex` | register, clear, list, compile of a lookup | a compiled lookup's index is that of the table it captured; no deadlock between the lock, its guards and the GIL; no call is sent back by another |
| Python facade | `vector_vrl/__init__.py`, `version_detection.py` | module globals | import fallback, version strings | thin wrappers |
| Config check | `vector_vrl/config_check.py` | none of its own; reads the enrichment registry | `validate_config`, `validate_config_with_vector` | a wrong program is never excused, a right one never blamed |
| Vector test utilities | `vector_vrl/vector_test_utils.py`, `__init__.py` 247-304 | a `vector` process and a temporary directory per run | `remap_chain`, `run_remap_chain`, `execute_vector_pipeline` | exactly the chains are run; a success is every event; no process is left, the removal of the directory is always tried and a run works in none but its own; every call returns |
| Performance, patterns | `thg_performance.py`, `production_patterns.py` | none | measurement, static tables | - |
| Build orchestration | `build/build_system.py`, `core_build.py`, `dependency_sync.py`, `vector_detection.py` | `vector/` with its artefacts, the bindings' manifest, `.tmp` | detection, download, three stages, sync, version fallback | what is reported was built from the version reported; only whole sources are compiled; what a failed step leaves is not taken for a result |
| Build monitoring | `build/monitoring.py` | cargo process, log position, four timestamps | phases, stall and time-out checks | a hung or doomed build is ended, and in time; no other is |
| Version pin | `build/vector_pin.py` | pin file | release choice with a cooldown | never a release younger than the cooldown |
| Environment checks | `build_env_autofix.py`, `wheel_smoke_check.py`, `common.py`, `bootstrap.sh` | none | tool probes | - |

How they interact. Every Python thread enters the extension with the **GIL** held.
`process_logs`, `execute_vrl*`, `validate_vrl`, `get_vrl_performance` and
`register_enrichment_table` release it (`py.detach`) while they work and take it again
to build their answer; `clear_enrichment_tables`, `list_enrichment_tables`,
`initialize` and `get_stats` keep it. The pipeline object is shared by threads and
guarded by PyO3's run-time borrow flag. Compilation reads the enrichment registry under
its read lock; the compiled program keeps an `Arc` of the table and of the row index,
so running it takes no lock. All compiling and running happens on a thread of its own
with a large stack (`on_vrl_stack`), or on the caller if that thread cannot be had.
`get_enrichment_table_record`, `find_enrichment_table_records` and the three secret
functions are called back by the VRL runtime. `validate_config` compiles
one transform after another against the registry as it is at each; the runner and
`validate_config_with_vector` start a `vector` process each and wait for it no longer than
their timeout. The build scripts share nothing with the
extension but the files they leave: one process runs cargo and maturin as children, each
writing to a log that the monitor polls.

What is hard: the GIL is released between a check and its use (`initialized`), state is
updated field by field, the index cache is unlocked between a miss and the insert, the
registry's lock is waited for with the GIL, panics and failures have to come back
through a thread join and the GIL, the build monitor polls a log that grows under it,
a build run may die anywhere and the next one finds what it left, a `vector`
process may hang, fail, or end as its timeout runs out, counters and products
reach their limits, and the bracket scanner has to read literals as somebody else's lexer does. `PROJECT.json` lists
each at its line under `hazards`.

## Modules

| module | models | checked by | proved in |
|---|---|---|---|
| `VectorPipeline` | class `Vector` under concurrent calls | `MCVectorPipeline` | `VectorPipelineProofs` |
| `RunStats` | abstract: what class `Vector` promises | refinement in `PipelineStats` | `PipelineStatsProofs` |
| `PipelineStats` | the mapping under which `VectorPipeline` implements `RunStats` | `MCVectorPipeline` | `PipelineStatsProofs` |
| `EnrichmentTable` | one table: index, lookups, the two functions (operators only) | with the registry | `EnrichmentProofs` |
| `EnrichmentRegistry` | registry, lock, cache, GIL; composes `EnrichmentTable` | `MCEnrichmentRegistry` | `EnrichmentProofs` |
| `TableStore` | abstract: what the registry promises, without lock, cache or GIL | refinement in `EnrichmentRegistry` | `EnrichmentProofs` |
| `EventRun` | one call of an entry point: thread, events, statements, answer | `MCEventRun` | `EventRunProofs` |
| `Nesting` | bracket guard beside the lexer and parser it stands for | `MCNesting` | `NestingProofs` |
| `BuildMonitor` | the polling loop beside one build | `MCBuildMonitor` | `BuildMonitorProofs` |
| `BuildSystem` | runs of the orchestrator over the same directories | `MCBuildSystem` | `BuildSystemProofs` |
| `RemapChain` | a config's transforms, what `remap_chain` computes of them, and what a chain is (operators only) | with the config tools | `ConfigToolsProofs` |
| `ConfigTools` | concurrent calls that check, run or validate a config, each with its `vector` process; composes `RemapChain` | `MCConfigTools` | `ConfigToolsProofs` |

`VectorPipeline`. `gil`, `readers`, `writer` are the GIL and PyO3's borrow flag;
`initialized`, `started`, `counter` the object's fields; `pc[t]` with `logs`,
`outcomes`, `results`, `tally`, `seen` the locals of thread `t`'s call. An action is
what the code does between two points where the GIL, the flag or a field is touched:
`BorrowToCheck`, `CheckInitialized`, `Detach`, `Compile`, `RunEvent`/`RunPanics`,
`Attach` or `RaiseFailure`, `Convert`/`ConversionFails`, `BorrowToAdd`,
`AddProcessed`, `AddErrors`, `AddBytes` are `process_logs` in its order. No action but
the entry and re-entry of a call tests the GIL, so that mutual exclusion is a result
and not a guard. `exact`, `own`, `carried`, `stale`, `delivered` are history variables.
`RunStats` is the contract: three operations that take effect as a whole when they
return. The mapping in `PipelineStats` hides what the adding thread has added so far, and takes
the bytes of a batch from `Bytes`, a constant that `BytesAssumption` says is the sum of its
log lengths: `MCVectorPipeline` computes it, and TLC evaluates the assumption.

`EnrichmentTable` and `EnrichmentRegistry`. Cells and values are members of `Texts`,
with `Lower` for `str::to_lowercase`; `NotScalar` is a condition value without text and
`NoSelect` a lookup without `select`, which copies every field, while `select: []` copies
none. A table is a record of columns and rows; a geoip table also has the addresses whose
record cannot be read, or is no object, which fail their lookup. `heap` holds every table ever inserted, with its
cache, and the registry maps names to positions in it, which is what an `Arc` is.
`Resolve` to `Capture` is `compile_args`: read lock, lookup of the name, cached index,
else miss and build, capture. A waiting writer stops new readers (`WriterWaits`), as
`std::sync::RwLock` may. What the captured lookups answer is stated over every condition,
so no query is enumerated as an action; `Run` is the time a program runs without a lock.

`TableStore` is the registry as its callers see it: names and tables. A registration has
two moments, of reading its file and of being entered, and a compile one for each lookup,
in order; that is all the code promises where two registrations of one name overlap
(`enrichment.rs` 390: the one called first may be entered last) or two lookups of one
program straddle a replacement (523). The mapping forgets lock, guards, caches and
indexes, and reads the table of a number off `heap`.

`EventRun`. `slot`, `host`, `ran` are `on_vrl_stack`; `work`, `done`, `next`, `target`
what the closure is doing, to which event and statement; `outcomes` the `EventOutcome`s
and `reply` what Python gets. A program is a sequence of statements: `set_secret`,
`remove_secret`, `get_secret` into a field, assignment of a value, replacement of the
whole event, a function that fails on a missing field, and `abort`. A value is a scalar
or a collection of which only the scalars it holds matter. Four kinds of them do not
survive the way from Python to VRL and back: an integer that fits `u64` but not `i64`
(`"over"`) fails the event; one past `u64` or below `i64` (`"beyond"`) is a float before
`json_to_vrl_value` sees it and arrives rounded (`FromJson`); bytes that are not UTF-8 come
back with replacement characters and timestamps and regexes as text (`ToJson`); an infinite
float has no JSON form and fails the event. The code and the API reference say so
(`lib.rs` 251-255, 332, 342-343, 347-349; `docs/reference-python-api.md` 112-115), and
`OnlyKnownLosses` says that these losses are all there are: nothing else differs, and none
of them happens to a value of another kind.
The properties do not follow the model step by step: `End`, `Present`, `SecretIsSet`,
`SecretSet` read the program's text, and the properties say that what the steps
produced is what that text says of this event alone.

`Nesting`. `mode`, `depth`, `maxDepth` are the positions in `max_bracket_depth` and
`skip_quoted`; `literal`, `last`, `word` and `stack`, `deepest`, `stuck` are the VRL
lexer and the parser's stack, external code modelled from what the comments and tests
of `nesting.rs` say the guard mirrors. Both read the same character in one step.

`BuildMonitor`. `unread` is the log beyond `last_size`, `sized` what the last `stat` saw of
it, `phase`, `inPhase`, `progress`, `activity` the locals of the loop as elapsed times, and
`loop` the place in it: `Poll`, `Size`, `Read`, `CheckLimits`, `Sleep`, the last being the
only step in which time goes by. The build is a process of its own (`Write`, `Exit`) and
moves between any two steps of the monitor, also after `terminate()`, which only signals.
A line is the phases it matches and its marks (progress, fatal, not decodable). `quiet` and
`silent`, `stage` and `steady` are history variables: the time since the build itself wrote
of progress, or wrote at all, the phase its lines have come to and the time since one of
another phase, which is what the monitor's own times and phase have to be true to. A write is taken to carry
whole lines.

`BuildSystem`. `tree` is `vector/`: whose source, whether whole, whether its `Cargo.toml`
is there, what is under `target/release`, and whether it is younger than a day;
`manifest` says from which version the dependencies of `vector-bindings` were taken, or
that it is `torn`. Between two changes of these on disk there is always a step, so that
`Interrupt`, possible at each, leaves a tree removed in part, a clone cut short, a stage 1
half done or an emptied manifest for the next run. A monitored build is one step that ends
in one of the results `BuildMonitor` has, with the log saying it was upstream, saying
anything else, or not readable (`Fail`). Looking for an existing build may fail for any
reason, which counts as none (`Detected`): a finished build of the right version may be
removed, so nothing is claimed of its being kept. A sync may fail anywhere and is called
done: before the manifest is opened nothing has changed (`SyncSkipped`), after it the run
goes on with a torn one (`SyncFails`). `auto_fix_vector_bindings` and the environment
passed to cargo are left out.

`RemapChain` and `ConfigTools`. A transform is its kind, its inputs and what can be said of
its program before it runs: the tables it looks up, whether it calls a function this
build leaves out, whether it is wrong, and which lines it aborts. `Heads`, `Following`,
`Linear` and the walk (`StartWalk`, `Walk`, `Accept`, `Refuse`) are `remap_chain`;
`IsChain` says what a chain is without them. In `ConfigTools` a thread's `stage` is where
it stands in `validate_config` (`CheckTransform` once per transform, in any order, while
`OtherTables` lets the registry change between two), in `execute_vector_pipeline` or
`test_vrl_with_vector` (`MakeDirectory`, `Spawn`, `Collect` or `Timeout` and `Reap`,
`Read`, `Clean`), or in `validate_config_with_vector` (from `Spawn` on, without a directory). A
`vector` process is external: it takes lines in any order, writes what it has when it
likes, ends after its last write, fails or hangs at any point, and once killed may still
write until it dies. `disk` has the directories that exist and whose events are in them.
The file system may fail a run at each of its steps: no directory is made (`NoBinary`), the
config is not written (`OSError`, which also is a binary that does not start), the output
is not read (`ReadFails`), or the directory is not removed: `rmtree(ignore_errors=True)`
says nothing and leaves it, with its output, for good (`CleanFails`). A judgement of
`validate_config` keeps, as `seen`, which tables were registered when the transform was compiled.
An event is a caller's line; `Separators` are the lines whose JSON `str.splitlines` breaks
although `\n` is not in them (U+2028, U+0085), and `BrokenNames` the table names with a
line break in them, which make one diagnostic of an unknown table look like two.

## Runs and bounds

| run | instance | shows |
|---|---|---|
| `pipeline` | 2 threads, batches of 0 to 2 logs of length 0 to 2, counters peg at 2, at most 2 results between two `initialize()` | type invariant, `NoBorrowError`, `CountersExact`, `CountersOnlyGrow`, `ImplementsRunStats` |
| `pipeline_live` | 2 threads, one batch | `CallsReturn` |
| `pipeline_mixed_runs` | 2 threads, one batch | violation of `StatsDescribeOneRun` |
| `registry` | 2 threads, 1 name, 4 tables (three schemas, one of them without rows, and geoip with an address whose record cannot be read), programs of two lookups, 2 registrations or clears | `FindsAreScans`, `GetsAreScans`, `UnknownFieldsFail`, `NoRingOfWaits`, `ResolvedStaysRegistered`, `EveryStepLeadsBack`, `ImplementsTableStore`, `CallsReturn` |
| `registry_gil` | 2 threads, 1 table | violation of `OtherThreadsKeepRunning` |
| `event_run` | 9 programs of up to 3 statements, 7 batches of up to 2 events, 2 seeds, 0 to 3 iterations, limit 3, `usize` of 0 to 5 | `WorkRunsOnce`, `OutcomesAreTheEventsOwn`, `OnlyKnownLosses`, `MetricsCountTheWork`, `CallsReturn` |
| `nesting` | every source of up to 8 characters over 14 character classes, limit 2 | `AcceptedStaysWithinLimit`, `RejectedIsTooDeep` |
| `build_monitor` | five kinds of line, limits of 1 to 3 turns in the order the code has them, at most 2 unread lines | `TroubleEndsInTime`, `EndedOnlyWhenDue`, `HungBuildsEnd`, `FatalLinesEndBuilds` |
| `build_system` | 2 releases, discovery of both or of the older, 3 runs in any mode | `SuccessIsOfTheVersion`, `CompiledSourceIsWhole` |
| `build_reuse` | the same, 2 runs | violation of `ReusedBuildsAreComplete` |
| `config_tools` | 2 threads; 5 configs (chain, ring beside a chain, fan-out, wrong and left-out programs, table lookup); 2 inputs of up to 2 lines; 3 directories; 2 table names, one with a line break | `ExactlyChainsRun`, `SuccessIsEveryEvent`, `NothingOutlivesItsCall`, `VerdictsAreFair` |
| `config_live` | 2 threads; chain, fan-out and lookup; the 2 inputs; 1 directory, 1 table name | `CallsReturn` |

Bounds. `MaxVolume` (pipeline) caps the results between two resets in the guard of
`CallProcessLogs`; with `CounterMax = 2` it still lets a counter peg, by bytes, and be
added to beyond that. `MaxWrites` (registry) caps registrations and clears, in the guards
of the calls; two are enough for a table to be replaced or cleared under a compile.
`MaxLength` (nesting) caps the source: eight characters hold a literal with an escape,
a stray closer and three nested brackets. Symmetry, of threads and in `config_tools` of
directories, is used only in runs without a liveness property. Two threads suffice for the interleavings because every
property relates a thread to the shared state; the proofs confirm it for any number.
`MCNesting` does not check for deadlock: a check of a source ends. `MCEventRun` makes
`usize` so small that the product of its limits wraps. `MaxUnread` (monitor) caps what the
build writes between two reads: two lines are enough for one to hide another. `Forever`
is where elapsed times stop being told apart, above every limit and the two turns that
`TroubleEndsInTime` allows beyond it (`Forever = 6`, for bounds of at most 5). `MaxRuns` (build) caps
the runs of the orchestrator: one to leave something behind, one to change it and one to
use it; the run ends there, so it is not checked for deadlock. The config tools need no
bound: a call has as many steps as its config and input allow. Directories that could not
be removed use up `Directories`, after which no run gets one: three let two threads run
beside a leftover, and the one of `config_live` takes every run that follows a leftover
through the failure of `mkdtemp`. A configuration of three
transforms is the least that holds a chain beside a ring; two threads, each with its own
process and directory, are what can meet.

## Fairness

- `WF_vars(Proceed(t))` (pipeline, registry), `WF_vars(OnVrlStack)` and
  `WF_vars(Caller)` (event run): a thread inside a call is scheduled by the operating
  system and VRL has no unbounded loop. Which way a step goes - the program compiles, an
  event fails, panics - is not constrained.
- `SF_vars(Acquire(t))`, `SF_vars(Attach(t))`: a thread that waits for the GIL finds it
  free again and again, not continuously. CPython forces a switch at its interval, so a
  thread that keeps asking is served. Weak fairness would let two threads that call in
  turns starve a third for ever.
- `WF_vars(Monitor)` (build monitor): the loop sleeps two seconds and goes on; nothing it
  does waits for the build. The build has no fairness: it may hang at any point.
- `WF_vars(Proceed(t))`, `WF_vars(Die(t))` (config tools): a thread in a call goes on,
  `subprocess.run` notices a timeout that has run out, and the system ends a process that
  was killed. The `vector` process itself has no fairness: it may hang for ever.
- No call is assumed to be made: `Call(t)`, `Execute` and the like have no fairness.
- The registry's liveness is under a bound on writes: `std::sync::RwLock` promises no
  fairness between an endless stream of writers and a reader, so nothing is claimed of it.

## Proofs

Every theorem is for any number of threads, any batches, programs and tables, any
counter width and limits, from the named assumptions of the modules only
(`PipelineAssumption`, `BytesAssumption`, `TableAssumption`, `RegistryAssumption`, `EventRunAssumption`,
`NestingAssumption`, `MonitorAssumption`, `BuildAssumption`, `ToolsAssumption`), which TLC evaluates in every run.

- `VectorPipelineProofs`. `IInv` is the type invariant, `OutcomesBounded`, `MutexInv`
  (a thread in a method holds the GIL; the borrow flag names exactly the threads at the
  program points that hold a borrow) and `CountInv` (a tally is the pegged value of its
  exact sum, a counter that of what was added, and the sums are the results delivered,
  up to the part the adding thread has added). `NoBorrowError` is not inductive: it needs
  that a borrow is held only with the GIL. `SatAdds` - pegging every step of a sum pegs
  the sum - carries `CountersExact`. Theorems: `TypeCorrect`, `Invariance`,
  `NeverRefused`, `CountersAreExact`, `CountersNeverShrink`.
- `PipelineStatsProofs`. `StatsInv`, on top of `IInv`: a call past the check is on an
  initialized pipeline; what `get_stats` has read so far is still what the pipeline holds,
  since a thread inside a method leaves the others only VRL programs to run (`Elsewhere`);
  the bytes tallied are a prefix sum of the batch, all of it once it is added; and the
  totals without what the adding thread has added (`Settled`) are natural numbers. Then a
  call's last step is the operation of `RunStats`, `AddBytes` because pegging every step
  of a sum pegs the sum, and no other step is seen (`Unseen`). Theorem: `PipelineImplementsRunStats`.
- `EnrichmentProofs`. `IndexedFindIsScan` is about one table: its index under one case
  setting answers every condition as a scan. `IInv` says that every cache entry is the
  index of its own table, that a captured index is the one its table and lookup call for,
  and that from resolving a name to capturing its index the thread is among the lock's
  readers, so no writer moves the name. `IndexedGetIsScan` adds that two copied rows are
  enough to tell one match from several. That threads never wait in a ring rests on
  `LockInv` (a guard is held within a lookup only, the GIL kept by a clear or list only)
  and on an order of the places in the code: who waits, waits for a place before its own
  (`WaitsAreOrdered`). Of liveness this and `EveryStepAlwaysLeadsBack` are what the prover
  can reach: `StepsLeft` bounds the steps a call still needs, and each step of a call but
  the first lowers its own bound and no other's. Every step of the registry is a step of
  `TableStore` or none: a build, a guard or a cached index is none, a capture is `Find`,
  an insert `Register`. Theorems: `RegistryInvariance`, `RegistryTypeCorrect`,
  `FindsAreAlwaysScans`, `GetsAreAlwaysScans`, `UnknownFieldsAlwaysFail`,
  `ResolvedNamesStay`, `NeverARingOfWaits`, `EveryStepAlwaysLeadsBack`,
  `RegistryImplementsStore`.
- `EventRunProofs`. `IInv` says where the closure is (`Once`), how many events are done
  and what the answer must count (`Counting`), and that before statement k the target is
  what the first k - 1 statements make of the event by the program's text (`Follows`).
  Each statement then moves `SecretSet` and `Present` as it moves the target
  (`SecretNext`, `PresentNext`); `Answered` adds that the answer has an entry for each
  event, and `ArrivedFromJson` and `ArrivedMade` that what the two conversions do to a value of
  the input, or of the program, are the known losses. Theorems: `EventRunInvariance`, `EventRunTypeCorrect`,
  `WorkAlwaysRunsOnce`, `OutcomesAreAlwaysTheEventsOwn`, `LossesAreAlwaysKnown`,
  `MetricsAlwaysCountTheWork`.
- `NestingProofs`. `IInv` says that scanner and lexer are in the same literal with the
  same escape pending, and that the depths agree until a bracket does not match and the
  scanner's only overstates after. Theorems: `NestingInvariance`, `NestingTypeCorrect`,
  `AcceptedAlwaysStaysWithinLimit`, `RejectedIsAlwaysTooDeep`.
- `BuildMonitorProofs`. `IInv` says that the monitor's times are no longer than the build's
  own (`quiet`, `silent`, `steady`) unless a line that would reset them is still unread,
  that a log just read counts as activity, and that the unread lines lead from the monitor's
  phase to the build's (`Phased`), which a portion read twice does too (`PhasedFollow`); the
  property alone is not inductive, since it is about the instant of the verdict. The other
  direction is `Prompt`: while every line can be read, what is not read yet is no older than
  the turn (`Recent`), so that the build's own times are at most one turn ahead of the
  monitor's (`Late`), and no time outlives the check of its limit (`Checked`); silence,
  standstill and a phase therefore last at most two turns beyond their limits. Theorems:
  `MonitorInvariant`, `MonitorTypes`, `VerdictsAreDue`, `TroubleAlwaysEndsInTime`.
- `BuildSystemProofs`. `IInv` follows one attempt through its stages: no tree before the
  tarball, a whole source of the version before stage 1, the version's artefacts after it,
  a manifest of that tree once the sync wrote it, and no report while a run is under way.
  Every way a run can end keeps it (`Ended`), as does going on to the other version
  (`NextTried`). Theorems: `BuildInvariant`, `BuildTypes`, `SuccessIsReal`,
  `SourcesAreWhole`.
- `ConfigToolsProofs`. `IInv` is one conjunct per thread (`Holds`): its stage and its
  process fit (`Standing`, `Process`), what the walk has met is a walk (`Path`), what its
  process has taken, holds and has written is of its own input (`Work`), and its answer and
  verdicts follow (`Reply`, `Fair`); and `Files` says that no two runs share a directory and
  that each has its own from its making to its removal, whatever others left behind. That a refused
  config has no chain would be an induction over the walk; instead `IsWalk` carries that
  any chain of the config agrees with the walk so far, which each step of the walk keeps
  because a transform feeds at most one other. A walk that ends short of the whole config
  then leaves no room for a chain, by cardinality. Theorems: `ToolsTypeCorrect`,
  `AlwaysExactlyChains`, `SuccessAlwaysComplete`, `NothingEverOutlives`,
  `VerdictsAlwaysFair`.

## Disagreements found

1. `initialize()` promises stats of one run only; a batch that another thread started
   before it adds its counts after it (`pipeline_mixed_runs`, `lib.rs` 515 against the
   comment at 468-470).
2. The API reference says other Python threads keep running while VRL compiles;
   `clear_enrichment_tables` waits with the GIL held for a lookup whose index is being
   built (`registry_gil`, `lib.rs` 668 against `docs/reference-python-api.md` 26-27).
3. "Auto-detect if Vector is already successfully built": any artefact counts, so what a
   failed or interrupted stage 1 left is reused as a success (`build_reuse`,
   `vector_detection.py` 82 against 56).

Seen while modelling, and in the models, but not made a run of their own: `"error" in
result` is called the failure check, while a successful event with a top-level field
`error` has that key too (`lib.rs` 404 against 369-371; `DictOf`); a sync that fails is
swallowed so as not to fail the build, but when its write fails the manifest is already
emptied, and the later stages fail on it (`dependency_sync.py` 97 against 105;
`SyncFails`); the guide says
that the version fallback "only applies to upstream compile failures" and that a stage
failing for any other reason stops the build, while a failed download also goes on to the
other version (`build_system.py` 59-60) and a failed stage 2 does not stop stage 3
(75-81); `build/README.md` says stalls are detected "without timeouts", while a phase that
makes progress all along is ended after its `max_duration` (`monitoring.py` 145-154);
output that is not text in the locale's encoding keeps every limit from being checked
(172); `--clean` removes the `.tmp` that stage 1 needs if the source comes by `git clone`
(`build_system.py` 194, `core_build.py` 215);
`run_remap_chain` splits the output with `str.splitlines`, so that an event whose text holds
U+2028 or U+0085 makes a run whose every output line is JSON a failure
(`vector_test_utils.py` 157 against 111-112: `SuccessIsEveryEvent` is stated of what is
reported successful, and the model has the failure);
a registered table name with a line break splits the diagnostic of an unknown table, so
that a valid config is called broken (`enrichment.rs` 481 and `config_check.py` 78 against
67-71: `VerdictsAreFair` excepts a lookup compiled while such a name is registered); the runner's config leaves out the caller's
`enrichment_tables`, `secret` and global options, so that `execute_vector_pipeline` fails for
programs that look up a table the config declares, while its docstring says only sources
and sinks are not used (`vector_test_utils.py` 198-211 against `__init__.py` 252-254; it is in
`Refused`). In code that is not modelled: an input log with a line break is two events, which
makes the error rate of `thg_performance.py` (121, 174) negative; `production_patterns.py`
65 hands out the cached dict itself; `latest_vector_version` (`vector_pin.py` 104-115)
does not look at the current pin that its docstring measures newness by.

## Only model-checked

Liveness (`CallsReturn` of four modules, `HungBuildsEnd`, `FatalLinesEndBuilds`), which is
out of the prover's reach. Of the registry's `CallsReturn` the part without fairness is
proved (`NoRingOfWaits`, `EveryStepLeadsBack`): what is left to TLC is that the scheduler
lets it happen. Of the monitor's two the bound in turns is proved (`TroubleEndsInTime`): what
is left is that turns go on. That the bytes of a batch are the sum of its log lengths as a
recursion computes it is an induction over data: `BytesAssumption` states it of each batch
by its prefix sums instead, and TLC checks that of the computed ones.

## Not modelled

Text, formatting and diagnostics; CSV and .mmdb parsing (a file loads as some table or
fails); the parsing of a Vector config from YAML, TOML or JSON; poisoned locks (no code
panics while it holds one); the config dict of a pipeline, which is stored and never read;
event metadata, which no entry point hands out; the wall-clock numbers of
`get_vrl_performance` and of `thg_performance.py`; `validate_field_extraction` and
`test_vrl_simple`, which report on results already returned; the static tables of
`production_patterns.py`; `vector_pin.py`, a sequential choice from a list that unit tests
cover; two orchestrators running at once; tool probes and installs of the build scripts.

## Plan

1. Done: `VectorPipeline` with `RunStats`, `EnrichmentTable` and `EnrichmentRegistry` with
   `TableStore`, `EventRun`, `Nesting`, `RemapChain` and `ConfigTools`, `BuildMonitor`,
   `BuildSystem`, with the proofs above.
2. Next: for the other modules with a `CallsReturn`, a bound on the steps a call has left,
   as `StepsLeft` is for the registry, so that there too only the scheduler is left to TLC.
3. Still worth having: `VectorPin`, the release to pin with its cooldown, should it ever
   write more than one constant.

## Running the checks

In this directory: `tlc -config MCVectorPipeline.cfg MCVectorPipeline` and so on for each
run of `PROJECT.json`, `tlapm VectorPipelineProofs.tla` and so on for each proof module.
