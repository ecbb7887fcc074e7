# Formal models of the cube-and-pipeline engine

TLA+ models of the orchestration engine in this repository: what is modelled, what TLC checks about it
on small instances, and what TLAPS proves about it for all. Paths are relative to `src/`.

## 1. The system

A *cube* is a directory of Zarr arrays, one per variable, indexed by a DuckDB catalog. *Producers*
declare the variables they read (`requires`) and write (`produces`). A *pipeline* is a graph of
producers; a *runner* executes it over the cube, in line or through a pool of workers, reuses what the
cube already holds, retries what fails, and reports what happened. Around it are adapters for data
sources and external models (WRF-SFIRE by way of WPS), jobs on a Slurm cluster, and bookkeeping: cache,
checkpoints, manifests, snapshots, schema versions.

### Inventory

| component | code | state it keeps | operations | what makes it correct |
|---|---|---|---|---|
| Pipeline runner | `engine/scheduler.py` `run`, `_run_layer`, `_fire_triggers` | `node_after`, `completed`, `failed`, the layer's results, `RunResult` | one pass of the working set, a layer, settling, triggers, the exits | dependencies first; one success per run; reports complete and justified; ends |
| Tile fan-out | `engine/scheduler.py` `_run_tiled_step`, `engine/tiled.py` | the window of futures, tile metrics | init, submit, poll, collect, finalize | bounded futures; every tile once; ok means complete; what a step that is given up leaves running is bounded |
| Cube reuse | `engine/scheduler.py` `_producer_already_satisfied`, `cube/catalog.py` `is_output_stale` | rows and stamps of the catalog | the decision to skip | nothing out of date is reused; nothing runs needlessly |
| Retry | `engine/retry.py` | attempt counter | one attempt, the next, giving up | 1..max_attempts attempts; a dead letter ran out of them |
| Backends | `engine/backends.py` | a pool | submit, failure of a worker or of the pool | a failure reaches the step it belongs to |
| Registry, pipeline builder | `engine/registry.py`, `engine/pipeline.py` | producers, variable -> producer; nodes | register (replace), unregister; add, remove, chain, from_targets, layers | one producer per variable; a plan is acyclic, closed under what it requires, and layered |
| Contracts and merge | `engine/contracts.py`, `engine/merge.py` | none | extract, compute, update; merge of old and new | outputs complete; the policy is honoured |
| Cube store and catalog | `cube/store.py`, `cube/catalog.py` | arrays, `variables`, `tiles` | write_static, write_timestep, write_3d, init_*_tiled, chunks, has, satisfies | catalog and arrays agree, also after a crash |
| Snapshots | `cube/snapshot.py` | a copy of the cube's directory | save, restore, drop | what is restored is what was saved; no row without its array |
| Content cache | `engine/cache.py` | payload and metadata files | get_path, put_file, put_bytes, evict_lru, clear | a hit is a whole payload; evicts no more than it must, oldest first |
| Checkpoints, manifest | `engine/checkpoint.py`, `engine/manifest.py` | rows in the catalog | save, load_latest, delete; create, finalize | a resumed run takes over its own work and counts none twice |
| Schema versions | `engine/schema.py` | the stamp in the catalog | ensure_schema | the stamp says which migrations were applied; it never goes down |
| Data adapters and sources | `engine/data_adapter.py`, `engine/datasource.py` | what the cube covers | resolve: reuse, produce, ask again; first hit | after resolve a need is served or reported |
| Model adapters, WRF-SFIRE | `engine/model_adapter.py`, `models/wrf_sfire_adapter.py` | a stage directory | extract, stage, run, parse, validate, update | only this run's output is ingested; nothing that can be removed is left on disk |
| WRF configuration | `models/wrf_config.py` | none | domains and namelists of a scenario | nests fit in their parents; both namelists say the same |
| Meteorology by WPS | `drivers/wps_meteo.py` | a work directory | download, geogrid, ungrib, metgrid, move, patch | what is returned is complete for this request, and what is not of it was there before |
| Bootstrap | `models/wrf_sfire_bootstrap.py` | a root directory | clone, configure, compile, download, extract | what returns is installed and of one build |
| Slurm | `hpc/slurm.py` | a job id | submit, wait, cancel | the end that is returned is the job's |
| Command line | `scripts/run_cascade.py`, `models/catalog.py` | an output directory | main() | exit code 0 means the targets are there; a dry run installs nothing and leaves met_em and the cube alone |
| Raster and point drivers, tiling arithmetic, resampling, spilling, cluster profiles, configuration, logging | `drivers/`, `engine/tiling.py`, `engine/resample.py`, `engine/log.py` ... | none of interest | numeric work, parsing, formatting | not modelled (section 5) |

### How they interact

`run()` calls the registry for the producer of a name, the cube for the decision to skip, and the
producer's `run` (or `process_tile`), in its own thread or by `backend.submit`. Workers share the cube
through the file system: the only shared state is the arrays and the catalog. Results come back as
futures; the runner alone changes the working set. Producers talk to each other only through the cube,
so what connects a step to a later run is what the catalog says of the arrays: its rows and their
`fetched_at` stamps. Triggers are callbacks that run in the runner's thread between the results of a
layer. A command line run builds the executables (bootstrap), prepares their input (WPS), resolves what
the model needs into the cube (data adapters, which call producers), and runs the model as one more
producer, in line or in a batch job. Caches, checkpoints, manifests, snapshots and schema stamps are
files and rows of their own, used by one call at a time.

### What is hard in it

- The working set shrinks by results and grows by triggers, while a layer's results are settled.
- Failures propagate by dropping nodes pass by pass; a pass can end with nothing ready.
- Futures end in any order, workers die, a process pool dies as a whole.
- Data and catalog are written one after the other, without a transaction: crash in between.
- Reuse compares time stamps that say when something was written, not what it was made from.
- Tiled outputs are registered before they are filled.
- External programs leave files; the next call decides by what exists whether a step is done.
- Several processes use one cache directory; several engines of different versions one cube.
- Checkpoints and snapshots are made in several writes, any of which may be the last.
- The cache swallows errors of the file system and goes on; a directory is copied while its files
  change.
- A time series that is written anew leaves the catalog's rows for the days it had before.

`PROJECT.json` lists each hazard with its line and the properties that watch over it.

## 2. The modules

| module | models | state and actions, and the code they stand for |
|---|---|---|
| `PipelineRunner` | `PipelineRunner.run` | one variable per local of `run()`, plus `phase` (where the method is). `Scan` .. `StartLayer`: the head of the loop; `SkipStep` .. `EndLayer`: `_run_layer` and `_run_step`, with the pre-pass that sets non-tiled steps aside, submission, workers, gathering in order; `SettleOk`, `SettleSkipped`, `SettleError`: the loop over the results with `_fire_triggers`; `UnknownProducer`, `SubmitFails`, `NothingReady`: the exceptions |
| `DagExecution` | the promise | an abstract run of the graph: outcomes of nodes, nothing else |
| `CubeFreshness` | reuse over many runs | `data`, `rows`, `newer` (the order of stamps) and, not in the code, `outdated`: which variable was made from what has changed since. Actions are the steps of a producer between which something else can happen: extract, each Zarr, each row, tiles; and re-fetches, failures, retries, forced runs, a crash at any point |
| `TileFanout` | `_run_tiled_step` | the parent's window of futures and its exits, a `submit` that raises while earlier tiles run among them; the attempts of each tile; reading and writing a chunk as two steps |
| `TimeWindows` | time series in the cube, by the ERA5 wind driver | `axis` (the time axis of each Zarr) beside `rows` (the catalog's); `file` (the driver's npz per window). Actions: the request with `satisfies()`, loading or fetching, and `write_3d` in its steps: erase, array, registration, each row's DELETE and INSERT, speed before direction; writes that raise, retries, a crash at any point |
| `ContentCache` | `ContentCache` | payload and metadata files by key, and per process the call it is in. A call is split at each file it touches: copy, rename, stat, metadata opened and filled; eviction entry by entry, its two unlinks apart; `clear` file by file. Deaths, and the `OSError`s that the code swallows |
| `CheckpointedRun` | checkpoints and the manifest | `checkpoints` and `manifest` (the rows), and the worker's state: how often it has been advanced, by which configurations. `save` is a DELETE and an INSERT; deaths and exceptions at every step |
| `CubeSnapshot` | snapshots | the files of the arrays and the rows, of the cube and of the snapshot, each as the version it is of. `save`, `restore` and `drop` go file by file, as `copytree` does, beside a writer that erases an array file by file and writes it anew, as `to_zarr(mode="w")` does, row last. A file that has gone makes the copy fail; removals die half-way |
| `SchemaMigration` | `ensure_schema` | the stamp, and beside it the migrations the tables have had; cubes that are new, stamped, or old without a stamp; engines of several versions, each migration a transaction |
| `WrfRun` | the WRF-SFIRE step | the inputs and outputs in the cube, the stage directory, and where the step is: extract, stage, run, parse, validate, clean up, update, retry |
| `WpsChain` | `run()` of `wps_meteo.py` | what GRIB, intermediate and met_em files hold; one action per program, each doing what it finds to do |
| `Bootstrap` | the installation | what is cloned, configured, compiled, downloaded and extracted, for which build |
| `PipelineBuilder` | registry and pipeline | `producers`, the variable map, `nodes`, and the frames of the walk from targets; add, remove, chain, layering |
| `NestGeometry` | `wrf_config.py` | the domains of a scenario, derived level by level, and the two namelists with the sizes as they are written there, in whole metres |
| `DataResolve` | data adapters and sources | what is in the cube, a variable's array (`axis`) apart from its catalog rows, which a rewriting leaves where they are; the needs in their order, what has been reported of each, and what `fetch` then reads; sources by priority |
| `SlurmJob` | `slurm.py` | the job as the scheduler has it, as its accounting shows it, and as `wait` sees it |
| `Cascade` | `run_cascade.py` | scenario, configurations, output directory, exit code, over several invocations; the steps it calls succeed or fail |
| `MCPipelineRunner`, `MCCubeFreshness`, `MCTileFanout`, `MCTimeWindows` | instances for TLC | |
| `MCFiles` | instance and composition | `ContentCache`, `CheckpointedRun`, `CubeSnapshot`, `SchemaMigration` side by side |
| `MCCascade` | instance and composition | `WrfRun`, `WpsChain`, `Bootstrap`, `PipelineBuilder`, `NestGeometry`, `DataResolve`, `SlurmJob`, `Cascade` side by side |
| `PipelineRunnerProofs`, `CubeFreshnessProofs`, `TileFanoutProofs`, `TimeWindowsProofs`, `FilesProofs`, `WrfProofs`, `PipelineBuilderProofs`, `ChainProofs` | theorems | |

How they fit together: `PipelineRunner` takes the result of a tiled step as one of `TiledOutcomes`;
`AsTheRunnerAssumes` checks in `TileFanout` that `_run_tiled_step` returns no other. `CubeFreshness`
leaves layers out and lets a step start whenever its dependencies are done; `DependenciesFirst` and
`ExecutesDag` in `PipelineRunner` are what justifies that. Its assumption on `After` is what
`Pipeline.from_targets` builds. `TimeWindows` refines one step of it, a producer of time series without
inputs, whose reuse depends on the window and not on stamps; `WrfRun` another, a model with outputs that
are merged. What `PlanIsSound` says of a built plan is what `PipelineRunner` and `CubeFreshness` assume
of theirs. `Cascade` takes each step of a command line run as one that succeeds or fails; what success
means is in the module of that step. `CheckpointedRun` composes three parts of the engine: the
checkpoints, the manifest, and the loop the docstring of `checkpoint.py` puts around them.

`MCFiles` and `MCCascade` check modules that share no state in one run each. The initial state says
which one a behaviour is of, by `part`; the others stay where they start, so a behaviour is exactly one
of that module.

Abstractions. Names are numbers, since only their order matters. Producers, predicates of triggers and
the reuse test are free choices in `PipelineRunner`. Contents of arrays are not modelled: a variable is
made from current inputs or not, a chunk is the set of tiles written to it. Elapsed times, logs and
error texts are left out. Stamps are a strict order: that two writes fall in one microsecond is not
modelled. In `TimeWindows` time is counted in half hours, so that windows may begin and end inside an
hour, and what ERA5 has does not grow. What git, make, tar, the programs of WPS, `wrf.exe`, CDS and
Slurm do is external, taken from how the code uses them: they do what they are asked, with what they
find, or fail. In `CubeSnapshot` one file is copied whole, and `catalog.duckdb` in one step; its writer
is `write_static` and `write_3d`, whose row comes last (`init_*_tiled`, which registers first, is in
`CubeFreshness`). In `DataResolve` a rewriting is one step: a death between array and rows is in
`TimeWindows`. `Cascade` keeps of the wind only the days its array has, and leaves out `--met-em-dir`
and `--real`, which hand WRF a directory made by somebody else (`WrfRun` has the steps that follow). In
the modules about files the number of calls is bounded.

## 3. The runs

| run | shows | bounds, and why they are enough |
|---|---|---|
| `runner` | `TypeOK`, `AtMostOneSuccess`, `DependenciesFirst`, `ReportIsJustified`, `StuckOnlyAfterFailure`, `ReportIsComplete`, `Terminates`, and that `run()` without triggers implements `DagExecution` (`ExecutesDag`) | every graph over three nodes, cyclic ones and one with an unknown dependency included; four names, so a trigger can lead outside the pipeline; three sets of triggers with chains and two that fire into each other; three runners (pool, pool with fail_fast, quiet in-line with an unregistered name). Three nodes are the shortest chain in which a failure has an indirect dependent, and give layers of one, two and three. Two attempts tell the first, a later and the last apart |
| `freshness_reuse` | `TypeOK`, `ReportedIsFresh`, `NoNeedlessRun` | four producers: chain, fork, join, and one with two outputs; two sources re-fetched any number of times over any number of runs, forced or not |
| `freshness_crash` | `ComputedIsFresh`, `ReportedIsCatalogued` | two producers, one tiled, one with two outputs; crashes at any step and any number of them |
| `tiles` | `TypeOK`, `FuturesInBounds`, `EveryTileReportedOnce`, `OkIsComplete`, `AsTheRunnerAssumes`, `StepEnds` | four tiles, a window of two: it fills, slides and drains; every subset of active tiles, so zero and one (the in-line case) are there; backends that lose a worker, break, or run everything at once; a `submit` that raises at any tile, whether or not it has queued it, while those before it run |
| `windows` | `TypeOK`, `WindowServed`, `RerunIsSkipped` | eight half hours, hours of two and days of four: every window, so every position of its ends in hours and days, over up to three days, and every last hour ERA5 may have. Requests in any number: for one window, with any number of crashes, or one write that raises, or forced; and for two, one in the other, when they end together or the longer ends on a later day than any hour fetched for the shorter |
| `files` | `FilesTypeOK`, `CacheIsSound`, `EvictsOldestWhenFull`, `RunsResumeExactly`, `SnapshotsAreSound`, `StampIsTheLayout`, `NeverDowngraded` | cache: three keys, one twice as large as the others, so that evicting one may or may not suffice; one process that dies, or two that interleave, with and without file operations that fail; three to five calls. Runs: five steps and a checkpoint every two, so a run ends off a checkpoint; two configurations, three runs. Snapshots: an array of one file, written once, and one of two files, written twice, so a copy can hold files of two versions; with a writer, deaths, both, or a one-shot iterable. Schema: two engines of every pair of versions 1 to 4, all migrations or one version without, cubes that are new, stamped, or old without a stamp |
| `cascade` | `ChainTypeOK`, `WrfStepIsSound`, `WpsIsSound`, `InstallIsSound`, `PlanIsSound`, `ChainIsLayered`, `NestsAreSound`, `NeedsAreServed`, `WaitReturnsTheEnd`, `CascadeIsSound`, `DryRunLeavesAll` | see below |
| `runner_stuck` | violated: `RaisesOnlyOnBadPlan` | a failure at the head of a chain of three ends in "pipeline stuck" |
| `freshness_tilefailure` | violated: `SkippedIsComplete` | after failed tiles the next run skips the producer, with fill values in the cube |
| `windows_days` | violated: `WindowServed` | whole days: a request made longer by a day is skipped with one hour of it, because the fetch for the shorter window brought the midnight at its end |
| `wrf_stale` | violated: `RerunReplacesOutputs` | inputs fetched again make the step run again, and the merge policies keep what the old inputs gave |
| `wps_months` | violated: `DownloadCoversWindow` | a window over the end of a month is downloaded within the month of its start |

`cascade`, part by part. *WRF*: two cells of two fire cells each, ignitions before the start, at it,
after it, or none; a fire that spreads to no cell, to one, to all; two attempts, two runs, so an output
can be merged with one of its own attempt and of an earlier run; met_em absent, empty or with files; a
stage directory that can or cannot be removed. *WPS*: windows in months of two days, the same request
again, a shorter one, another place. *Bootstrap*: two builds, each call whole or with parts skipped,
deaths allowed in the compilations. *Plans*: three names and four variables: a diamond, a cycle, rivals
for one variable, chains with a repeated and an empty link, up to two edits. *Nests*: no, one and two
nests, ratios that divide and that do not, fractions from 1 % to 130 %, units of a third and a tenth of
a kilometre, so sizes that are and are not whole metres. *Needs*: three, required and optional, static
and over time, with producers of one or two of them that bring less than was asked; cubes with nothing,
with the window, with a part of it, and with rows of another window or resolution than the array's;
three sources, equal in rank or in name. *Slurm*: four and five ranks on four slots, a deadline reached
in the middle of a poll. *Command line*: up to three invocations over one directory, with and without a
scenario file, dry or not.

The violated properties are what a comment, docstring or document says and the code does not do;
`PROJECT.json` quotes the line.

Some properties hold only under a condition, stated in the property or in the instance, because the code
does not give more. These are the conditions:

- *Runner.* A failed node that a trigger inserts again has lost its declared dependencies
  (`engine/scheduler.py:433`); a trigger from one node to another of the same layer is lost (`:354`).
  `run()` dumps nothing when it raises, though the comment at `:299` announces a try/finally.
- *Reuse.* `freshness_crash` does not check `ReportedIsFresh`: a process that dies between a re-fetched
  array and its row (`cube/store.py:65`) leaves outputs that the next run skips. Forced runs are exempt
  from `NoNeedlessRun`, which is what they are for.
- *Tiles.* `dead_letter` compares `max_attempts` with the most attempts of any tile, also of one that
  succeeded (`engine/scheduler.py:694`). A `submit` that raises in the middle (`:656`) is caught at
  `:726`, and the step is reported as an error with up to a window of its tiles still running: they
  write beside the next producer. `NothingOutlivesTheReport` exempts that report alone. An exception in
  the parent other than that, such as `KeyboardInterrupt` while it waits, is not modelled.
- *Windows.* Other pairs of windows, a force with the smaller of two, a force followed by a crash, and a
  write that raises followed by a crash all violate `WindowServed`: after each, rows of an earlier array
  outlive it.
- *Cache.* Metadata agree with payloads only where no process died and no file operation failed, and
  evictions or clears did not meet puts: `put_file` returns normally without metadata
  (`engine/cache.py:197`), and `evict_lru` goes on when the second of its unlinks fails (`:266`), which
  leaves metadata without a payload and the payload uncounted. A payload that cannot be listed or
  unlinked is not among those an eviction accounts for.
- *Snapshots.* A save beside a writer can hold a row that claims more than its array, and files of two
  versions, of a variable that was torn in the cube when the save began, that the writer erased to write
  it anew, or, where the directory gives `cube/` before `catalog.duckdb`, of any: `CatalogFirstIsSound`
  exempts these. Only a variable that is added beside the save does no harm, and only when the catalog
  comes first. An error in the copy raises, and leaves what was copied. A death in `save_snapshot`
  leaves a partial snapshot that `restore_snapshot` accepts, and that a retry without `overwrite`
  refuses to replace. A one-shot iterable given to `drop_cube_variables` loses the arrays and keeps the
  rows.
- *Schema.* Engines take turns: two at once may apply one migration twice and lower the stamp. An old
  cube without a stamp is stamped, not migrated: `StampIsTheLayout` exempts it.
- *WRF-SFIRE.* Outputs are those of the present inputs as long as nothing re-fetches an input: see
  `wrf_stale`. A stage directory stays where `rmtree(ignore_errors=True)` cannot remove it
  (`engine/model_adapter.py:118-139`).
- *WPS.* Files of an earlier call stay in met_em, of hours that are not asked for and, for another
  place, also of hours that are: `drivers/wps_meteo.py:257` keeps what is there.
  `OnlyWhatWasThereIsAnothers` says that this, and the files a dead run had left beside it, is all there
  is of others.
- *Bootstrap.* A clone, download or extraction that is killed is taken as done by the next call. A call
  for another build finds the executables and compiles nothing, though the help text says it implies a
  recompile (`scripts/run_cascade.py:74`).
- *Plans.* Registration with `replace` keeps the old producer as owner of variables the new one does not
  make (`engine/registry.py:48`); an empty link of a chain severs the order; a producer that requires
  what it makes is called a cycle, though `engine/pipeline.py:136` excludes it from its dependencies.
- *Nests.* A fraction above one is not refused, and gives a nest larger than its parent. A start within
  an hour is cut to the hour in `namelist.input` and not in `namelist.wps`. Sizes are written in whole
  metres (`models/wrf_config.py:315`, `:517`), so ratios of the written sizes may not be those of the
  domains; `CellsNestExactly` is about the domains.
- *Needs.* Needs made by one producer are all required and alike (`MadeAlike`). An optional need held as
  another kind makes `fetch` raise; a producer run for an optional need may make an earlier one again
  with less; with two sources of one name the first is read. `write_3d` replaces the array and leaves
  the rows of days it no longer has (`cube/store.py:123-131`), which `satisfies` counts (`:479-481`):
  such a need is reported satisfied, and `fetch` returns less than the window. `FetchServesNeeds`
  promises the window only where the array has the days that have rows; `StaleRowsAreOld` says that such
  rows were there before, so what was not in the cube is served.
- *Slurm.* SUSPENDED, and the NODE_FAIL of a job to be requeued, are taken for ends. The deadline of
  `wait` leaves the job running.
- *Command line.* Another scenario in the same `--out` reuses the outputs and exits 0. Values of a
  scenario file override the command line, though the help text (`:69`) says the opposite; the file's
  `pulse_seconds` is read and never applied; the result of the wind run is ignored (`:270-274`);
  `--submit-slurm` is parsed and used nowhere. A dry run still creates the directories of the cache, the
  log and the installation.

Each passing property has a mutated form of one definition beside it in the module (comment "Mutated
form"): a plausible bug under which TLC finds the property violated.

Deadlock is checked in the runs of the engine: a run that has ended may stutter (`Ended`, `Done`),
nothing else may stop. `Files.cfg` and the `Cascade` configurations switch the check off: calls and runs
are bounded in number there, and a behaviour ends when they are used up.

### Fairness

Only the two termination properties use it. `PipelineRunner`: weak fairness of `Next`, that is, the
thread of `run()` keeps going and a submitted task ends; both are the scheduling of one Python thread,
and of pools that run what they are given. `TileFanout`: weak fairness of the parent and of each tile's
worker separately, because threads and processes are scheduled independently. Neither demands that a
worker succeeds, that a pool does not break, or that a poll picks a finished future: `StepEnds` holds
even when the parent always blocks on the oldest. A task that never returns is outside: the code has no
timeout, and then `run()` does not end either.

## 4. The proofs

All theorems are about the specifications themselves, for every value of the constants allowed by the
`ASSUME` of the module. `Spec => []TypeOK`, or the module's own type invariant, is a theorem of its own
(`TypeCorrect`, `FreshnessTypes`, `StepTypes`, `WindowTypes`, `CacheType`, `RunType`, `SchemaTypes`,
`SnapType`, `WrfType`, `BootType`, `NestType`, `WpsType`, `JobType`, `PlanType`, `CascadeType`,
`DataType`). `FilesType` and `ChainType` are those of the two compositions: a behaviour of the parts
side by side is a behaviour of each (`PartsApart`, `ChainApart`), which needs that no set of setups is
empty (`PartsAssumption`).

**`PipelineRunnerProofs`**

- `InductiveInvariant`: `Spec => []IInv`. The invariants of interest say something of `RunResult.steps`,
  and no step preserves them by itself: that a result appended at the end of a layer is not a second
  success needs that every name in the layer is pending (`LayerIsPending`), that pending names are not
  completed (`WorkingSet`), that every success so far is completed or about to be
  (`SuccessIsCompleted`), and that the layer's names are distinct. That "stuck" needs a failure rests on
  `PassIsCurrent` (before any failure the layer is all that is ready) and on the lemma `ReadyExists`:
  the pending nodes of an acyclic plan have one without pending dependencies.
- `OneSuccessPerProducer` and `StuckNeedsAFailure`: the invariants that follow.
- `DependenciesComeFirst`, `ReportJustified`, `ReportComplete`: a second invariant, `ReportInv`, about
  what reaches the report: the results being settled are in it already (`SettlingIsReported`), what has
  been completed or failed is (`SettledIsReported`), a node waits for nothing but what it declares and
  triggers that name it, and until it is reported for all it declares (`WaitsForDeclared`), what a pass
  drops has a failed dependency and what it runs has none left (`PassIsJustified`), a triggered target
  is pending or settled, and `run()` returns with nothing pending unless fail_fast says so
  (`NothingIsLost`).
- `RunnerExecutesDag`: the refinement, `Spec => ExecutesDag`. Initial states map to initial states, and
  every step appends results of one layer, or reports of dropped nodes, or nothing that `DagExecution`
  sees. `ReportedOnce` makes the outcome of a node a function of the report; `DagRecords` takes one step
  of the runner that records several nodes to the abstract one.

**`CubeFreshnessProofs`**

- `ReportsFresh`: without crashes and tiled producers, `Spec => []ReportedIsFresh`. The heart of the
  invariant is `OrderTellsAge`: an output that is out of date and has a row has an input whose row is
  newer, or is just being stamped. So a producer that is not stale by the catalog is fresh, provided
  nothing it requires is being written meanwhile, which `StepsOfRun` gives: the producers it is after
  have all ended. Both assumptions are needed: see *Reuse* above and `freshness_tilefailure`.
- `RunsForAReason`: under the same assumptions, `Spec => NoNeedlessRun`, for producers that make
  something (the registry refuses others), in runs that are not forced. The invariant added is the
  converse of `OrderTellsAge`: an input whose row is newer has changed, unless the output waits for its
  own row (`NewerHasChanged`).
- `ComputesFresh` and `ReportsCatalogued`: with any crashes and with tiled producers. The invariant,
  `CrashIInv`, gives up the order of stamps, which a crash falsifies, and keeps what one run knows by
  itself: the producers a step is after have ended (`StepsOfAnyRun`), so what it has read has not been
  written since (`FreshSoFar`), and what it has written has its row, but for the output it is at
  (`CataloguedSoFar`).

**`TileFanoutProofs`**

- `FuturesBounded`, `EveryTileCounted`, `ResultsAsAssumed`: for any number of tiles, limit of futures,
  backend and loss of workers. The invariant, `StepIInv`, follows each tile: an active tile is not sent,
  in flight or reported, and in one of the three only (`TilesInv`); a worker is busy only with what is
  in flight, and with nothing once the pool is broken (`WorkersInv`). So when all is sent and nothing in
  flight, every active tile is reported and no worker runs (`CollectedIs`). A `submit` that raises ends
  the step in the middle: then what is queued or running is in flight, but for at most the one tile
  whose submission raised, and there was room for it in the window (`AllButOne`), so it stays within the
  bound; and the report is that of a step given up, which no other exit gives with workers left.
  `WithoutIs` and `CountOfReported` are the facts about the window and the report as sequences;
  `WorkersKeep` and `EndKeeps` say once what every step of a worker, and every end of a step, leaves
  alone.
- `OkMeansComplete`: a chunk is read, changed and written in two steps, so the theorem needs `Apart`:
  tiles that run at once are in chunks of their own, or one tile runs at a time. Then what a worker has
  read is still what the chunk holds when it writes (`ChunksInv`, by `WritersApart`).

**`TimeWindowsProofs`**

- `OneWindowServed`: for one window, not forced and with no write that raises, but with any number of
  crashes, `Spec => []WindowServed`. The invariant turns on direction, which is written last: when its
  rows satisfy the window, all rows of speed are there and both arrays are whole, and the only write
  under way is that of direction's remaining rows (`SatisfiedIsWhole`). So a step that is not skipped
  finds direction unsatisfied and may erase. That a window's hours are all fetched rests on `HourBelow`:
  rounding an end down to the hour loses no hour.
- `FetchedOnce`: for any requests and failures, `Spec => []RerunIsSkipped`. `RowsSoFar` follows the rows
  a step adds; that they satisfy the window rests on `FloorKeepsDay`: days begin on the hour, so the
  last hour fetched is on the day that `satisfies()` asks for.

**`FilesProofs`**

- `CacheSound`, of `ContentCache`: for any keys, sizes and number of processes that put, evict, clear
  and die at once. A payload appears by a rename and so is whole. What an eviction still has before it
  covers what may be in the cache but for what was put since it began (`TrimInv`), so when it returns,
  what it could list and unlink is under the target. Metadata are wrong only where some process is about
  to put them right, or is clearing (`MetaInv`), which holds without deaths and failing file operations,
  for one process, or for several that only put. Where nothing is evicted or cleared,
  `MetadataComeSecond` needs none of this: whatever dies or fails, there are no metadata without a
  payload.
- `OldestEvicted`: `CacheSpec => EvictsOldestWhenFull`. A process alone knows the cache exactly: its
  list is what is there but for what it could not list or unlink, in the order of use, and, where
  nothing fails, its sum is the size (`ExactInv`). That the order of use has no cycle (`InOrder`) is
  what makes the head of the list the oldest. Sizes are cardinalities of sets of bytes (`SizeIs`),
  because a sum over a set is a recursion.

- `RunsResume`, of `CheckpointedRun`: for any number of steps, interval and configurations,
  `RunsResumeExactly`: one configuration alone, or several of which each deletes the others' checkpoints
  (`Exclusive`). The invariant has three parts: every checkpoint of a configuration holds its own work
  alone, at the step it is stamped with, which is a multiple of the interval (`CheckpointsInv`); the
  worker's state is its own and, between a DELETE and its INSERT, is what is about to be inserted
  (`WorkerInv`); a row recorded ok has all steps (`ManifestInv`). The arithmetic of the interval is the
  lemma `SavesAgain`.

- `StampCountsMigrations`, `SchemaNeverDowngraded`, of `SchemaMigration`: for engines that take turns,
  and cubes that are new or stamped (the second also for old ones without a stamp). The invariant
  (`SchemaIInv`) relates the stamp each engine has read to the one in the catalog, which needs `Alone`:
  while one is between reading and migrating, no other is.

- `SnapSound`, of `CubeSnapshot`: for any variables, files, versions and order of copying. While a copy
  runs, what has been copied of what no writer touches is as in the original, and what is still to be
  done is the rest of it (`CopiesExact`, by `Listed`, `Blank` and `Copying`). Of a variable that is not
  among the exempted, the row copied claims no more than the array has then, and files only become
  newer, so neither does it when they are copied (`Sure`, in `CatalogBeforeArrays`). Without deaths and
  writers a tree is torn only while a call or a write works on it (`TornOnlyInCalls`).

**`WrfProofs`**

- `WrfSound`, of `WrfRun`: for any grid, refinement, times, sets of cells the fire may reach, and
  attempts. What the stage holds is what the inputs of the cube say (`StageInv`); each output of the
  cube is missing or what the model makes of the inputs, and is the latter once its update is past
  (`OutputInv`), so merging again after a failure half-way changes nothing; a stage that can be removed
  is, before the next attempt (`DirsInv`). `LeastIs` and `GreatestIs` are the facts about the earliest
  and latest ignition of a cell, by the smallest set of those beyond one of them. The times must be
  before the sentinel for no ignition (`WrfAssumption`), as `1e9` seconds is.
- `InstallSound`, of `Bootstrap`: for any builds and any failures. `OneBuild`: nothing of an earlier
  build is left when `./configure` runs, so what is compiled after it is of the configured build;
  `DoneSoFar`: where a call has got to, all before it is there, provided no call dies in a clone,
  download or extraction.
- `NestsSound`, of `NestGeometry`: for every scenario, by the lemmas about rounding to whole parent
  cells that make each nest fit in its parent (`Fits`), level by level.
- `WpsSound`, of `WpsChain`: for any windows, failures and deaths. The invariant says of each step of a
  call what the steps before it have left: the GRIB files, geo_em, and the met_em files that there are,
  of which each hour has one (`OneFileAnHour`). Files of earlier calls may be anywhere; what is not of
  this call is known to have been there when it began. That the hours of a window are among those asked
  for is arithmetic of six-hour steps and days (`Quotient`, `QuotientGrows`).
- `WaitIsRight`, of `SlurmJob`: for any timeout and interval of polls. `PollsToDeadline` bounds the
  time, and `CompletedIsDone` says that a job shown as COMPLETED has ended with 0 and stays so.

**`PipelineBuilderProofs`**

- `PlanSound`: for any registrations, targets and edits. The invariant follows the walk: the registry
  maps variables to producers that make them (`RegistryInv`), added nodes are closed under what they
  require (`NodesInv`), the frames of the walk are a path (`WalkInv`), and what is layered is acyclic
  (`PlanInv`). `WalkedIsLayered`: a plan built by the walk is never called a cycle.
- `ChainsKeepTheirLinks`: `Spec => []ChainIsLayered`, for pipelines built as a chain or from targets,
  not both. When `k` layers have been taken the next is link `k + 1` (`NextLink`).

**`ChainProofs`**

- `CascadeSound` and `DryRunIsDry`, of `Cascade`: for any scenarios and invocations over one directory.
  `OneSetting`: configuration and adapter agree from the loading of the scenario file on;
  `CubeIsOfRuns`: what is in the cube was made for one of the scenarios run there, so with one scenario
  for that one.
- `NeedsServed`, of `DataResolve`: for any needs, producers and sources. `ReportsTrue`: what is reported
  as satisfied is, also after a producer that was run for a later need has made it again, except between
  that run and its recheck, which raises if it fell short. It needs `MadeAlike`: needs that one producer
  makes are all required and of one kind and resolution; without it the code does reuse what it has
  overwritten (*Needs* above). `FetchedAsStored` and `CoversWindow` take this through `fetch`;
  `SourcesRanked` says that the ranked list is ordered by rank and, within a rank, by registration,
  which insertion keeps (`SourceAdded`). A second invariant, `CubeInv`, holds array and rows together:
  every day in an array has its row, and rows for days that are not in it were there before `resolve`,
  of a need that no other need's producer makes.

- `ChainType`, of `MCCascade`: the types of all the parts of the chain.

Every invariant and action property of the runs that pass is stated by a theorem. Only model-checked are
the liveness properties `Terminates` and `StepEnds`, which the proof system does not reach. Theorems
that need more than the module's `ASSUME` say so: `ReportsFresh`, `RunsForAReason`, `OneWindowServed`,
`OkMeansComplete`, `ChainsKeepTheirLinks` have it as a hypothesis, and each hypothesis is that of the
run which checks the property.

## 5. Not modelled

- Numeric work: resampling, reprojection, rasters, units, projection and physics options of the
  namelists. TLC has no floating point, and the results have no state the rest depends on. The raster
  and point drivers are this and a fetch; the write at their end is `write_static`, in `CubeFreshness`.
- Arithmetic of tiles and halos: rectangles clipped at edges, which a unit test can enumerate.
- Worker cube references, spilling arrays, cluster profiles: one branch, one file or one table each.
- Configuration, parsing of KML and YAML, logging, the test harness: no state.
- `write_timestep` and the merge policy ACCUMULATE: nothing in the repository calls the one or declares
  the other.
- Ties of stamps within a microsecond, and ERA5 gaining hours between two requests for one window
  (`drivers/era5_wind.py:159`).
- Queries that only read: `explain`, `edges`, `find`, the manifest's and the catalog's listings.
- `scripts/run_fire_dallas.py`: the sequence of `run_cascade.py` with one scenario written out.
- Of the backends, `map`, `shutdown` and the start of clusters, which the runner does not use.

`PROJECT.json` says of each part what is modelled and what is left out, and lists the hazards with the
properties that watch over them.
