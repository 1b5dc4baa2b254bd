# Verification of DriveEval

DriveEval replays recorded driving scenarios through a planner and measures what
happens. This directory holds TLA+ models of the parts of it whose correctness is a
matter of order, concurrency, failure or accumulated state, the TLC runs that check
them, and TLAPS proofs of the properties that matter most. Every definition is
translated from the source; `PROJECT.json` names the lines.

## 1. The system

```
 S3 --> downloader --> raw dirs --> converter --> shards (*.scn) --> batch runner
        (threads)                   (processes)                     (threads)
                                                                       |
   run_all.sh starts one batch after the other                         v
                                            metrics_<run>.csv, features_<ds>.csv, runs.csv
                                                                       |
        report <-- queries <-- gate, miner <-- results store <-- analyze.py / load.py
```

Inside a batch worker: `Simulator::run` = route search, reference path, `World::reset`,
then per cycle: collision check, prediction, lattice, cost, refinement, tracking,
`World::step`; at the end the metrics row.

| component | state it keeps | operations | what is hard | what makes it correct |
| --- | --- | --- | --- | --- |
| batch runner (`apps/drive_batch.cpp`) | claim counter, buffers per thread, mutex, two files, eight counters, runs.csv | claim, replay, flush, drain, join, record | threads; kill with rows in buffers; stale simulator output | each scenario one row; provenance only over a complete file; summary = file |
| campaign (`scripts/run_all.sh`) | only the files | skip if present, run, stop at failure | kill and rerun, FORCE | complete means complete |
| results store (`db/load.py`, `scripts/analyze.py`) | tables runs, metrics, features | DELETE + INSERT per file | crash between statements, files being written, repeated runs | the tables mirror the files |
| world (`src/sim/world.cpp`) | per agent: present, place, arc length | reset, suppress, step | gaps in recordings, time shifts, agents that leave and return | same agents in both modes, agents on their paths |
| simulator loop (`src/sim/simulator.cpp`) | ego, last commands, cycles, metrics | run: begin, cycle, return | early returns, state kept from run to run, differences between cycles | the row accounts for the cycles of this scenario, no collision missed |
| planner (`src/plan/planner.cpp`, `cost.cpp`) | candidate costs, output, last refinement | plan: predict, score, choose, refine | fallback ranking, acceptance of refinements, full workspaces, stale solver output | never a collision that could be avoided; nobody left out of the predictions unsaid |
| prediction (`src/predict/prediction.cpp`) | workspace of predictions | fill | overflow | no agent dropped unseen |
| route search (`src/map/route_search.cpp`) | open and closed sets | findRoute | inadmissible heuristic, ties | a path of least cost |
| metrics (`src/eval/metrics.cpp`) | - | computeMetrics | empty and single-cycle runs | counts agree with cycles |
| cache (`cache_reader.cpp`, `cache.py`) | shard files | write, open, scenario | truncated files, bounds | reader accepts what the writer wrote, nothing torn |
| downloader (`av2/download.py`) | .part files, cached listing | list, download, resume | threads, retries, kill | no short file under its final name |
| converter (`convert_av2.py`) | shards, manifest, rejections | convert, flush | old shards beside new ones | kept + rejected = seen |
| failure miner (`mine/subgroups.py`, `discretize.py`, `scripts/mine.py`) | candidates, tested rules, classes; tables mining_jobs, failure_classes | vocabulary, beam search, confirm, correct, prune, describe, store | dedupe and beam, pruning order, caps after the correction, kill while storing | nothing lost that was promised; what is significant is so over the whole family |
| gate (`mine/gate.py`, `scripts/gate.py`) | cells; table gate_results | compare, decide, store, exit status | NULLs and missing scenarios, thin scopes, kill while storing | justified, symmetric verdicts; status and table agree |
| statistics (`mine/stats.py`) | - | bootstrap, p-values, step-up, Fisher | clusters, ties, degenerate samples | interval and p-value agree; the largest family is rejected |
| queries (`db/queries.py`) | - | five SQL queries and what is concluded from them | NULLs, rows of one mode only, unlabelled rows | what is unknown is not counted as something known |
| report, viz, single-scenario tools | - | - | none of the above | not modelled |

Components interact through files (everything between the boxes of the first picture),
through shared memory (the batch workers) and by calls (simulator, world, planner).
There are no callbacks and no network protocol except HTTPS downloads.

## 2. Modules

| module | models | notes |
| --- | --- | --- |
| `DriveBatch` | the batch runner | one action per step a thread takes between two shared accesses |
| `RunLedger` | what a batch promises its readers | abstract: three steps, no threads |
| `DriveBatchProofs` | proofs for `DriveBatch` | |
| `ResultFiles` | the results directory | shared by the next two |
| `Campaign` | `run_all.sh`, a batch being what `RunLedger` promises | |
| `Store` | `analyze.py` and the loaders | every SQL statement a step of its own |
| `Results` | `Campaign` and `Store` together | analyses during a campaign |
| `ResultsProofs` | proofs for `Results` | |
| `World` | the closed-loop world | every agent moves in one step, as in `World::step` |
| `WorldProofs` | proofs for `World` | |
| `RawFiles` | the raw directory | shared by the next two |
| `Fetch` | `fetch_av2.py`, `download.py` | one action per step of a thread |
| `Convert` | `convert_av2.py`, `convert.py`, `write_shard` | pool and main process |
| `Ingest` | `Fetch` and `Convert` together | a conversion during a download |
| `IngestProofs` | proofs for `Ingest` | |
| `PlanAnswer` | what the planner promises the simulator | abstract: asked, answered |
| `Planner` | `planner.cpp` with the prediction workspace and the refiners | one action per iteration of its loops |
| `PlannerProofs` | proofs for `Planner` | |
| `Simulator` | `simulator.cpp`, the planner being what `PlanAnswer` promises | one action per cycle |
| `SimulatorProofs` | proofs for `Simulator` | |
| `Orders` | `argsort`, `sort`, boolean indexing, as the next two use them | pure operators |
| `Stats` | `stats.py` | pure operators, shared by the next five |
| `Discretize` | `discretize.py` | pure operators |
| `Queries` | `queries.py`, the split of `load.py`, the headline of `analyze.py` | pure operators |
| `Algorithms` | one call of any of these | a state is a call, a step its answer |
| `Scripts` | a script as a process: its arguments, its executions, the rows it has still to insert | shared by the next two |
| `Miner` | `mine()`, `write_results`, `scripts/mine.py`, `analyze.py` | one action per phase and per SQL statement |
| `Gate` | `gate()`, `write_results`, `scripts/gate.py`, `analyze.py` | one action per phase and per SQL statement |
| `AnalysisProofs` | proofs for `Stats`, `Queries` and `Algorithms`, and the lemmas the next one shares | |
| `ScriptsProofs` | proofs for `Gate` and `Miner` | |
| `MC*` | instances for TLC | |

### DriveBatch

`next` and `tally` are `Counters`; `pc`, `cur`, `bufM`, `bufF`, `local` are the locals
of the worker lambda; `mutex` is `out_mutex`; `fileM` and `fileF` are what was written
to the two streams. A file or a buffer is a number of rows per scenario. `routed`
is `so.route.ok()`: it belongs to the worker's `Simulator`, survives from one `run()` to
the next and is not assigned when a scenario has no ego (`simulator.cpp:38`). `Claim`,
`SkipUnreadable`, `Replay`, `Lock`, `WriteMetrics`, `WriteFeatures`, `Finish` are the
loop body cut at each access another thread can see, except that the counters bumped in
`Replay` are one step: each is an independent atomic increment that nobody reads before
the join, so only their sums matter. `Kill` keeps any part of the rows on disk
while the streams are open and all of them after `fclose`.

### ResultFiles, Campaign, Store, Results

A file is the execution (`run_all.sh` invocation) that opened it, whether its header has
left the writer's buffer, its rows, and whether it was closed. `Campaign` has an action
for each outcome of `run()` in the script: `SkipPresent`, `Launch`, `FailToStart`, then
`Flush`, `CloseFiles`, `Record` of the batch, which it takes from `RunLedger`: that is the
composition. `Record` is one step, although a kill inside it can leave a new `runs.csv` without
its header. `Store` splits each loader at its `DELETE` and its `INSERT`, because the
connection commits each statement. A file that is not closed may be rejected and must be
when it has no header; otherwise what is there is loaded.

### World

An agent is `valid`, its arc length `s` as the code keeps it, and the `place` its position
is at, measured along its own recorded path; `Astray` is off the path. The driver model
decides how far an agent gets: any distance up to `MaxAdvance`. `Followed` is the
pure-pursuit branch by its effect: straight on past the end of the path, along the path
when the aim point is ahead, off the path when it is behind. The cases of `After` are the
branches of `World::step` in their order.

### RawFiles, Fetch, Convert, Ingest

`raw` is what is under the final name of each file; the `.part` files are not modelled as
state, because only the thread that writes one ever sees it. A thread takes the
next scenario, requests each file that `Missing` finds absent or of a wrong length (nobody else touches that directory, so the look is part of the step
before the request), and receives it. `keys` is the cached listing, with the torn state
between `open` and `write`. The converter's pool may compute any result at any moment,
from the files as they are then (that they exist and what is read of them in one step: no step of
the downloader removes or shortens a whole file); `Take` is the loop over `imap`, `OpenShard` and
`WriteShard` are `write_shard`, `WriteReport` the two `write_text`. Whether a complete
scenario passes the filters is the constant `Valid`; the number of the conversion stands
for the constants (footprints) in force.

### PlanAnswer, Planner

`near` is the world as the call finds it: the agents that are valid, not suppressed and
within `prediction_radius`. `fill()` goes through them by index (`PassBy`, `Predict`,
`Overflow`); `Score` is one iteration of the scoring loop with its five local variables
`best`; `Choose` and `Refine` are the rest of `plan()`. A trajectory is the set of
predicted agents it overlaps and the first sample at which it does, a candidate also a
cost and whether its shape keeps the vehicle's limits (`Candidate::feasible` of the
lattice): any combination. `refine` is `out_.refine`, which belongs to the planner and
survives the call; what an old trajectory overlaps now is open. The solvers are what they
may leave there: OSQP's loop keeps only improvements of the objective it reports, iLQR
improves another sum (`Solved`), and an OSQP that is not built in or cannot be set up
(`osqpReady`, part of the configuration) leaves what was there under equal objectives
(`Unsolved`). `Plan` maps this to `PlanAnswer`.

### Simulator

One simulator through all its runs: `Refuse` is the returns before the loop, `Begin`
everything `run()` initialises, `Cycle` one pass of the loop, `PlannerFails` and `Finish`
the returns from it. Commands, touched agents and the cause of a collision are any;
whether the planner answers at all is taken from `PlanAnswer`. Time is counted in steps,
so that acceleration times a step is a speed. A cycle's record holds the speed before the
step and the acceleration of the step before. `touching` is not in the code: it is what
`NoCollisionMissed` compares the row with.

### Orders, Stats, Discretize, Queries, Algorithms

Probabilities are counted in whole units, values in hundredths. A cell of a table is a
set: `{}` is NULL, `{v}` is v; a comparison with NULL is false (`Holds`), an aggregate leaves
it out, an ascending order puts it last (`Precedes`). The bootstrap is not sampled: a bag of
replicates holds every one of the n^n draws of n clusters as often as it occurs
(`DrawCounts`, one draw after the other), so interval and p-value are those of infinitely many
resamples; they depend on nothing but the order of the replicates, so the log of a
ratio is replaced by its sign. `FisherP` is exact, as a fraction. Of the interval of a
lift only what decides is kept: `MayLieAboveOne` says whether the method `rate_ratio_ci`
chooses can put it above 1.0. Sorting is by rank: the place of an
element is one more than the number of those before it (`Arranged`, and `SortedP` for p-values, where
equals stand beside each other in either order). Ranks that tie are equal, and where the code takes the first
row of an order that SQL leaves open the winners are the set of all it may be.
`Algorithms` calls each procedure with every argument of its constants and returns the answer
(`CallSpec`). What the code would refuse
or crash on is excluded by `AlgorithmsAssumption`: p-values from 0 to `Unit`, tables with finitely
many rows, replicates and cluster ids that are numbers, columns with at most one number in a cell. The
results of the two agent modes are those of the at-fault collision, which is 0, 1 or NULL (`metrics.cpp:135`).

### Scripts, Miner

`candidates` is the dictionary of `mine()`, in insertion order, `level` the list that the next
depth extends, `rows`, `kept`, `result` the local variables of the same names. A rule is a
set of positions in the vocabulary, a mask the set of rows. `Refuse` and the two later
`Stop`s are the `ValueError`s, which end `mine.py` and which `analyze.py` writes down.
`Register` is the closure of the search, `Extended` the double loop that calls it;
`Representatives` is the greedy loop of the pruning; `Correct` is the step-up
over all tested rules; `Prune`, `Final` and `Describe` cut what is described. `Tell` comes before
the tables are written in `mine.py` and after that in `analyze.py`; `mine.py` takes a fresh
`job_id`, `analyze.py` the same in every execution. `MineRestart` may come between any two steps.

### Gate

`CellsOf` is the double loop over scopes and metrics, `Decided` the correction over the cells
that have a p-value and `_decide` for each of them. A run is a partial function from scenarios to
rows, because the runs may cover different ones. `NoClasses`, `UnknownColumn` and
`NotComparable` are the ways not to compare, told apart by the exit status; `Delete` and
`Insert` the statements of `write_results`. `InsertRefused` is the primary key: a metric that was asked
for twice has its cells twice. `_paired_values` is the set of the scenarios that are left (`PairedValues`);
neither a mean nor the bootstrap looks at their order.

## 3. Runs

| run | question | result |
| --- | --- | --- |
| `batch` | does every scenario get one row, whoever claims it and whenever the process dies; do summary and provenance tell the truth; does the batch end | holds |
| `batch_features` | does a features row describe its own scenario | violated: finding 1 |
| `results` | do provenance and database stay consistent with the files over kills, repetitions and concurrent analyses; does FORCE end what they left | holds |
| `results_complete` | does "all runs complete" mean it | violated: finding 2 |
| `world` | are the agents where and when they should be, in both modes | holds |
| `ingest` | do download and conversion report, list and deliver what is there; do they end | holds |
| `planner` | is a feasible candidate of least cost chosen and what is driven clear of agents, where there is one; is nobody left out unsaid; is every call answered | holds |
| `simulator` | does the row account for the cycles and miss no collision; is the jerk within the controller's limit | holds |
| `algorithms` | does each procedure give what it promises, for every small argument | holds |
| `algorithms_headline` | does the interval of the ratio that the report prints exclude 1.0, as it says | violated: finding 3 |
| `mining` | does the search miss a hypothesis, the pruning a class, the cap a significant one; do classes and job in the database belong together | holds |
| `gate` | is a verdict justified, symmetric and independent of thin scopes; do table and exit status agree | holds |

Bounds, and why they are enough:

- `batch`: 2 workers, 3 scenarios, a flush every 2 rows, so that a worker may flush
  during its loop, drain a partial buffer, drain an empty one, or never claim anything,
  while the other is anywhere. Four kinds: without a row, a failure counted by name, a failure counted
  as `load_fail`, a scored one with every counter. The other kinds differ in the name of a counter only.
- `results`: 2 runs, 2 scenarios, one with a features row, 2 invocations: one to be
  killed and one to repeat, with and without FORCE. Analyses are unbounded.
- `world`: 2 agents, 4 steps, a path of up to 2 units, one unit per step, shifts of -1, 0
  and 1. Four steps hold a gap, a late start, an early end and a return after leaving.
- `ingest`: 4 scenarios, one of them unfit, of which earlier attempts left two whole and
  one with a short file; 2 threads, 1 retry; 2 starts of either program, so that each can be
  killed and repeated and both can run at once; no limit or a limit of 1; shards of 2, so
  that there is a full one, a partial one, or none.
- `planner`: 3 agents and a workspace of 1, so that one or two are left out; none or 3
  candidates, so that the best may come first, in the middle or last and two may tie; 2
  samples, two costs, every backend, OSQP ready or not; calls without end.
- `simulator`: recordings of up to 4 steps (none, one, two and three cycles, so that a
  cycle has neighbours on both sides), 2 agents of which the first is scenery, speeds
  that brake through zero, a jerk limit below the range of commands; runs without end.
- `algorithms`: families of up to 4 p-values with ties, from the least to 1; up to 4 rows in up to 3
  clusters with every draw; up to 3 replicates below, at and above 0; columns of up
  to 4 rows with NULLs, values that round to one edge, few and many distinct values; tables
  of up to 3 scenarios (comfort and latency 2) in which every row may be absent, failed, unmeasured or measured. These are the
  cases the procedures distinguish; a longer input repeats them. `algorithms_headline`
  has the same instance.
- `mining`: 4 discovery and 6 confirmation scenarios; a table of counts and categories and
  one of numbers, three that are refused; every set of failures of the confirmation split; beams
  of 1 and of 20 (which never cuts), rules of up to 3 predicates. Caps of 1 class and 1
  stored class, so that both cut; 8 rules enter the pruning. 60 units are a multiple of every
  denominator of Fisher's test on 6 rows, so the p-values are exact.
- `gate`: 4 scenarios with every pattern of collisions, progress up, down, mixed or NULL, candidates that
  cover less or other scenarios; three mined scopes, one with enough, one with too few and one with
  no scenarios; each setting changed. 6912 is the least common multiple of 3^3 and 4^4, the
  numbers of resamples, so the p-values are exact. Lists of metrics name one twice, one without a
  direction and one that is no column.
- `mining` and `gate` start each script twice, so that it can be killed anywhere and repeated.

Fairness. `DriveBatch`: weak fairness of each worker and of the main thread; the operating
system schedules every thread and nothing in the loop waits but the mutex. It is weak although the mutex is
contended because `Worker(w)` is the whole loop body and the holder always releases:
with finitely many rows each worker's last acquisition is reached when the others
have exited. `Ingest`: weak fairness of each program as
a whole, which is less than the scheduler gives: it is enough, since every step of a
thread or process brings the program nearer its end. `World` has no fairness and no liveness: it
is a function of its inputs that ends with the recording; nor have `Planner`, `Simulator`,
`Algorithms`, `Miner` and `Gate`, each the sequential code of one process, and `Results`, two
straight-line programs in which nothing waits.

Deadlock is checked, and a system that has ended stutters explicitly, except in the
`ingest` run, where both programs have ended when the starts are used up (that none of
them stops earlier is what `IngestEnds` says), and in those of `algorithms`, `mining` and `gate`,
where a call has been answered or a script has ended.

## 4. Findings

1. `drive_batch.cpp:208`: the features row of a scenario without an ego is written from
   the previous scenario's route (`RouteAfter`).
2. `run_all.sh:26`: a killed batch's truncated metrics file is skipped as a finished run,
   for ever, without a provenance row.
3. `analyze.py:155`: "understates ... (95% CI ...). The interval excludes 1.0" is printed when the
   interval of the *difference* excludes 0. The interval it prints is of the ratio, which is
   not a number when log-replay has no collision, and with few collisions need not lie above 1.

Seen while modelling, and not the subject of a run:

- `drive_batch.cpp:155`: a repetition that dies leaves a shorter file than there was, with the
  provenance row of the old one still in `runs.csv`.
- `load.py:175`: after a repeated run `runs.csv` names a run twice; the DELETE of the loader
  commits and its INSERT fails on the primary key, so each attempt deletes the runs it names.
- `world.cpp:50`: with a negative time shift a reactive agent starts at arc length 0 instead of
  at its place, steers backwards and leaves its path (`ArcLengthIsOwn` excepts it).
- `world.cpp:178`: a parked agent that is first recorded after step 0 is never in the
  reactive world, although the comment at `world.cpp:182` has it enter.
- `planner.cpp:169`: with `--backend osqp` in a build without OSQP, or when its setup
  fails, both objectives are equal, and the trajectory left over from before, or that `setup()` filled
  with zeros, is driven whenever it hits no predicted agent, although the comment at `planner.cpp:164`
  wants a refinement that is "actually better on the shared objective". The run `planner` holds
  these states; no property says that what is driven is of this call, because it need not be.
- `planner.cpp:108` and `lattice.cpp:156`: the fallback ranks every candidate, also those the
  lattice has marked infeasible for their shape. One of these that overlaps nobody counts as "never hits"
  and beats every candidate that keeps the vehicle's limits and collides, so it is driven
  when nothing is feasible; the lattice's comment says that it "can never be chosen", the one at
  `planner.cpp:134` that the least bad candidate is executed. `ChoiceIsBest` takes no side: of such a
  choice it says only that the output reports no feasible candidate.
- `analyze.py:345` says that no class survives the correction when none of the classes it
  *stored* is significant; `top_k` is by failure mass, so a significant one may have been cut.
- `scripts/gate.py:10` documents exit status 1 for a regression and 2 for a comparison that could not be
  made. Only a `ValueError` becomes 2: a `--metric` that is no column, or one given twice, whose second row
  breaks the primary key, ends the gate with an exception of the database, which is status 1
  (`RecordSays` excepts both).
- `gate.py:527` asks only whether the candidate is worse. A sum of differences of exactly 0 whose interval leaves
  0 out is an improvement whichever run comes first; it takes skewed differences and an `--alpha` near
  1, such as (-6, -1, 1, 1, 1, 2, 2) at 0.98. `VerdictsMirror` excepts such ties.
- `subgroups.py:799` deletes the job by `job_id`, line 798 the classes by `job_id` and target: one
  id for two targets would leave classes without their job. Neither script does that.
- `load.py:300` says that every mining job verifies the splits; `analyze.py` mines without.
- `n_significant` of the miner depends on `max_prune_candidates` (`subgroups.py:597`), which cuts
  before the union with what clears the correction.
- A text column with one value and a constant one with NULLs yield predicates that are
  true of every known row.
- The comfort consistency check leaves out rows with a NULL channel, which
  `ComfortCheckIsSound` therefore excepts; `log_replay_vs_reactive` takes the maximum over
  several runs of one scenario; a scenario without a mean cycle time still weighs in the
  latency mean (`queries.py:543`).
- `fetch_av2.py:52` writes the cached listing in place; after a kill in the middle every later
  start fails on it, until `--refresh-keys` is given (`StartFetch`).
- `convert_av2.py:99`: shards of an earlier, larger conversion stay beside the new
  manifest, and the batch reads them all, although `docs/INGEST_AV2.md:87` promises that a
  shard can be traced to its manifest.
- `planner.cpp:171`: if the chosen candidate collides, the refined one is not looked at for
  collisions and may hit other agents, or earlier (`DrivesClearIfPossible` speaks of the
  feasible case only).
- `prediction_overflow` and the cycle's `no_feasible_candidate` have no reader:
  `PlannerNobodyDroppedUnseen` proves it of the planner's output, but no row shows it.
- The status `no_cycles` of a recording of one step is not among those `schema.sql:27` lists;
  the ego's place at the last step of a recording is never checked for collisions.
- `planner.cpp:134` speaks of candidates that leave the road; `evaluateCandidate` charges for
  that and keeps them feasible.

## 5. Proofs

`DriveBatchProofs`, for any finite or infinite set of workers, any number of scenarios
and any flush interval, from the assumptions named in `DriveBatch`:

- `BatchTypeCorrect`, `BatchRowsAccountedFor`, `BatchNoDuplicateRow`,
  `BatchRecordedIsComplete`, and `BatchKeepsTheLedger`: the batch implements `RunLedger`.
- The invariants the runs check are not inductive. `RowsAccountedFor` says nothing once
  the files are closed, and completeness then has to come from the workers having drained.
  `BatchInv` adds: a worker that drains or has exited has seen a claim past the end, so
  everything is claimed; a worker past its last write has an empty buffer; buffered rows
  are of readable scenarios; a closed file is complete; a recorded run has exited.
  `WorkerKeepsRows` proves the row accounting action by action.
- `BatchSummaryAgrees`: what the summary prints is what the rows say. `CountInv` is about the counters while
  the workers run: each is the number of scenarios that were replayed and feed it (`Replayed`), `done`
  the number of those nobody is busy with any more, and no two workers are busy with the same. At the join nobody
  is busy, so the counters are of all scenarios; `FourParts` shares the readable ones out over the statuses.

`WorldProofs`, for any agents, recordings, shifts and advances:

- `WorldTypeCorrect`, `WorldReplayIsFaithful`, `WorldNoGhosts`,
  `WorldMovingAgentsArePresent`, `WorldLingersOnlyOnPath`, `WorldArcLengthIsOwn`; and
  `WorldSuppressedStaysGone`, which no run repeats.
- `WorldInv` ties arc length to place only for present agents on a usable path, since
  the rest may be anywhere; `PathHasEnd` (a path has a last point, from the finiteness of
  the recording, by well-foundedness) is what makes `Followed` computable.

`SimulatorProofs`, for any agents, steps, speeds and limits of the vehicle:

- `SimulatorTypeOK` (the commands never leave the vehicle's limits: a rate limit applied
  after them cannot undo them, `RateKeepsLimits`), `SimulatorRowAccountsForRun`,
  `SimulatorNoCollisionMissed`, `SimulatorAccelExplainsSpeed` and
  `SimulatorJerkWithinController`.
- A row is only made at the end, so `IInv` says of every cycle what the row will need
  (`CollisionsNamed`), and of the loop how far the ego is ahead of its last record
  (`StepExplained`, `CommandsClose`); `InLoop` ties the cycles to the steps, and holds that
  a planner without candidates fails in the first. `CycleAppended` serves both steps
  that record a cycle. That a first collision exists is `SmallestElement`, from the
  well-foundedness of the naturals.

`PlannerProofs`, for any numbers of agents, candidates, samples and costs, any workspace:

- `PlannerTypeOK`, `PlannerChoiceIsBest`, `PlannerDrivesClear`,
  `PlannerNobodyDroppedUnseen` and `PlannerAnswersEveryCall` (the planner implements
  `PlanAnswer`), with OSQP ready or not.
- The properties speak of a call that has returned, so `IInv` says what the scoring loop
  knows of the candidates so far: `FeasibleScored` and `AnyScored` are its loop invariants,
  one per ranking; the first candidate always enters the second, so that one is chosen.
  `ChosenIsFound` and `RefinedPassed` carry them over the choice and the refinement, and
  `FeasibleCounted` ties the counter the caller reads to the choice. `Predicting` is the
  invariant of `fill()`.

`ResultsProofs`, for any runs, scenarios, invocations, analyses and kills:

- `StoreHoldsOneExecution`. `OneInv` adds what the property needs between the `DELETE` and the `INSERT` of
  a metrics file: what is staged is of one execution, and the table has no row of its run. The file itself may be
  rewritten in that moment; the staged rows are not.
- `StoreMirrorsSettledFiles`. `SettledInv` says, as long as the files rest, what each loader has already
  done: the rows of `runs.csv` and of a closed features file are in, and a finished metrics file that is no longer
  pending is mirrored. `UpcomingUnique` (the order of the names is total) gives that the file whose
  rows are deleted is the one whose rows are inserted.
- `RunsCsvVouches`. `ProvenanceInv` needs that the execution under way has no row yet of the runs it has still
  to pass, so that opening, and emptying, a file can contradict no row; that the file open in a batch
  is of this execution; and that the runs are distinct, or `Record` would vouch for two files.
- `ForcedCampaignReported`. `ForcedInv`: while a forced campaign runs, the files of the runs it has passed are
  complete and of this invocation. A later step writes only the file it is at (`PassedUnchanged`, again from the
  distinctness of the runs), and `ProvenanceInv` gives that what `Record` passes is closed and its own. What the
  report then reads is `StoreMirrorsSettledFiles`.

`IngestProofs`, for any scenarios, threads, retries, shard size and any starts and kills of both programs:

- `IngestReportIsHonest`, `IngestManifestTrue`, `IngestDeliversWhatIsReady`. The three invariants
  of `IngestInv` are proved one on top of the other. `FetchInv`: a thread at a file of a scenario has the earlier
  files of it, whatever it skipped. The converter: results are taken in the order of the directories
  (`OrderInv`), what was taken is either in a shard, in the buffer or rejected with its reason (`AccountInv`), the
  shards listed are whole and as listed (`ShardInv`), and what is written at the end is that
  (`ReportInv`). `ReadyInv`: what was kept was complete, and, because no step of the downloader takes
  a whole file away (`WholeStays`), still is; what was ready when the conversion began has no other result.

`AnalysisProofs`, what the procedures return, for tables, families and samples of any size:

- `ComfortCheckSound` (the consistency query counts, and a count is 0 exactly if there is nothing to
  count), `SplitReproducible` (for any assignment and any stored table) and `DominanceRanked` (the score is a
  sum of ranks, each of which respects its metric). `CallInv` carries the answer of a call, and that its argument
  is from the tables, to the state in which it is read.
- `StepUpLargest`. The code sorts, takes the minimum from the right, and never forms the
  rejected set. A q-value is the least p * m / rank over the p-values from its own upwards (`QIsLeastQuotient`), so it is
  at most alpha exactly if one of them clears its threshold (`ClearsIsRejected`), and ordered as the
  p-values (`QFollowsP`).
- `IntervalMatchesP`. The two are computed along different ways: the interval by interpolating between two
  positions of the sorted replicates, the p-value by counting those on each side of 0. A sorted
  position is at most v exactly if more replicates are at most v than the position says (`SortedAt`), and the
  positions of the upper percentile mirror those of the lower one (`PositionsMirror`).
- `UnlabelledApart`. A sum over groups is the sum over everything (`GroupsShareOut`), and a mean lies between the least
  and the greatest term.
- `RowsInClusters`. The code finds the rows of a resample by arithmetic on a sorted order, counts and offsets.
  A row's place when sorted stably lies after all rows of lesser clusters and before all of greater ones, so a cluster
  is a stretch of the order (`LayoutSorts`); and the stretches of the drawn clusters, laid end to end, do not
  overlap (`StretchesFollow`), so each position of the result is in one of them.
- `PredicatesCutColumns`. A cut lies above the least value and not above all: by construction where
  the values are few and whole, by the filter after the quantiles are rounded otherwise (`EdgesCut`). The
  quantiles need that every place of the sorted column has its value (`QuantileIsAValue`). The cuts are
  sorted and distinct, so no predicate comes twice.
- `PairingHonest`, for any table of 0/1 flags. The pairs are determined by the measured rows of the scenarios that ran
  in both modes (`PairsOfTable`, `PairsOfPaired`). Exchanging the modes negates the difference of each draw, so the replicates
  are mirrored (`DeltasMirror`) and the interval is the same from behind (`IntervalMirrors`). That
  "understates" needs more failures against reactive agents is a counting argument: if at least as many scenarios fail
  only in log replay as fail only against reactive agents, the latter can be exchanged for some of the former
  (`MoveExists`); the exchange takes each draw to one with at most the opposite difference, and no two to the same, so the
  lower percentile is not above the negative of the upper one, and not above 0 (`LowerBoundNotAbove`).

`ScriptsProofs`, the gate, for any runs, scopes, metrics and any number of executions:

- `GateStoresOneExecution`. That the rows of one id are of one execution is not inductive: `GateInv` adds
  that until `Delete` no row is of this execution and nothing waits to be inserted, that no
  row is of a later one, and that while rows are inserted the ones of this id are this execution's. A
  restart at any point leads back into it, because the repetition deletes before it inserts.
- `GateStatusIsOnRecord`. `RecordInv` follows the cells: each names the scope and the metric of its place
  (`Placed`), those before the next one are stored, with their verdicts, and nothing else is (`StoredUpTo`).
  That only a metric asked for twice is refused is `RefusedIsTwice`: two places of the grid of scopes and metrics with one name are one place
  (`GridPlaces`) or the metrics repeat.
- `GateVerdictHasAWitness`. `VerdictInv` says of every cell that its numbers are those of its scenarios
  (`Measured`), and of every verdict that the interval excludes 0 and the sum of the differences is on its side
  (`Justified`). If no scenario differed, every resample is 0 (`DrawsAreCounted`, by induction over the draws), and an
  interval of zeros excludes nothing (`ZerosExcludeNothing`); so there is a difference, and a sum on one side
  has a term on that side (`SumHasAWitness`).
- `GateVerdictsMirror`. `CellsInv` says that, until they are stored, the cells are what `CellsOf` and `Decided` make
  of the two runs. With the runs exchanged every difference is the opposite, the replicates, counted draw by draw, are mirrored
  (`DrawsMirror`), the p-value is the same and the interval the same from behind (`IntervalMirrors`). What the
  correction makes of a cell depends on the p-values of its family alone, and not on their order: a q-value clears the level exactly
  if the p-value `Survives` (`ClearsIsSurviving`, in `AnalysisProofs`). So each guard of `_decide` answers
  alike, and the side changes (`VerdictMirrors`), but for a difference of 0, which has none.
- `GateThinScopes`. A scope without three paired values for any metric has no cell that was tested, so it adds nothing to the
  family. Leaving such scopes out renumbers the other cells (`GridBack`): the two families are the same p-values, one to
  one (`FamilyStays`), what survives is the same (`SurvivesSame`), and so is every verdict.

and the miner, likewise for any tables, bounds and statistics:

- `MinerClassesHaveTheirJob`. `MinerInv` follows the four statements: after the classes are deleted none
  has this id, after the job is deleted no job has it, and from the insertion of the job on every class of
  the id finds the job of its execution. It is the order of the statements, classes out before the job and in
  after it, that makes a kill between two harmless.
- `MinerLosesNoHypothesis`. The property compares what the search found with what all conjunctions cover. `SearchInv`
  follows the search depth by depth (`SearchedTo`): no two candidates have one mask; the mask of each is what its
  rule covers (`Meet`), and a rule of depth n has n predicates; `level` is the candidates of the last
  depth; and, as long as the beam never cuts, each predicate is proposed and so is the extension of each
  candidate before the last depth by each predicate (`SearchClosed`). A rule dropped because an earlier one has its
  coverage is at the same or a lower depth represented by that one, and so are all its extensions: that
  argument is an induction over the rules. It needs that a table has at most one value per cell
  and finitely many rows (`MinerAssumption`), or a mask would not decide which rows a rule covers.
- `MinerDropsRepresented`. `SearchInv` hands on that the rows are finitely many fractions with positive denominators
  (`RowsScored`) and that `kept` is what the pruning makes of their ranking (`Ranking`). `RanksAbove` is a strict weak order
  (`Ranked`, `RankedThen`: three keys one after the other), so the sorted list is ordered
  (`StableSortSorts`): what is kept before a rule ranks no lower than it.
- `MinerSurvivorsAreTheFamilys`. The flag is set from one row, the step-up procedure looks at the whole family. `FamilyInv`
  holds from the correction on that a row clears the level only if its position is rejected (`CorrectionRejects`, from
  `ClearsIsRejected`), which needs that Fisher's test returns a number of units (`FisherIsFraction`,
  over `Binomials`: a recursion over two numbers). `DescribeReports` follows a row through the
  pruning, the cap and the sort by failure mass (`ByMassLists`: all of them and nothing else), in both directions.

Theorems whose property no run repeats, because it is the type of a module or a part of
another property: the type theorems, `BatchNoDuplicateRow` and `BatchRecordedIsComplete`
(both also parts of `BatchKeepsTheLedger`), `WorldMovingAgentsArePresent`, `WorldLingersOnlyOnPath`,
`WorldSuppressedStaysGone`, `SimulatorAccelExplainsSpeed`, `IngestInv`.

The library's induction theorems take an operator, which these provers cannot instantiate. `AnalysisProofs`
proves its own, over sets: a set of numbers with 0 and with each successor is Nat
(`NatSetInduction`, from the well-foundedness of <), a family with {} that is closed under adding an element has every finite
set (`FiniteSetInduction`), and a recursive function over them has the values it defines
(`RecursionExists`). Sums, draws and ranks are written so that these reach them: over sets, or as
recursive functions.

Only model-checked: liveness (`BatchEnds`, `IngestEnds`: the prover has no
rules for fairness here). Every other property of a passing run is a theorem.

## 6. Not modelled

- Numerics over reals (lattice polynomials, iLQR, OSQP, steering, drivable area, reference path, feature
  extraction, Wilson intervals, Kendall's tau, the size of a ratio) are outside both tools; where a
  decision depends on them the models take any outcome the code allows. That includes the seed of the
  bootstrap: the exact distribution stands for it.
- Route search is a pure function over lengths of curves; `Simulator` takes any outcome of it.
- The binary layout of the scenario cache and the bounds checks of its reader: no order and no
  accumulated state; a shard that is cut off is in `Convert`. The shards of a batch are one list in
  `DriveBatch`, so that `capabilities` of the last shard hold for all (`drive_batch.cpp:138`) is not in the model.
- Reports, pictures, single-scenario tools, command-line parsing, `--json` and `--no-write` of `mine.py` keep no state
  that anything else reads. `load_run_dir` repeats the loaders under fixed names.
- A failing disk (unchecked `fwrite`) is not modelled.
