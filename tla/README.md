# A verification project for ChordAuditMatrixBench

ChordAuditMatrixBench measures remote data-integrity audits: PDP audit strategies,
identity-verification schemes and dynamic block maintenance. This directory holds TLA+
models of its own core logic, TLC configurations that check them on small instances, and
theorems about them that TLAPS checks for every value of the constants. The reference for
every definition is the code; `PROJECT.json` names the lines each one stands for.

## The system

| Part | Source | State it keeps | Operations |
|---|---|---|---|
| Run plan | `benchmark_types.h`, `BenchmarkRunPlan` | five numbers, fixed once built | `balanced`, `asSingleWorker`, `slotBegin`, `slotCount`, `largestSlotCount` |
| Benchmark runner | `benchmark_runner.h`, `runSingle` | plan, thread pool, a collector and an exception slot per worker, all in one stack frame | one run: create, plan, validate, spawn, run, join, scan, merge, compute |
| Scenario interface | `benchmark_scenario.h` | whatever the scenario keeps, one instance per worker | `supportsParallelIterations`, `validateRun`, `setup`, `prepare`, `runIteration`, `recordIteration`, `teardown`, `computeResult` |
| Metrics collector | `metrics_collector.h`, `benchmark_timing.h` | counters, timing and message totals with stored averages, setup flags, block count, memory peak | record, merge, reset, fill a result |
| Dynamic maintenance | `dynamic_maintenance_scenario.cpp` | a StateStore per worker, iteration counter, last outcome | one Update, Insert or Delete per iteration |
| PDP audit | `pdp_audit_scenario.cpp` | file, tags, corrupted or stale blocks, last detection | corrupt a sample of blocks, challenge, prove, verify |
| Identity verification | `identity_verify_scenario.cpp` | users, keys, samples with ground truth | generate samples, verify singly or in aggregate |
| Computation strategies | `benchmark_computation_strategy.cpp`, `benchmark_config.h` | none | derive challenge size or confidence, expand sweep axes |
| Reports | `benchmark_report.cpp`, `dynamic_maintenance_report.cpp` | pointers to the results, one name | console tables, JSON |
| Executables | `app/*.cpp` | options, hot loader, strategy manager | parse, check, load, sweep, report, exit code |

How they interact. An executable loads strategies through a hot loader, expands its options
into configurations and calls `runSingle` for each. The maintenance executable keeps the
loader watching a directory while its benchmark runs; the PDP and identity executables drop
it before the first run. `runSingle` asks worker 0's scenario whether its iterations can
be split, builds the plan, lets the scenario validate exactly that plan and starts one
thread per further slot; worker 0 runs on the calling thread. Each worker drives a scenario
of its own and records into a collector of its own. Nothing is locked: worker results are
handed over by joining. The main thread then looks for a failure in slot order, merges the
collectors in slot order and lets worker 0's scenario fill the result.

What is hard: failures. Every scenario call, the creation of a scenario and the creation of
a thread may throw, in any worker, at any time relative to the others; the run must still
join every thread, close every lifecycle, and either account for every iteration or give no
result. Next to that: the split formula, which the scheduling and Delete's capacity check
share; accounting that must not depend on how a run was split; a strategy library that can
change between two look-ups; and boundary values of the search and sweep algorithms.

What makes each part correct:

- *run plan*: the slots partition the iterations, the bound on the largest slot is exact,
  nobody is started for an empty slot, the downgrade loses nothing;
- *runner*: no partial result, the lowest failing slot's exception, no live worker when
  results are read or the frame is left, no work for a rejected configuration, every
  scenario torn down, termination;
- *collector*: merging equals recording everything in one place, setups count once per
  worker, no stale average, latest-value fields combine across workers only, reset is fresh;
- *dynamic maintenance*: indices always legal, attempted calls accounted for, the block
  count identity, a result only from workers that found a dynamic strategy;
- *PDP audit*: what is corrupted is what detection is counted against, each iteration from
  an intact file;
- *identity verification*: as many samples as configured, outcome classified against the
  ground truth the sample was built with;
- *computation strategies*: the smallest sufficient challenge size, sweeps that hit their
  bounds and measure no point twice, configurations that can be audited;
- *reports*: every result shown once, lists that parse, no number from 0/0;
- *executables*: an exit code that tells what happened, exit code 0 only behind a whole
  sweep, nothing shown of a failed one, an end on every path.

## Modules

| Module | Models | Role |
|---|---|---|
| `RunPlan` | `BenchmarkRunPlan` | operators on plan records; no variables |
| `BenchmarkRun` | the documented promise of `runSingle` | abstract specification |
| `BenchmarkRunner` | `runSingle`, EXTENDS `RunPlan` | the core state machine |
| `BenchmarkRunnerInv` | | its inductive invariant |
| `MCBenchmarkRunner` | | TLC instance of the two |
| `BenchmarkRunnerProofs` | | theorems about every plan, invariance and refinement theorems |
| `MetricsCollector` | the class, as values and operators | parameterised by stages and messages |
| `CollectorMerge`, `MCCollectorMerge` | the life of a run's collectors | state machine with a history, TLC instance |
| `CollectorMergeInv`, `CollectorMergeProofs` | | its inductive invariant and its theorems |
| `DynamicMaintenance` | the scenario run by the runner | composes `BenchmarkRunner` and `MetricsCollector` |
| `MaintenanceApp`, `MCMaintenanceApp` | the maintenance executable | `DynamicMaintenance` from options to exit code, TLC instance |
| `MaintenanceInv`, `MaintenanceProofs` | | the inductive invariants of the two and their theorems |
| `PdpAudit`, `MCPdpAudit` | the scenario run by the runner | composes `BenchmarkRunner` and `MetricsCollector` |
| `PdpAuditInv`, `PdpAuditProofs` | | its inductive invariant and its theorems |
| `IdentityVerify`, `MCIdentityVerify` | one worker's scenario, sample by sample | composes a worker's lifecycle and `MetricsCollector` |
| `IdentityVerifyInv`, `IdentityVerifyProofs` | | its inductive invariant and its theorems |
| `SampleSize`, `MCSampleSize` | `theoreticalConfidenceRate`, `inverseSampleSize` | the search as a state machine, TLC instance |
| `SampleSizeProofs` | | theorems about the rate and the search |
| `Expansion` | the four `parseAndExpand` after their options are read | operators from axes to configurations |
| `SweepAxis`, `MCSweepAxis` | `resolveAxis`, `resolveSeq` | one axis from options to points to configurations |
| `SweepAxisInv`, `SweepAxisProofs` | | its inductive invariant and its theorems |
| `BenchmarkReports` | `toConsole`, `toJson` of the four sweep reports | operators from results to what is shown |
| `SweepApp`, `MCSweepApp` | the PDP and the identity executable | composes `Expansion`, the abstract `BenchmarkRun` and `BenchmarkReports` |
| `SweepAppInv`, `SweepAppProofs` | | its inductive invariant and its theorems |

Definitions that a comment calls a *mutated form* belong to no specification. Each is a
plausible bug of one definition, and exists so that it can be substituted to show that a
property notices it (`PROJECT.json`, `mutants`).

The `MC` modules extend the inductive invariants, so that TLC can be asked about `MergeInv`,
`MInv` and `AppInv`, `AInv`, `IdentityInv`, `AxisInv`, `SweepInv` or `ExpandedInv` by adding
its name to the INVARIANTS of the cfg; each holds in every reachable state of its instance. That is where to start when
the model changes and a proof no longer goes through.

### BenchmarkRunner and the code

`mpc` is where the main thread is in `runSingle`, `cursor` the index of whichever of its
loops is running, `pool` the number of threads created, `thrown` and `result` what the
caller gets. `wpc[s]` is where slot `s` is in `runWorkerLifecycle`, `next[s]` its loop
variable, `caught[s]` the exception its catch block is handling. `collectors` and
`failures` are the two vectors of the code. A collector is abstracted to three counts (setup
records, iteration timings, iteration outcomes), a configuration to its two numbers.

One action is one call or one loop step between two points where another thread or the
caller can tell the difference. Setup and the two records that follow it are one action, so
is `runIteration` with the timings recorded after it: those lines touch the worker's own
collector only, and cannot throw. `recordIteration` is a scenario call of its own that may
throw, so an iteration may be timed and have no outcome. Every call has an action in which
it returns; `MainThrows` and `CallThrows` are the same calls throwing, of the main thread
and of a worker's try block. `Cleanup` is the whole catch block: teardown,
its exception swallowed, then the failure stored.

`setups` and `teardowns` count calls, for the lifecycle property.

### MetricsCollector and CollectorMerge

A metric is total, count and stored average, the average kept as the fraction it was
computed from, so that a stale one is told from a fresh one. `CollectorMerge` runs workers'
recorders in any interleaving beside a single collector that records the same iterations,
merges in slot order, fills a result and resets. Whether worker-by-worker recording equals
recording in one place is then an equality of two collectors.

### DynamicMaintenance

Each scenario operation is conjoined with the runner's action that calls it, so the whole
run is checked: the scenario's part of planning and validating, its store through a
lifecycle, the real collectors through the merge, the report. External and modelled from
its use: a maintenance call on a legal index succeeds or is rejected, on an illegal one is
rejected, and a rejected call changes nothing (the code's `catch` turns it into a failed
operation). `StrategyReloaded` is the hot loader: between any two steps the name may stop
resolving to a dynamic strategy, or do so again (a static strategy and none at all are one
case: the code treats them alike but for the wording of the exception). A scenario call that has an empty body (`prepare`)
does not throw here, nor does `teardown`, which only resets members.

### PdpAudit

`scenario[s]` is what matters of a worker's `ctx_`: the blocks whose content was flipped,
the versions in its StateStore, and the versions its tags were made for. Block contents are
abstracted to whether they still agree with their tags (`Mismatched`). `chosen` is the front
of the seeded shuffle, the same in every worker because the seed is the configuration's; any
set of that size is taken. Static and dynamic strategies share the actions, which dispatch
where the code dispatches, and a name that resolves to nothing is modelled with its downgrade
and its failing setups. External: a challenge is any set of `sampleSize` blocks, cut to the
file, and a verification fails exactly if one of them is mismatched. Which messages a call
leaves behind to be measured is free at every call: the code counts the tags of a setup and
the challenge and the proof of an iteration behind null checks
(`pdp_audit_scenario.cpp:234`, `:380`, `:388`), and `SetupAudit` and `RunAudit` choose any
subset of them. The verdict does not depend on that choice. The results of `generateTags` and
`verifyProofs` themselves the code dereferences unasked (`:233`, `:377`), so they are assumed
to be there whenever those calls return. `struck`, `strikes` and `sent` are history, for
comparing the report with the challenges that were really answered and the messages that were
really left.

### IdentityVerify

One worker's scenario from setup to result, since workers share nothing. An iteration is
split into its samples: each is constructed (or given up, when a signature is refused),
the samples are shuffled, which is a set from which they are taken in any order, and each is
verified. `quota` is how many of each kind are still to be made, computed by the code's
rounding of shares. A signature is the triple of signer, key and message it was made from,
so that `Genuine`, what a sound algorithm accepts, is independent of the labels. A
sound algorithm answers by it, any other one answers anything, refuses or throws; the
algorithm may aggregate or not, be online or offline.

### SampleSize and SweepAxis

`SampleSize` is the binary search with its early returns, one loop turn a step. The
confidence rate is an exact fraction; the comparison with the target is the code's `>=`,
and because a `double` may fall on either side of an equal value, `tie` decides equality,
both ways being checked. `SweepAxis` takes every combination of options present and absent
over small values, follows the checks of `resolveAxis`, then generates the points one by
one. A `size_t` has four bits (`Modulus`), so that wrapping around is reachable; the
geometric variable is an exact fraction, rounded as `llround` rounds.

### Expansion, BenchmarkReports, SweepApp and MaintenanceApp

`Expansion` takes an axis as what `resolveAxis` and `resolveSeq` made of it: given or not,
accepted or not, its points. That accepted axes have points is checked in `SweepAxis` and
assumed in `SweepApp` (`SweepAppAssumption`); the challenge sizes of the inverse strategy are
any in the range `inverseSampleSize` returns from (`SizesFor`), which `SampleSize` makes
precise.

`BenchmarkReports` says for each report which results have a row, a block and a JSON element,
after which elements a comma stands, and which printed numbers are quotients with a divisor
of zero. The banner is its padding: a difference of `size_t` numbers, modulo `Modulus`.

`SweepApp` is one process. `command` is its command line, as the values the option loops
read; `library` what the hot loader found (how many algorithms, whether the wanted one is
among them and resolves to an object); `configs`, `results`, `console`, `json` are the
locals and the outputs of `main`, `exit` its exit code or `"killed"`. Both executables are
the same actions with the differences of the code: only the PDP executable asks for the
object behind the name (`Resolved`), each has its own scenario class (`WrongClass`), and only
identity setup dereferences the look-up unasked (`NoObject`). A run is the abstract
`BenchmarkRun`, of which `RunnerImplementsRun` proves that `runSingle` implements it, so
workers of one configuration succeed and fail in any order. There is no try block: an
exception, of the loader or of a run, kills the process. External: the loader finds
anything, throws, or not; a file opens or not; what is written is written or cut.

`MaintenanceApp` wraps `DynamicMaintenance`, not its abstraction, because its exit code
depends on the counters of the report and its loader goes on watching during the run:
`StrategyReloaded` is possible from the first look-up to the result. Here everything is in a
try block, whose handler is `LoadFails`, `RunFails` and the failing branches of
`ScanOptions`, `CheckStrategy` and `WriteReport`.

## Runs

| Run | Bounds | Shows |
|---|---|---|
| `runner` | iterations 0, 1, 2, 5; requests 0 (2 hardware threads), 1, 3 | ten properties over all interleavings and failures of up to three workers, the inductive invariant, the partition of the iterations and the refinement of `BenchmarkRun` among them |
| `collector_merge` | 2 workers, 0..2 iterations each, 2 setup records each, one stage, two messages | the merge is the whole run, setups count once per worker, averages are current and rates those of the outcomes |
| `pdp_audit` | 3 iterations or none on two workers; files of 0 and 3 blocks, 0, 2, 4 corrupted, challenges of 1, 2, 4; every choice of messages left behind; static, dynamic and unknown strategies; blocks with and without content | files are damaged as configured, certainty is observed, the report counts what happened |
| `identity` | two iterations; users, sample counts and shares in `MCIdentityVerify` | labels are true, each sample has one outcome, a sound algorithm is reported accurate, traffic fits the samples |
| `sample_size` | every file of up to 9 blocks, 10 targets from below 0 to above 1 in `MCSampleSize` | the rate is the share of detecting challenges, the size suffices and is the smallest among the intact blocks |
| `sweep_axis` | every combination of options over the values in `MCSweepAxis`, 16 values of `size_t` | generated points are those of the progression, every accepted axis has one, derived configurations can be audited |
| `maintenance` | iterations 0, 1, 3, 4; requests 1, 2, 3; initial blocks 0, 1, 3; all operations; valid and invalid command lines | the scenario's properties under rejection, failure and reload, and an exit code that tells them apart |
| `sweep_app` | the 592 command lines of `MCSweepApp`; two workers; names of 10, 25 and 40 columns; 7 bits of `size_t` | exit code 0 delivers the whole sweep, a failed sweep shows nothing, reports can be read, configurations cover the axes, `main` ends |
| `setup_record`, `smallest_size`, `geometric_end`, `long_name` | as above | expected violations, see Findings |

Why the bounds are enough. The runner treats pooled workers alike, so three workers give
worker 0, a lowest pooled slot and another to race it; five iterations over three workers
leave slots of two lengths. Fewer iterations than threads, exactly one and none are
included. In the maintenance run three iterations on two workers give slots of lengths two
and one, so a capacity of one block is enough for the short slot and not for the long one.
One stage and two messages suffice for the collector: the code treats the stages alike, and
the messages alike except for `tags`, which some helpers leave out. In the PDP run a file of
three blocks has every relation of corrupted, challenged and intact blocks: certainty by
count, chance, nothing to find, more asked for than there is. Two identity iterations show
what one leaves to the next. Nine blocks let the search take four turns and meet the region of
certainty from both sides. Four bits hold every order of start, step, end and wrap-around.
A command line varies what its strategy reads: for the direct strategy both axes absent,
refused, half given, given with one point, a repeated point or two points, each with and
without a single value; for the strategies over file sizes empty files first and last, no
iterations, shares below and above one; for the identity strategy points with too few users.
A sweep has at most four configurations, so a run fails first, in the middle and last. A name
of 10 columns fits every banner, one of 25 some, one of 40 none, and in 7 bits a wrapped
padding is longer than any that fits.

Liveness and fairness. `Fairness` is weak fairness of the main thread and of each worker:
the operating system schedules every thread, and a scenario's call comes back. Nothing is
assumed about which of return or throw it is, and reloading the library is never forced.
Under it a run ends (`Terminates`), and `ImplementsRun` includes the fairness of the abstract
run. The maintenance and the scenario modules check safety only: a scenario adds no waiting of
its own. `SweepApp` assumes weak fairness of its next step as a whole: the process runs on,
and each step of its runs uses up a worker, so that a run ends, as `Terminates` says of the
detailed one; it assumes nothing about which step is taken. `MainEnds` holds but for the one
loop that does not end in time, the padding of the banner, which it names. The
search is one loop: weak fairness says that it runs, and `SearchEnds` that it ends. Deadlock
is checked except where a model has a last step by design: a
collector that was reset, a search that has returned, an axis that was expanded, a worker's
life that is over.

## Findings

- *Setup metrics are sums* (`setup_record`). `benchmark_runner.h` says twice that the
  reported setup metrics are worker 0's own (lines 133 and 249). `mergeFrom` adds the setup
  metrics of every worker (`metrics_collector.h:336-352`), as its own documentation says,
  so a run with two workers reports the sum of two setups, with a call count of two.
- *The challenge size is not always the smallest* (`smallest_size`).
  `benchmark_computation_strategy.cpp:111` promises the minimum sample size. When all intact
  blocks together do not reach the target (`:119-121`) the code returns the whole file,
  although one block more than are intact is certain to detect: with 3 blocks, 2 corrupted,
  and a target of 5/6 it returns 3 where 2 suffice.
- *A long algorithm name hangs the report* (`long_name`). `pdpBanner` computes its padding as
  a difference of `size_t` numbers (`benchmark_report.cpp:101`; `:495` for the identity
  report). A name of more than 30, 26, 19 or 19 columns, by strategy, wraps it: the loop
  appends close to 2^64 spaces, after the whole sweep has been run, and neither its console
  text nor its JSON file appears. `benchmark_report.h:50-51` promises a formatted string.
- *A geometric axis can stop short* (`geometric_end`). The loop breaks at the first point
  that rounds to the one before (`benchmark_config.h:86`), so a small start with a ratio
  below 1.5 gives a single point, whatever the end.

Seen on the way, and stated in properties as the condition they hold under: `v += step`
(`benchmark_config.h:78`) wraps near the top of `size_t`, or with the step `--n-step -1` is
cast to, and a linear axis goes on below its start (`NoWrap`); a JSON file the disk cut short
leaves exit code 0 (`pdp_audit_benchmark_main.cpp:294`, the state `"cut"` in
`ExitZeroDelivers`); the factory builds the other executable's computation, which then dies
in its first run (`NothingFromFailedSweep`).

## Proofs

Every property of a passing run that is an invariant is also a theorem for all values of the
constants. The assumptions are those of the modules, and TLC evaluates them: a run has at
least one worker (`MergeAssumption`); the hardware concurrency is a natural number, zero
included (`HardwareAssumption`); iteration counts and requests are natural numbers and
`MaxWorkers` bounds what a request resolves to (`RunnerAssumption`); block counts, sizes and
numbers of samples are natural numbers (`MaintenanceAssumption`, `PdpAssumption`,
`SampleSizeAssumption`); shares of samples are quarters that make up one at most
(`IdentityAssumption`); an option's value is a `size_t` and `maxPoints` is not zero
(`SweepAssumption`); command lines hold what the option loops can have read, an accepted axis
has points, which is `AcceptedAxisHasPoints`, and a name is far shorter than the range of a
`size_t` (`SweepAppAssumption`).

*Plans* (`BenchmarkRunnerProofs`). Everything rests on the division identity `iterations = effective
* base + remainder` with `remainder < effective`: `BalancedWellFormed` and
`SingleWorkerWellFormed` establish it, `SlotsPartition` and `LargestIsTight` follow from it
through lemmas on contiguous slots; `IterationsPartitioned` (`BenchmarkRunnerProofs`) carries
it to the plan of every reachable state. Monotonicity of the product is proved first, so that no
other step needs nonlinear arithmetic.

*The runner* (`BenchmarkRunnerProofs`). `CompleteResult` alone is not inductive: that the
merged collector holds every iteration depends on what each worker did long before. `IInv`
adds, for each worker, that its collector holds exactly the iterations its loop variable
says were run (`WorkerInv`); for each place of the main thread, who is started, who is done
and whose failure has been looked for, and in the merge loop that the merged collector holds
the first `SlotBegin(plan, cursor)` iterations (`MainInv`); that the plan is one of the
configuration (`PlanInv`); and what an exception tells (`ThrownInv`). A worker's step is
handled once for all by `OwnStep`: it changes its own worker only, and what the main thread
knows about workers survives it, because a worker never goes back to idle or leaves done. A
merge step uses that the next slot begins where this one ends, the last one that slots end
at the last iteration. From `RunnerInvariant` follow `TypeCorrect`, `ResultComplete`,
`JoinBeforeRead`, `FirstFailure`, `RejectionBeforeWork` and `EveryLifecycleClosed`; with the
same invariant each step maps to a step of `BenchmarkRun` or to a stutter,
`RunnerImplementsRun`.

*The collector* (`CollectorMergeProofs`). A run's history is recorded in whatever order the
workers take turns, the merge adds in slot order, and neither order determines the other.
`MergeInv` therefore speaks of sums over sets of workers: the collector of the whole run
holds the sum over all of them (`WholeInv`), the merged one the sum over those before the
cursor (`MergedInv`). A recorder raises one worker's entry of a sum (`CombinedGrows`), a merge
adds one worker to the set (`CombinedInsert`); at the end the two sets are the same. A
metric is determined by its total and count, so that this also says that no average is
stale, and that putting the setup's `tags` back after an iteration, as `recordMessageSizes`
does, changes nothing (`AddNothing`). `SetupInv` and `LatestInv` say what a worker's
overwritten values stand for. Sums are the library's `SumFunctionOnSet`, a fold that
chooses its next element; that it adds the entries in whatever order is proved first, by
induction over the finite sets (`SumFunctionIsSum`, `SumRemove`). There may be any stages and
messages, any number of iterations and of workers but zero; the durations and sizes handed
over are the model's, told apart by worker and by record.

*The maintenance benchmark* (`MaintenanceProofs`). A scenario's operations are conjoined with
the runner's actions, so `MaintenanceRunsRunner` proves that a run of the composition is a run
of the runner, and `AppRunsMaintenance` that the executable around it adds nothing to that:
every theorem about the runner holds of both. `MInv` is then inductive beside `IInv`. It ties
each store to the calls that succeeded, the one not yet recorded included (`StoreInv`), each
worker's counters to the numbers the runner keeps of it (`TallyInv`), and the merged collector
to the slots before the cursor (`MergedInv`). `LegalIndices` is where the split formula
meets the scenario: a Delete finds a block because validation compared the initial blocks
with the largest slot (`CapacityInv`), which by `LargestIsTight` bounds every slot. That no
slot of a plan with iterations is empty (`BusyInv`) is what makes every worker's last block
count a recorded one, which `FinalBlocksIdentity` needs. `ExitCodeIsTrue` follows from
`AppInv`, the reasons main can have ended for.

*The audit benchmark* (`PdpAuditProofs`), in the same way: `AuditRunsRunner`, then `AInv`
beside `IInv`. `FileInv` says what the file is that a challenge is answered from. Certainty
is a pigeonhole argument (`NoChallengeMisses`): a challenge with more blocks than are intact
meets a damaged one. `AuditsAreAccounted` compares the report with a history that counts the
struck challenges and the messages of all workers in the order they came about, while the
report adds up workers in slot order. Neither order determines the other, so `TotalsInv` has
for detections and for every kind of message the sums over the first workers as a function
of their number: a step of one worker raises that function from this worker on
(`TotalsRaised`), and the merge loop walks along it.

*A worker of the identity benchmark* (`IdentityVerifyProofs`). Labels are true by the keys and
messages of the signatures (`SampleLabelled`): two users are enough to make an
impersonation differ from what it pretends, and without a second user none is made, which
the quota of `QuotaInv` carries from the plan to the sample. `OutcomeInv` counts the outcomes
of the samples done so far, by label; the whole of them is moved to the collector by four
loops of `recordIdentityOutcome`, whose effect `RepeatedCounts` proves for any number of
turns. With a sound algorithm the two wrong outcomes stay at zero (`SoundInv`), since its
answers and the labels are both the truth. That at most three samples are lost to rounding
(`PlannedQuota`) holds because four shares that make a whole are each cut by less than one.

*The search for the challenge size* (`SampleSizeProofs`). The
invariant `SearchInv` brackets the answer: the upper end reaches the target and the size
below the lower end does not, so that where the ends meet the answer is both sufficient and
locally smallest. `Reaches` is never opened in the loop: these results hold for any rate.
`SizeReachesTarget` adds only that the rate is certain once fewer blocks are intact than are
challenged. That nothing smaller suffices needs the rate to be monotone, `RateIsMonotone`: one
more block multiplies the probability of a miss by a factor of at most one. The product is a
function defined by recursion over the challenge, so this is proved by induction over its
factors. `SizeIsSmallest` then holds for every file and target. `SearchNarrows` is what
termination rests on. `RateIsCounted` is why the product is a probability at all: it
compares it with the number of challenges that miss every corrupted block. Pascal's rule
(`WaysOfOneMore`) is proved on the subsets themselves, `WaysStep` derives from it what a
challenge of one block more multiplies their number by, and `DrawsInProportion` follows the
product factor by factor, multiplied out so that no factorial is divided by. More
blocks than are intact can be challenged in no way that misses (`NoWayBeyond`), which is the
code's early return.

*A sweep's axis* (`SweepAxisProofs`). `AxisInv` is the invariant of the two loops of
`resolveSeq`. In the linear one the loop variable is the term that follows the points, as
long as no addition has wrapped; in the geometric one the next point, rounded as `llround`
rounds, is above the last, because a point that is not ends the loop. The progression is
complete, by division, up to its end or to `maxPoints` (`LinearAxisIsProgression`).
`DerivedConfigsAuditable` takes any share of any point through the cuts of `FixedRatioConfig`.

*The sweep executables* (`SweepAppProofs`). `SweepInv` ties the results to the configurations
before them, the current run to the place of `main`, and what has been shown to a sweep that
is complete. That every strategy expands into configurations of its own family
(`ExpandOfFamily`, for axes of any length) makes the cast in the reports safe, and the other
executable's computation fail in its first run. `SweepCoversAxes` rests on `ExpandedInv`: a sweep that has
configurations has those of its command line. How often a point occurs among them is a
cardinality. For nested loops the positions of a pair are the pairs of its positions
(`PairsCounted`), by the bijection of a pair of indices with the place of its configuration,
which is division with a remainder (`DivisionUnique`); the strategies over one axis map
position to position, or drop the points with too few users and no other
(`PointsWithUsersKeep`).

Induction over data. The library's induction theorems take an operator as a parameter, which
no installed prover can instantiate. Where a definition is a recursive function, the lemma
`SetInduction` is used instead: it says that a *set* that holds 0 and with each number the
next holds all, and is proved from the well-foundedness of `<` on the natural numbers. What
is to be shown of every `n` becomes membership in such a set, and that the recursive
function exists is shown the same way (`TimesExists`, `ProductExists`, `KeptExists`).
`Expansion!PointsWithUsers` is a recursive function, as the loop it models, for this reason.

Model-checked only: liveness, that is `Terminates`, `SearchEnds`, `MainEnds` and the fairness
part of `ImplementsRun`, which is beyond the prover.

## Not modelled

Time and wall-clock measurement, logging and floating-point rounding of rates (except for
comparisons with a target). The text of options (`atol`, `atof`, quoting) and of reports
(wording, columns, digits, the maintenance report, which is formatting alone), help texts and
the listing of algorithms: none of them changes a state. Negative sample ratios of the
identity executable, whose cast to a count has no defined value. The audit engine, the strategies,
the identity algorithms, the StateStore and the hot loader belong to other libraries, and
are modelled by what their use here requires. What the hot loader leaves behind when it is
dropped, or destroyed while it watches, is not known from this code: `SweepApp` assumes that
it changes nothing afterwards, and `MaintenanceApp` says only which exit code follows.

## Plan

1. Done: `RunPlan`, `BenchmarkRunner` with its abstract specification, `MetricsCollector`
   and `CollectorMerge`, the three scenarios, `SampleSize`, `SweepAxis`, `Expansion`,
   `BenchmarkReports`, the three executables; the theorems above.
2. Left: `IdentityVerify` under the runner's split, for what identical seeds in parallel
   workers mean for the samples.
