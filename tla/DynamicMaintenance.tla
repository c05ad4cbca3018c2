------------------------- MODULE DynamicMaintenance --------------------------
(***************************************************************************)
(* DynamicMaintenanceScenario (dynamic_maintenance_scenario.cpp) run by    *)
(* BenchmarkRunner: every worker has a StateStore of its own, and each     *)
(* iteration makes one Update, Insert or Delete call on it.                *)
(*                                                                         *)
(* The module composes the two: each scenario call is one action joined to *)
(* the runner's action that makes the call.  Collectors are those of       *)
(* MetricsCollector.  The strategy, the engine and the StateStore belong   *)
(* to a library: a maintenance call on a legal index succeeds or is        *)
(* rejected, one on an illegal index is rejected, and a rejected call      *)
(* changes nothing.  The strategy library may be reloaded during the run.  *)
(***************************************************************************)
EXTENDS BenchmarkRunner

CONSTANTS
  Operations,          \* operations of the configurations: "update", "insert", "delete"
  InitialBlockCounts   \* values of config.initialBlocks

ASSUME MaintenanceAssumption ==
  /\ Operations \subseteq {"update", "insert", "delete"}
  /\ InitialBlockCounts \subseteq Nat

Collector == INSTANCE MetricsCollector WITH
  Stages   <- {"initAlgorithm", "generateKeys", "maintain"},
  Messages <- {"tags"}

VARIABLES
  operation,       \* config.operation
  initialBlocks,   \* config.initialBlocks
  strategy,        \* what the name resolves to: "dynamic", or "other" (static, or nothing)
  store,           \* block count of each worker's StateStore, or NoStore
  localIteration,  \* localIteration_
  lastSucceeded,   \* lastSucceeded_
  tally,           \* each worker's MetricsCollector
  mergedTally,     \* the merged one
  report           \* the DynamicMaintenanceResult, once computed

configVars   == <<operation, initialBlocks>>
scenarioVars == <<store, localIteration, lastSucceeded, tally>>
reportVars   == <<mergedTally, report>>
allVars      == <<vars, configVars, strategy, scenarioVars, reportVars>>

NoStore == -1

NoReport == Collector!FillMaintenance(Collector!Fresh, 0)

InitMaintenance ==
  /\ Init
  /\ operation \in Operations
  /\ initialBlocks \in InitialBlockCounts
  /\ strategy \in {"dynamic", "other"}
  /\ store          = [ s \in Workers |-> NoStore ]
  /\ localIteration = [ s \in Workers |-> 0 ]
  /\ lastSucceeded  = [ s \in Workers |-> FALSE ]
  /\ tally          = [ s \in Workers |-> Collector!Fresh ]
  /\ mergedTally    = Collector!Fresh
  /\ report         = NoReport

------------------------------------------------------------------------------
(* The scenario's part in planning. *)

SupportsParallelIterations == strategy = "dynamic"

\* Mutated form of CapacityCovered: the share of a slot without the remainder.
CapacityCoveredByBase == operation = "delete" => initialBlocks >= plan.base

\* validateRun: a Delete run consumes one block of its store per iteration.
CapacityCovered == operation = "delete" => initialBlocks >= LargestSlotCount(plan)

MaintenancePlan ==
  /\ MakePlan
  /\ LET balanced == Balanced(config.iterations, config.threads)
     IN  plan' = IF balanced.effective > 1 /\ ~ SupportsParallelIterations
                 THEN AsSingleWorker(balanced) ELSE balanced
  /\ UNCHANGED <<configVars, strategy, scenarioVars, reportVars>>

MaintenanceValidate ==
  /\ (CapacityCovered /\ ValidateRun) \/ (~ CapacityCovered /\ MainThrows("validate"))
  /\ UNCHANGED <<configVars, strategy, scenarioVars, reportVars>>

------------------------------------------------------------------------------
(* The scenario's part in a worker's lifecycle. *)

\* A stage with one timed call; how long it took is left out.
OneCall(stages) ==
  [ st \in {"initAlgorithm", "generateKeys", "maintain"} |->
      IF st \in stages THEN Collector!Measured(1, 1) ELSE Collector!NoMetric ]

SetupStore(s) ==
  /\ Setup(s)
  /\ initialBlocks > 0 /\ strategy = "dynamic"
  /\ store' = [ store EXCEPT ![s] = initialBlocks ]
  /\ localIteration' = [ localIteration EXCEPT ![s] = 0 ]
  /\ lastSucceeded' = [ lastSucceeded EXCEPT ![s] = FALSE ]
  /\ tally' = [ tally EXCEPT ![s] =
       Collector!RecordSetupMessageSizes(
         Collector!RecordSetupTimings(@, OneCall({"initAlgorithm", "generateKeys"})),
         Collector!NoSizes) ]
  /\ UNCHANGED <<configVars, strategy, reportVars>>

\* Setup throws without blocks, without a dynamic strategy of that name, or in the
\* engine; an iteration may throw where it reads the block count, outside its try block.
MaintenanceThrows(s) ==
  /\ CallThrows(s, "setup") \/ (operation # "update" /\ CallThrows(s, "iteration"))
  /\ UNCHANGED <<configVars, strategy, scenarioVars, reportVars>>

\* The 1-based index of the block the next call is about.
BlockIndex(s) ==
  CASE operation = "update" -> (localIteration[s] % initialBlocks) + 1
    [] operation = "insert" -> store[s] + 1
    [] operation = "delete" -> store[s]

\* What the StateStore accepts: an existing block, or one past the last to insert.
LegalIndex(s) ==
  BlockIndex(s) \in 1 .. (IF operation = "insert" THEN store[s] + 1 ELSE store[s])

BlocksAfter(s) == CASE operation = "update" -> store[s]
                    [] operation = "insert" -> store[s] + 1
                    [] operation = "delete" -> store[s] - 1

\* Mutated form of Attempted: only calls that return are timed.
AttemptedIfReturned(s, succeeded) ==
  tally' = [ tally EXCEPT ![s] =
    Collector!RecordTimings(@, OneCall(IF succeeded THEN {"maintain"} ELSE {})) ]

\* measureTiming counts the call whether it returns or throws.
Attempted(s, succeeded) ==
  tally' = [ tally EXCEPT ![s] = Collector!RecordTimings(@, OneCall({"maintain"})) ]

(***************************************************************************)
(* One maintenance call.  Its exception is caught and remembered as a      *)
(* failure of the operation, not of the worker.                            *)
(***************************************************************************)
Maintain(s) ==
  /\ RunIteration(s)
  /\ \E succeeded \in BOOLEAN :
       /\ succeeded => LegalIndex(s)
       /\ store' = [ store EXCEPT ![s] = IF succeeded THEN BlocksAfter(s) ELSE @ ]
       /\ lastSucceeded' = [ lastSucceeded EXCEPT ![s] = succeeded ]
       /\ Attempted(s, succeeded)
  /\ localIteration' = [ localIteration EXCEPT ![s] = @ + 1 ]
  /\ UNCHANGED <<configVars, strategy, reportVars>>

\* Mutated form of RecordMaintenance: only a successful call updates the block count.
RecordMaintenanceOnSuccess(s) ==
  /\ RecordIteration(s)
  /\ tally' = [ tally EXCEPT ![s] =
       IF lastSucceeded[s]
       THEN Collector!RecordWorkerFinalBlockCount(
              Collector!RecordMaintenanceOutcome(@, TRUE), store[s])
       ELSE Collector!RecordMaintenanceOutcome(@, FALSE) ]
  /\ UNCHANGED <<configVars, strategy, store, localIteration, lastSucceeded, reportVars>>

RecordMaintenance(s) ==
  /\ RecordIteration(s)
  /\ tally' = [ tally EXCEPT ![s] =
       Collector!RecordWorkerFinalBlockCount(
         Collector!RecordMaintenanceOutcome(@, lastSucceeded[s]), store[s]) ]
  /\ UNCHANGED <<configVars, strategy, store, localIteration, lastSucceeded, reportVars>>

\* The outcome is recorded before the block count is read.
RecordMaintenanceThrows(s) ==
  /\ CallThrows(s, "record")
  /\ tally' = [ tally EXCEPT ![s] = Collector!RecordMaintenanceOutcome(@, lastSucceeded[s]) ]
  /\ UNCHANGED <<configVars, strategy, store, localIteration, lastSucceeded, reportVars>>

\* teardown drops the worker-local state.
DropStore(s) ==
  /\ Teardown(s) \/ Cleanup(s)
  /\ store' = [ store EXCEPT ![s] = NoStore ]
  /\ localIteration' = [ localIteration EXCEPT ![s] = 0 ]
  /\ lastSucceeded' = [ lastSucceeded EXCEPT ![s] = FALSE ]
  /\ UNCHANGED <<configVars, strategy, tally, reportVars>>

\* Worker steps that do not reach the scenario's state; prepare is a no-op.
WorkerElsewhere(s) ==
  /\ WorkerCreate(s) \/ WorkerCreateThrows(s) \/ Prepare(s)
  /\ UNCHANGED <<configVars, strategy, scenarioVars, reportVars>>

MaintenanceWorker(s) ==
  \/ SetupStore(s) \/ Maintain(s) \/ MaintenanceThrows(s)
  \/ RecordMaintenance(s) \/ RecordMaintenanceThrows(s)
  \/ DropStore(s)
  \/ WorkerElsewhere(s)

------------------------------------------------------------------------------
(* The scenario's part in merging and reporting. *)

MaintenanceResult ==
  /\ \/ StartMerge /\ mergedTally' = tally[0] /\ UNCHANGED report
     \/ MergeSlot /\ mergedTally' = Collector!MergeFrom(mergedTally, tally[cursor])
                  /\ UNCHANGED report
     \/ ComputeResult /\ report' = Collector!FillMaintenance(mergedTally, config.iterations)
                      /\ UNCHANGED mergedTally
  /\ UNCHANGED <<configVars, strategy, scenarioVars>>

MainElsewhere ==
  /\ \/ CreateScenario \/ MainThrows("create") \/ MainThrows("probe")
     \/ SpawnWorker \/ SpawnThrows \/ AbortJoin \/ AbortRethrow
     \/ StartWorker0 \/ FinishWorker0 \/ JoinWorker
     \/ StartScan \/ ScanSlot \/ RethrowFailure
  /\ UNCHANGED <<configVars, strategy, scenarioVars, reportVars>>

MaintenanceMain ==
  \/ MaintenancePlan \/ MaintenanceValidate \/ MaintenanceResult \/ MainElsewhere

------------------------------------------------------------------------------
\* The hot loader watches the strategy directory while the benchmark runs.
StrategyReloaded ==
  /\ ~ Ended
  /\ strategy' \in {"dynamic", "other"} \ {strategy}
  /\ UNCHANGED <<vars, configVars, scenarioVars, reportVars>>

MaintenanceDone == Ended /\ UNCHANGED allVars

NextMaintenance ==
  \/ MaintenanceMain
  \/ \E s \in Workers : MaintenanceWorker(s)
  \/ StrategyReloaded
  \/ MaintenanceDone

SpecMaintenance == InitMaintenance /\ [][NextMaintenance]_allVars

------------------------------------------------------------------------------
(* Properties. *)

(***************************************************************************)
(* Every index a worker is about to use is legal in its own store: Update  *)
(* stays within the blocks there are, and a Delete never finds its store   *)
(* empty, whatever calls were rejected before.                             *)
(* (dynamic_maintenance_scenario.h: "block indices are always legal in the *)
(* store the operation touches".)                                          *)
(***************************************************************************)
IndicesLegal ==
  \A s \in Workers : wpc[s] = "loop" /\ next[s] < SlotEnd(s) => LegalIndex(s)

(***************************************************************************)
(* Successes and failures add up to the configured iterations, each with   *)
(* one timed maintain call, rejected calls included (DynamicMaintenance-   *)
(* Result: "successes + failures equal the number of maintenance calls     *)
(* actually attempted").                                                   *)
(***************************************************************************)
CallsAccounted ==
  mpc = "returned" =>
    /\ report.succeeded + report.failed = config.iterations
    /\ report.common.timings["maintain"].count = config.iterations

FinalBlocksExpected ==
  initialBlocks * plan.effective
    + (CASE operation = "update" -> 0
         [] operation = "insert" -> report.succeeded
         [] operation = "delete" -> - report.succeeded)

(***************************************************************************)
(* The state-transition check of the result: summed over the workers'      *)
(* stores, the blocks at the end are those at the start plus successful    *)
(* inserts, minus successful deletes.  A run of zero iterations, which the *)
(* executable rejects, records no count at all.                            *)
(***************************************************************************)
FinalBlockIdentity ==
  mpc = "returned" /\ config.iterations > 0 => report.finalBlocks = FinalBlocksExpected

(***************************************************************************)
(* A result stands for workers that all found a dynamic strategy, however  *)
(* often the library was reloaded between the capability probe and the     *)
(* setups: each slot's setup was measured, once.                           *)
(***************************************************************************)
SetupMeasuredPerWorker ==
  mpc = "returned" =>
    \A st \in {"initAlgorithm", "generateKeys"} :
      report.common.setupTimings[st].count = plan.effective

==============================================================================
