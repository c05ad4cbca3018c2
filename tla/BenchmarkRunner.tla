--------------------------- MODULE BenchmarkRunner ---------------------------
(***************************************************************************)
(* BenchmarkRunner::runSingle (benchmark_runner.h): one run of one         *)
(* configuration, from the call to its return or exception.                *)
(*                                                                         *)
(* The main thread creates worker 0's scenario, plans the run, validates   *)
(* it, starts one pooled thread per further slot, runs worker 0 itself,    *)
(* joins the pool, looks for a failure, merges the collectors and computes *)
(* the result.  Every worker runs setup, prepare, its slot's iterations    *)
(* and teardown on a scenario of its own.  A scenario is a client of the   *)
(* runner: each of its calls may return or throw.                          *)
(*                                                                         *)
(* One action is one call a thread makes between two points where another  *)
(* thread, or the caller, can tell the difference.  A collector is counted *)
(* by what it holds: setup records, iteration timings, iteration outcomes. *)
(***************************************************************************)
EXTENDS RunPlan

CONSTANTS
  IterationCounts,   \* values of config.iterations
  ThreadRequests,    \* values of config.threads (0 = hardware concurrency)
  MaxWorkers         \* bound on the slots of any plan of these configurations

ASSUME RunnerAssumption ==
  /\ IterationCounts \subseteq Nat
  /\ ThreadRequests \subseteq Nat
  /\ MaxWorkers \in Nat \ {0}
  /\ \A t \in ThreadRequests : ResolveThreadRequest(t) <= MaxWorkers

Workers == 0 .. MaxWorkers - 1

VARIABLES
  config,      \* the BenchmarkConfig of the run: iterations, threads
  plan,        \* the BenchmarkRunPlan
  mpc,         \* where the main thread is in runSingle
  cursor,      \* its loop index (spawn, join, scan and merge loops)
  pool,        \* pooled threads created so far: slots 1 .. pool
  thrown,      \* the exception the caller sees, or is going to see
  merged,      \* the merged collector
  result,      \* the BenchmarkResult
  wpc,         \* where each worker is in its lifecycle
  next,        \* each worker's loop variable i
  caught,      \* the step whose exception a worker is handling
  setups,      \* calls of scenario.setup per worker
  teardowns,   \* calls of scenario.teardown per worker
  collectors,  \* std::vector<MetricsCollector> workers
  failures     \* std::vector<std::exception_ptr> failures: the step that threw

mainVars   == <<plan, mpc, cursor, pool, thrown, merged, result>>
workerVars == <<wpc, next, caught, setups, teardowns, collectors, failures>>
vars       == <<config, mainVars, workerVars>>

------------------------------------------------------------------------------
(* Collectors, exceptions and results. *)

EmptyCollector == [ setups |-> 0, timings |-> 0, outcomes |-> 0 ]

\* recordSetupTimings and recordSetupMessageSizes: the first record wins.
RecordSetup(c) == [ c EXCEPT !.setups = Larger(c.setups, 1) ]

\* recordTimings and recordMessageSizes of one iteration.
RecordTimings(c) == [ c EXCEPT !.timings = c.timings + 1 ]

\* What the scenario's recordIteration adds: one outcome.
RecordOutcome(c) == [ c EXCEPT !.outcomes = c.outcomes + 1 ]

\* mergeFrom sums, the setup metrics included.
MergeFrom(c, other) == [ setups   |-> c.setups + other.setups,
                         timings  |-> c.timings + other.timings,
                         outcomes |-> c.outcomes + other.outcomes ]

LifecycleSteps == {"setup", "prepare", "iteration", "record", "teardown"}
Steps          == LifecycleSteps \cup {"create"}
MainSteps      == {"create", "probe", "validate", "compute"}

None == [ by |-> "nobody", slot |-> 0, step |-> "none" ]

NoResult == [ setups |-> 0, timings |-> 0, outcomes |-> 0, requested |-> 0, effective |-> 0 ]

\* The default-constructed plan: nothing planned yet.
DefaultPlan == [ iterations |-> 0, requested |-> 1, effective |-> 1, base |-> 0, remainder |-> 0 ]

\* One past the last iteration of a worker's slot.
SlotEnd(s) == SlotBegin(plan, s) + SlotCount(plan, s)

------------------------------------------------------------------------------
Init ==
  /\ config \in [ iterations : IterationCounts, threads : ThreadRequests ]
  /\ plan = DefaultPlan
  /\ mpc = "create" /\ cursor = 0 /\ pool = 0
  /\ thrown = None
  /\ merged = EmptyCollector
  /\ result = NoResult
  /\ wpc        = [ s \in Workers |-> "idle" ]
  /\ next       = [ s \in Workers |-> 0 ]
  /\ caught     = [ s \in Workers |-> "none" ]
  /\ setups     = [ s \in Workers |-> 0 ]
  /\ teardowns  = [ s \in Workers |-> 0 ]
  /\ collectors = [ s \in Workers |-> EmptyCollector ]
  /\ failures   = [ s \in Workers |-> "none" ]

------------------------------------------------------------------------------
(* The main thread, up to the point where the workers run. *)

\* Mutated form of MainCalls: the run is validated after the workers were joined.
MainCallsLate(step) ==
  \/ step = "create"   /\ mpc = "create"
  \/ step = "probe"    /\ mpc = "plan"
  \/ step = "validate" /\ mpc = "join" /\ cursor = plan.effective
  \/ step = "compute"  /\ mpc = "merge" /\ cursor = plan.effective

\* The main thread is about to call the factory, or worker 0's scenario.
MainCalls(step) ==
  \/ step = "create"   /\ mpc = "create"
  \/ step = "probe"    /\ mpc = "plan"
                       /\ Balanced(config.iterations, config.threads).effective > 1
  \/ step = "validate" /\ mpc = "validate"
  \/ step = "compute"  /\ mpc = "merge" /\ cursor = plan.effective

\* The call throws: its exception leaves runSingle at once.
MainThrows(step) ==
  /\ MainCalls(step)
  /\ mpc' = "thrown"
  /\ thrown' = [ by |-> "main", slot |-> 0, step |-> step ]
  /\ UNCHANGED <<config, plan, cursor, pool, merged, result, workerVars>>

CreateScenario ==
  /\ mpc = "create"
  /\ mpc' = "plan"
  /\ UNCHANGED <<config, plan, cursor, pool, thrown, merged, result, workerVars>>

\* The scenario is asked whether it can be partitioned only when it would be.
MakePlan ==
  /\ mpc = "plan"
  /\ LET balanced == Balanced(config.iterations, config.threads)
     IN  plan' \in IF balanced.effective > 1
                   THEN {balanced, AsSingleWorker(balanced)} ELSE {balanced}
  /\ mpc' = "validate"
  /\ UNCHANGED <<config, cursor, pool, thrown, merged, result, workerVars>>

ValidateRun ==
  /\ mpc = "validate"
  /\ mpc' = "spawn"
  /\ cursor' = 1
  /\ UNCHANGED <<config, plan, pool, thrown, merged, result, workerVars>>

SpawnWorker ==
  /\ mpc = "spawn" /\ cursor < plan.effective
  /\ wpc' = [ wpc EXCEPT ![cursor] = "create" ]
  /\ pool' = cursor
  /\ cursor' = cursor + 1
  /\ UNCHANGED <<config, plan, mpc, thrown, merged, result,
                 next, caught, setups, teardowns, collectors, failures>>

\* Mutated form of SpawnThrows: the exception leaves without joining the pool.
SpawnThrowsAtOnce ==
  /\ mpc = "spawn" /\ cursor < plan.effective
  /\ mpc' = "thrown"
  /\ thrown' = [ by |-> "main", slot |-> 0, step |-> "spawn" ]
  /\ UNCHANGED <<config, plan, cursor, pool, merged, result, workerVars>>

\* std::thread's constructor fails: join what runs already, then rethrow.
SpawnThrows ==
  /\ mpc = "spawn" /\ cursor < plan.effective
  /\ mpc' = "abort"
  /\ cursor' = 1
  /\ thrown' = [ by |-> "main", slot |-> 0, step |-> "spawn" ]
  /\ UNCHANGED <<config, plan, pool, merged, result, workerVars>>

AbortJoin ==
  /\ mpc = "abort" /\ cursor <= pool
  /\ wpc[cursor] = "done"
  /\ cursor' = cursor + 1
  /\ UNCHANGED <<config, plan, mpc, pool, thrown, merged, result, workerVars>>

AbortRethrow ==
  /\ mpc = "abort" /\ cursor > pool
  /\ mpc' = "thrown"
  /\ UNCHANGED <<config, plan, cursor, pool, thrown, merged, result, workerVars>>

\* Worker 0 runs on the main thread, which is busy with it until it is done.
StartWorker0 ==
  /\ mpc = "spawn" /\ cursor = plan.effective
  /\ mpc' = "worker0"
  /\ wpc' = [ wpc EXCEPT ![0] = "setup" ]
  /\ UNCHANGED <<config, plan, cursor, pool, thrown, merged, result,
                 next, caught, setups, teardowns, collectors, failures>>

FinishWorker0 ==
  /\ mpc = "worker0" /\ wpc[0] = "done"
  /\ mpc' = "join"
  /\ cursor' = 1
  /\ UNCHANGED <<config, plan, pool, thrown, merged, result, workerVars>>

------------------------------------------------------------------------------
(* A worker: runWorkerLifecycle, and the scenario creation before it. *)

MoveTo(s, step) == wpc' = [ wpc EXCEPT ![s] = step ]

WorkerCreate(s) ==
  /\ wpc[s] = "create"
  /\ MoveTo(s, "setup")
  /\ UNCHANGED <<config, mainVars, next, caught, setups, teardowns, collectors, failures>>

\* There is no scenario to tear down: the failure is stored and the thread ends.
WorkerCreateThrows(s) ==
  /\ wpc[s] = "create"
  /\ MoveTo(s, "done")
  /\ failures' = [ failures EXCEPT ![s] = "create" ]
  /\ UNCHANGED <<config, mainVars, next, caught, setups, teardowns, collectors>>

Setup(s) ==
  /\ wpc[s] = "setup"
  /\ MoveTo(s, "prepare")
  /\ setups' = [ setups EXCEPT ![s] = setups[s] + 1 ]
  /\ collectors' = [ collectors EXCEPT ![s] = RecordSetup(collectors[s]) ]
  /\ UNCHANGED <<config, mainVars, next, caught, teardowns, failures>>

\* Mutated form of Prepare: every worker's loop starts at the first iteration.
PrepareFromZero(s) ==
  /\ wpc[s] = "prepare"
  /\ MoveTo(s, "loop")
  /\ next' = [ next EXCEPT ![s] = 0 ]
  /\ UNCHANGED <<config, mainVars, caught, setups, teardowns, collectors, failures>>

Prepare(s) ==
  /\ wpc[s] = "prepare"
  /\ MoveTo(s, "loop")
  /\ next' = [ next EXCEPT ![s] = SlotBegin(plan, s) ]
  /\ UNCHANGED <<config, mainVars, caught, setups, teardowns, collectors, failures>>

RunIteration(s) ==
  /\ wpc[s] = "loop" /\ next[s] < SlotEnd(s)
  /\ MoveTo(s, "record")
  /\ collectors' = [ collectors EXCEPT ![s] = RecordTimings(collectors[s]) ]
  /\ UNCHANGED <<config, mainVars, next, caught, setups, teardowns, failures>>

RecordIteration(s) ==
  /\ wpc[s] = "record"
  /\ MoveTo(s, "loop")
  /\ collectors' = [ collectors EXCEPT ![s] = RecordOutcome(collectors[s]) ]
  /\ next' = [ next EXCEPT ![s] = next[s] + 1 ]
  /\ UNCHANGED <<config, mainVars, caught, setups, teardowns, failures>>

Teardown(s) ==
  /\ wpc[s] = "loop" /\ next[s] = SlotEnd(s)
  /\ MoveTo(s, "done")
  /\ teardowns' = [ teardowns EXCEPT ![s] = teardowns[s] + 1 ]
  /\ UNCHANGED <<config, mainVars, next, caught, setups, collectors, failures>>

\* The scenario call a worker is about to make in its try block.
Calling(s) ==
  CASE wpc[s] \in {"setup", "prepare", "record"} -> wpc[s]
    [] wpc[s] = "loop" -> IF next[s] < SlotEnd(s) THEN "iteration" ELSE "teardown"
    [] OTHER -> "none"

\* The call throws: the catch block is entered with its exception.
CallThrows(s, step) ==
  /\ Calling(s) = step
  /\ MoveTo(s, "cleanup")
  /\ caught' = [ caught EXCEPT ![s] = step ]
  /\ setups' = [ setups EXCEPT ![s] = IF step = "setup" THEN setups[s] + 1 ELSE setups[s] ]
  /\ teardowns' = [ teardowns EXCEPT
       ![s] = IF step = "teardown" THEN teardowns[s] + 1 ELSE teardowns[s] ]
  /\ UNCHANGED <<config, mainVars, next, collectors, failures>>

\* Mutated form of Cleanup: a teardown that throws is tried again.
CleanupRetries(s) ==
  /\ wpc[s] = "cleanup"
  /\ \E step \in {"cleanup", "done"} : MoveTo(s, step)
  /\ teardowns' = [ teardowns EXCEPT ![s] = teardowns[s] + 1 ]
  /\ failures' = [ failures EXCEPT ![s] = caught[s] ]
  /\ UNCHANGED <<config, mainVars, next, caught, setups, collectors>>

\* Mutated form of Cleanup: the scenario is left as the exception found it.
CleanupWithoutTeardown(s) ==
  /\ wpc[s] = "cleanup"
  /\ MoveTo(s, "done")
  /\ failures' = [ failures EXCEPT ![s] = caught[s] ]
  /\ UNCHANGED <<config, mainVars, next, caught, setups, teardowns, collectors>>

(***************************************************************************)
(* The catch block: a best-effort teardown, whose own exception is         *)
(* swallowed, and only then the failure is stored.  The teardown runs even *)
(* when it was the normal teardown that threw.                             *)
(***************************************************************************)
Cleanup(s) ==
  /\ wpc[s] = "cleanup"
  /\ MoveTo(s, "done")
  /\ teardowns' = [ teardowns EXCEPT ![s] = teardowns[s] + 1 ]
  /\ failures' = [ failures EXCEPT ![s] = caught[s] ]
  /\ UNCHANGED <<config, mainVars, next, caught, setups, collectors>>

Worker(s) ==
  \/ WorkerCreate(s) \/ WorkerCreateThrows(s)
  \/ Setup(s) \/ Prepare(s) \/ RunIteration(s) \/ RecordIteration(s) \/ Teardown(s)
  \/ \E step \in LifecycleSteps : CallThrows(s, step)
  \/ Cleanup(s)

------------------------------------------------------------------------------
(* The main thread, after worker 0 has finished. *)

\* Mutated form of JoinWorker: the pool is not waited for.
JoinWorkerAtOnce ==
  /\ mpc = "join" /\ cursor < plan.effective
  /\ cursor' = cursor + 1
  /\ UNCHANGED <<config, plan, mpc, pool, thrown, merged, result, workerVars>>

\* Mutated form of JoinWorker: the loop never gets past the last thread.
JoinWorkerForEver ==
  /\ mpc = "join" /\ cursor < plan.effective
  /\ wpc[cursor] = "done"
  /\ cursor' = Smaller(cursor + 1, plan.effective - 1)
  /\ UNCHANGED <<config, plan, mpc, pool, thrown, merged, result, workerVars>>

JoinWorker ==
  /\ mpc = "join" /\ cursor < plan.effective
  /\ wpc[cursor] = "done"
  /\ cursor' = cursor + 1
  /\ UNCHANGED <<config, plan, mpc, pool, thrown, merged, result, workerVars>>

\* Mutated form of StartScan: worker 0's slot is not looked at.
StartScanAtOne ==
  /\ mpc = "join" /\ cursor = plan.effective
  /\ mpc' = "scan"
  /\ cursor' = 1
  /\ UNCHANGED <<config, plan, pool, thrown, merged, result, workerVars>>

StartScan ==
  /\ mpc = "join" /\ cursor = plan.effective
  /\ mpc' = "scan"
  /\ cursor' = 0
  /\ UNCHANGED <<config, plan, pool, thrown, merged, result, workerVars>>

ScanSlot ==
  /\ mpc = "scan" /\ cursor < plan.effective
  /\ failures[cursor] = "none"
  /\ cursor' = cursor + 1
  /\ UNCHANGED <<config, plan, mpc, pool, thrown, merged, result, workerVars>>

\* Mutated form of RethrowFailure: any stored failure will do.
RethrowAnyFailure ==
  /\ mpc = "scan" /\ cursor < plan.effective
  /\ \E s \in Slots(plan) :
       /\ failures[s] # "none"
       /\ thrown' = [ by |-> "worker", slot |-> s, step |-> failures[s] ]
  /\ mpc' = "thrown"
  /\ UNCHANGED <<config, plan, cursor, pool, merged, result, workerVars>>

RethrowFailure ==
  /\ mpc = "scan" /\ cursor < plan.effective
  /\ failures[cursor] # "none"
  /\ mpc' = "thrown"
  /\ thrown' = [ by |-> "worker", slot |-> cursor, step |-> failures[cursor] ]
  /\ UNCHANGED <<config, plan, cursor, pool, merged, result, workerVars>>

\* Mutated form of StartMerge: slot 0 is merged into an empty collector's place.
StartMergeFromZero ==
  /\ mpc = "scan" /\ cursor = plan.effective
  /\ mpc' = "merge"
  /\ merged' = collectors[0]
  /\ cursor' = 0
  /\ UNCHANGED <<config, plan, pool, thrown, result, workerVars>>

StartMerge ==
  /\ mpc = "scan" /\ cursor = plan.effective
  /\ mpc' = "merge"
  /\ merged' = collectors[0]
  /\ cursor' = 1
  /\ UNCHANGED <<config, plan, pool, thrown, result, workerVars>>

MergeSlot ==
  /\ mpc = "merge" /\ cursor < plan.effective
  /\ merged' = MergeFrom(merged, collectors[cursor])
  /\ cursor' = cursor + 1
  /\ UNCHANGED <<config, plan, mpc, pool, thrown, result, workerVars>>

\* Worker 0's scenario, torn down already, fills the result.
ComputeResult ==
  /\ mpc = "merge" /\ cursor = plan.effective
  /\ mpc' = "returned"
  /\ result' = [ setups    |-> merged.setups,
                 timings   |-> merged.timings,
                 outcomes  |-> merged.outcomes,
                 requested |-> plan.requested,
                 effective |-> plan.effective ]
  /\ UNCHANGED <<config, plan, cursor, pool, thrown, merged, workerVars>>

Main ==
  \/ \E step \in MainSteps : MainThrows(step)
  \/ CreateScenario \/ MakePlan \/ ValidateRun
  \/ SpawnWorker \/ SpawnThrows \/ AbortJoin \/ AbortRethrow
  \/ StartWorker0 \/ FinishWorker0 \/ JoinWorker
  \/ StartScan \/ ScanSlot \/ RethrowFailure
  \/ StartMerge \/ MergeSlot \/ ComputeResult

Ended == mpc \in {"returned", "thrown"}

\* The run is over: the caller has its result or its exception.
Done == Ended /\ UNCHANGED vars

Next == Main \/ (\E s \in Workers : Worker(s)) \/ Done

(***************************************************************************)
(* The operating system schedules every thread, and a scenario's call      *)
(* comes back: each thread that can take a step eventually takes one.      *)
(***************************************************************************)
Fairness == WF_vars(Main) /\ \A s \in Workers : WF_vars(Worker(s))

SafeSpec == Init /\ [][Next]_vars
Spec == SafeSpec /\ Fairness

------------------------------------------------------------------------------
(* Properties. *)

CollectorType == [ setups : Nat, timings : Nat, outcomes : Nat ]
ResultType    == [ setups : Nat, timings : Nat, outcomes : Nat,
                   requested : Nat, effective : Nat ]
ExceptionType == [ by : {"nobody", "main", "worker"}, slot : Workers,
                   step : Steps \cup MainSteps \cup {"spawn", "none"} ]

\* The types of the variables, and the two teardown calls a lifecycle may make.
TypeOK ==
  /\ config \in [ iterations : IterationCounts, threads : ThreadRequests ]
  /\ WellFormed(plan)
  /\ plan.effective <= MaxWorkers
  /\ mpc \in { "create", "plan", "validate", "spawn", "abort", "worker0", "join",
               "scan", "merge", "returned", "thrown" }
  /\ cursor \in 0 .. MaxWorkers + 1
  /\ pool \in Workers
  /\ thrown \in ExceptionType
  /\ merged \in CollectorType
  /\ result \in ResultType
  /\ wpc \in [ Workers -> { "idle", "create", "setup", "prepare", "loop", "record",
                            "cleanup", "done" } ]
  /\ next \in [ Workers -> Nat ]
  /\ caught \in [ Workers -> Steps \cup {"none"} ]
  /\ setups \in [ Workers -> 0 .. 1 ]
  /\ teardowns \in [ Workers -> 0 .. 2 ]
  /\ collectors \in [ Workers -> CollectorType ]
  /\ failures \in [ Workers -> Steps \cup {"none"} ]

(***************************************************************************)
(* Each iteration is scheduled in exactly one slot, at every moment of the *)
(* run and whether or not the plan was downgraded (slotBegin, slotCount).  *)
(***************************************************************************)
PlanPartition == Partition(plan)

(***************************************************************************)
(* A result is never partial: it accounts for every configured iteration,  *)
(* with its timing and its outcome, and no worker's failure is behind it.  *)
(* (runSingle: "the config fails without a partial result".)               *)
(***************************************************************************)
CompleteResult ==
  mpc = "returned" =>
    /\ result.timings = config.iterations
    /\ result.outcomes = config.iterations
    /\ \A s \in Workers : failures[s] = "none"

(***************************************************************************)
(* The exception of a failed run is the failure of the lowest failing      *)
(* slot, whatever order the workers failed in.                             *)
(***************************************************************************)
FirstFailureRethrown ==
  mpc = "thrown" /\ thrown.by = "worker" =>
    /\ failures[thrown.slot] = thrown.step /\ thrown.step # "none"
    /\ \A s \in 0 .. thrown.slot - 1 : failures[s] = "none"

(***************************************************************************)
(* Once the main thread reads what the workers wrote, or leaves runSingle  *)
(* by any path, no worker is running: their collectors, failures and the   *)
(* stack frame they refer to are not shared with a live thread.            *)
(***************************************************************************)
JoinedBeforeRead ==
  mpc \in {"scan", "merge", "returned", "thrown"} =>
    \A s \in Workers : wpc[s] \in {"idle", "done"}

(***************************************************************************)
(* A rejected configuration does no work: when validateRun, the capability *)
(* probe or the creation of worker 0's scenario throws, no scenario was    *)
(* set up.                                                                 *)
(***************************************************************************)
RejectedBeforeWork ==
  mpc = "thrown" /\ thrown.by = "main" /\ thrown.step \in {"create", "probe", "validate"} =>
    \A s \in Workers : setups[s] = 0 /\ wpc[s] = "idle"

(***************************************************************************)
(* Every scenario whose setup was called had its teardown called by the    *)
(* time the run ends; behind a result each slot's scenario was set up and  *)
(* torn down exactly once.                                                 *)
(***************************************************************************)
LifecyclesClosed ==
  /\ Ended => \A s \in Workers : setups[s] <= teardowns[s]
  /\ mpc = "returned" => \A s \in Slots(plan) : setups[s] = 1 /\ teardowns[s] = 1

(***************************************************************************)
(* What the runner's documentation says of a returned result's setup       *)
(* metrics: they are worker 0's single setup.  (benchmark_runner.h:133,    *)
(* "Setup metrics are reported from worker 0 only".)                       *)
(***************************************************************************)
SetupFromWorker0Only ==
  mpc = "returned" => result.setups = collectors[0].setups

\* A run ends: it returns or throws, however its workers are scheduled.
Terminates == <>Ended

(***************************************************************************)
(* The run as its caller sees it: every step of runSingle is a step the    *)
(* abstract run may take, or none.                                         *)
(***************************************************************************)
Run == INSTANCE BenchmarkRun WITH
  iterations <- config.iterations,
  started    <- { s \in Workers : wpc[s] # "idle" },
  running    <- { s \in Workers : wpc[s] \notin {"idle", "done"} },
  failed     <- { s \in Workers : failures[s] # "none" },
  outcome    <- IF Ended THEN mpc ELSE "pending",
  reported   <- result.outcomes

ImplementsRun == Run!Spec
==============================================================================
