---------------------------- MODULE MaintenanceInv ----------------------------
(***************************************************************************)
(* The inductive invariant of DynamicMaintenance and of the executable     *)
(* around it: how a worker's store and its collector follow from the calls *)
(* that succeeded, what the merged collector holds of the slots merged so  *)
(* far, and what main knows at each point.  It is inductive beside the     *)
(* runner's own invariant.                                                 *)
(***************************************************************************)
EXTENDS MaintenanceApp, BenchmarkRunnerInv

SetupStages == {"initAlgorithm", "generateKeys"}

MetricType == [ total : Nat, count : Nat, average : Nat \X Nat ]

TallyType ==
  [ counts               : [ Collector!Counters -> Nat ],
    finalBlocks          : Int,
    setupTimings         : [ SetupStages \cup {"maintain"} -> MetricType ],
    setupSizes           : [ {"tags"} -> MetricType ],
    setupTimingsRecorded : BOOLEAN,
    setupSizesRecorded   : BOOLEAN,
    timings              : [ SetupStages \cup {"maintain"} -> MetricType ],
    sizes                : [ {"tags"} -> MetricType ],
    memoryPeak           : Nat ]

MaintenanceTypes ==
  /\ operation \in Operations
  /\ initialBlocks \in InitialBlockCounts
  /\ store \in [ Workers -> Int ]
  /\ localIteration \in [ Workers -> Nat ]
  /\ lastSucceeded \in [ Workers -> BOOLEAN ]
  /\ tally \in [ Workers -> TallyType ]
  /\ mergedTally \in TallyType

------------------------------------------------------------------------------
(* A worker. *)

\* What a number of successful calls does to the blocks there were.
Net(calls) == CASE operation = "update" -> 0
                [] operation = "insert" -> calls
                [] operation = "delete" -> - calls

Calls(c) == c.counts["succeeded"] + c.counts["failed"]

\* A worker that holds a store.
WithStore(s) == wpc[s] \in {"prepare", "loop", "record"}

\* A worker that set its store up and has not failed.
Healthy(s) == WithStore(s) \/ (wpc[s] = "done" /\ failures[s] = "none")

\* A successful call that is not recorded yet.
Pending(s) == IF wpc[s] = "record" /\ lastSucceeded[s] THEN 1 ELSE 0

\* The store differs from the initial one by the calls that succeeded.
StoreInv(s) ==
  WithStore(s) =>
    /\ initialBlocks > 0
    /\ store[s] = initialBlocks + Net(tally[s].counts["succeeded"] + Pending(s))

\* The collector holds the calls the runner counted, and the last block count.
TallyInv(s) ==
  /\ wpc[s] \in {"idle", "create", "setup"} => tally[s] = Collector!Fresh
  /\ Healthy(s) =>
       /\ Calls(tally[s]) = collectors[s].outcomes
       /\ tally[s].timings["maintain"].count = collectors[s].timings
       /\ \A st \in SetupStages : tally[s].setupTimings[st].count = 1
       /\ collectors[s].outcomes > 0 =>
            tally[s].finalBlocks = initialBlocks + Net(tally[s].counts["succeeded"])

------------------------------------------------------------------------------
(* The main thread. *)

\* No store is smaller than the calls its slot makes, once the run was validated.
CapacityInv == mpc \notin {"create", "plan", "validate", "thrown"} => CapacityCovered

\* No slot of a plan of iterations is empty.
BusyInv == mpc \notin {"create", "plan", "thrown"} => plan.effective <= Larger(plan.iterations, 1)

\* The merged collector holds the slots before the cursor, and the report is of it.
MergedInv ==
  /\ mpc \in {"merge", "returned"} =>
       /\ cursor \in 1 .. plan.effective
       /\ Calls(mergedTally) = SlotBegin(plan, cursor)
       /\ mergedTally.timings["maintain"].count = SlotBegin(plan, cursor)
       /\ \A st \in SetupStages : mergedTally.setupTimings[st].count = cursor
       /\ config.iterations > 0 =>
            mergedTally.finalBlocks
              = initialBlocks * cursor + Net(mergedTally.counts["succeeded"])
  /\ mpc = "returned" =>
       /\ cursor = plan.effective
       /\ report = Collector!FillMaintenance(mergedTally, config.iterations)

MInv ==
  /\ MaintenanceTypes
  /\ \A s \in Workers : StoreInv(s) /\ TallyInv(s)
  /\ CapacityInv
  /\ BusyInv
  /\ MergedInv

------------------------------------------------------------------------------
(* The executable. *)

(***************************************************************************)
(* Main is before the run, in it, or behind a result it printed; an exit   *)
(* code is set exactly when main has ended, for the reason it stands for.  *)
(***************************************************************************)
AppInv ==
  /\ apc \in {"options", "load", "check", "run", "json", "stop", "ended"}
  /\ code \in {"none", "0", "1", "2"}
  /\ apc = "ended" <=> code # "none"
  /\ apc \in {"options", "load", "check"} => mpc = "create"
  /\ apc \in {"json", "stop"} => mpc = "returned" /\ printed
  /\ apc = "stop" => json # "refused"
  /\ code = "0" => \/ argv = "help" /\ mpc = "create"
                   \/ /\ mpc = "returned" /\ printed /\ json # "refused" /\ ~ watching
                      /\ ~ (report.failed > 0)
  /\ code = "2" => mpc = "returned" /\ printed /\ ~ watching /\ report.failed > 0
  /\ code = "1" => mpc \in {"create", "thrown"} \/ (mpc = "returned" /\ json = "refused")
==============================================================================
