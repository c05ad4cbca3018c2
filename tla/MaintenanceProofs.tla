--------------------------- MODULE MaintenanceProofs ---------------------------
(***************************************************************************)
(* The maintenance benchmark for every set of configurations and every     *)
(* number of workers.  Its runs are runs of BenchmarkRunner, so the        *)
(* runner's theorems hold of them; MInv is inductive beside the runner's   *)
(* invariant, and AppInv beside both.                                      *)
(***************************************************************************)
EXTENDS MaintenanceInv, BenchmarkRunnerProofs

------------------------------------------------------------------------------
(* The collector's recorders. *)

\* Normalizing keeps the total and the count of a metric.
LEMMA AddMetric ==
  ASSUME NEW m \in MetricType, NEW n \in MetricType
  PROVE  /\ Collector!Add(m, n) \in MetricType
         /\ Collector!Add(m, n).count = m.count + n.count
<1> DEFINE total   == m.total + n.total
           count   == m.count + n.count
           sum     == [ m EXCEPT !.total = total, !.count = count ]
           average == Collector!Fraction(sum.total, sum.count)
<1>1. total \in Nat /\ count \in Nat
  BY DEF MetricType
<1>2. Collector!Add(m, n) = [ sum EXCEPT !.average = average ]
  BY DEF Collector!Add, Collector!Normalize
<1> HIDE DEF total, count
<1>3. sum \in MetricType /\ sum.count = count
  BY <1>1 DEF MetricType
<1> HIDE DEF sum
<1>4. average \in Nat \X Nat
  BY <1>3 DEF Collector!Fraction, MetricType
<1> HIDE DEF average
<1> QED
  BY <1>2, <1>3, <1>4 DEF MetricType, count

\* A stage that is called is counted once, another one not at all.
LEMMA OneCallMetrics ==
  ASSUME NEW stages \in SUBSET (SetupStages \cup {"maintain"})
  PROVE  /\ OneCall(stages) \in [ SetupStages \cup {"maintain"} -> MetricType ]
         /\ \A st \in SetupStages \cup {"maintain"} :
              OneCall(stages)[st].count = IF st \in stages THEN 1 ELSE 0
  BY DEF OneCall, SetupStages, MetricType, Collector!Measured, Collector!Fraction,
         Collector!NoMetric

\* A new collector holds nothing.
LEMMA FreshTally ==
  /\ Collector!Fresh \in TallyType
  /\ Calls(Collector!Fresh) = 0
  /\ Collector!Fresh.counts["succeeded"] = 0
  /\ Collector!Fresh.timings["maintain"].count = 0
  /\ ~ Collector!Fresh.setupTimingsRecorded
  /\ ~ Collector!Fresh.setupSizesRecorded
  BY DEF Collector!Fresh, Collector!Counters, Collector!NoTimings, Collector!NoSizes,
         Collector!NoMetric, TallyType, MetricType, SetupStages, Calls

\* recordIteration's outcome is one more call, and nothing else.
LEMMA OutcomeTally ==
  ASSUME NEW c \in TallyType, NEW succeeded \in BOOLEAN,
         NEW d, d = Collector!RecordMaintenanceOutcome(c, succeeded)
  PROVE  /\ d \in TallyType
         /\ Calls(d) = Calls(c) + 1
         /\ d.counts["succeeded"] = c.counts["succeeded"] + IF succeeded THEN 1 ELSE 0
         /\ d.timings = c.timings /\ d.setupTimings = c.setupTimings
<1> DEFINE names == IF succeeded THEN {"succeeded"} ELSE {"failed"}
           counts == [ k \in Collector!Counters |-> c.counts[k] + (IF k \in names THEN 1 ELSE 0) ]
<1>1. d = [ c EXCEPT !.counts = counts ]
  BY DEF Collector!RecordMaintenanceOutcome, Collector!Increment
<1>2. c.counts \in [ Collector!Counters -> Nat ]
  BY DEF TallyType
<1>3. counts \in [ Collector!Counters -> Nat ]
  BY <1>2
<1>4. {"succeeded", "failed"} \subseteq Collector!Counters
  BY DEF Collector!Counters
<1>5. /\ counts["succeeded"] = c.counts["succeeded"] + IF succeeded THEN 1 ELSE 0
      /\ counts["failed"] = c.counts["failed"] + IF succeeded THEN 0 ELSE 1
  BY <1>2, <1>4
<1> HIDE DEF counts
<1>6. d \in TallyType /\ d.counts = counts /\ d.timings = c.timings
      /\ d.setupTimings = c.setupTimings
  BY <1>1, <1>3 DEF TallyType
<1> QED
  BY <1>2, <1>3, <1>4, <1>5, <1>6 DEF Calls

\* recordWorkerFinalBlockCount replaces the count and nothing else.
LEMMA BlockCountTally ==
  ASSUME NEW c \in TallyType, NEW blocks \in Int,
         NEW d, d = Collector!RecordWorkerFinalBlockCount(c, blocks)
  PROVE  /\ d \in TallyType
         /\ d.finalBlocks = blocks
         /\ d.counts = c.counts /\ d.timings = c.timings /\ d.setupTimings = c.setupTimings
  BY DEF Collector!RecordWorkerFinalBlockCount, TallyType

\* recordTimings of an iteration adds one maintain call.
LEMMA IterationTally ==
  ASSUME NEW c \in TallyType,
         NEW d, d = Collector!RecordTimings(c, OneCall({"maintain"}))
  PROVE  /\ d \in TallyType
         /\ d.timings["maintain"].count = c.timings["maintain"].count + 1
         /\ d.counts = c.counts /\ d.finalBlocks = c.finalBlocks
         /\ d.setupTimings = c.setupTimings
<1> DEFINE one     == OneCall({"maintain"})
           timings == [ st \in SetupStages \cup {"maintain"} |->
                          Collector!Add(c.timings[st], one[st]) ]
<1>1. /\ one \in [ SetupStages \cup {"maintain"} -> MetricType ]
      /\ one["maintain"].count = 1
  BY OneCallMetrics
<1>2. c.timings \in [ SetupStages \cup {"maintain"} -> MetricType ]
  BY DEF TallyType
<1> HIDE DEF one
<1>3. timings \in [ SetupStages \cup {"maintain"} -> MetricType ]
  BY <1>1, <1>2, AddMetric
<1>4. timings["maintain"].count = c.timings["maintain"].count + 1
  BY <1>1, <1>2, AddMetric
<1>5. d = [ c EXCEPT !.timings = timings ]
  BY DEF Collector!RecordTimings, Collector!AddTimings, SetupStages, one
<1> HIDE DEF timings
<1> QED
  BY <1>3, <1>4, <1>5 DEF TallyType

\* The setup record of a worker that has none: one call of each setup stage.
LEMMA SetupTally ==
  ASSUME NEW d, d = Collector!RecordSetupMessageSizes(
                      Collector!RecordSetupTimings(Collector!Fresh, OneCall(SetupStages)),
                      Collector!NoSizes)
  PROVE  /\ d \in TallyType
         /\ \A st \in SetupStages : d.setupTimings[st].count = 1
         /\ d.counts = Collector!Fresh.counts /\ d.timings = Collector!Fresh.timings
<1> DEFINE fresh   == Collector!Fresh
           once    == OneCall(SetupStages)
           timings == [ st \in SetupStages \cup {"maintain"} |-> Collector!Normalize(once[st]) ]
           sizes   == Collector!NormalizeSizes(Collector!NoSizes)
<1>1. /\ once \in [ SetupStages \cup {"maintain"} -> MetricType ]
      /\ \A st \in SetupStages : once[st].count = 1
  BY OneCallMetrics
<1> HIDE DEF once
<1>2. \A m \in MetricType : /\ Collector!Normalize(m) \in MetricType
                            /\ Collector!Normalize(m).count = m.count
  BY DEF Collector!Normalize, Collector!Fraction, MetricType
<1>3. /\ timings \in [ SetupStages \cup {"maintain"} -> MetricType ]
      /\ \A st \in SetupStages : timings[st].count = 1
  BY <1>1, <1>2
<1>4. sizes \in [ {"tags"} -> MetricType ]
  BY DEF Collector!NormalizeSizes, Collector!NoSizes, Collector!NoMetric, MetricType
<1>5. fresh \in TallyType /\ ~ fresh.setupTimingsRecorded /\ ~ fresh.setupSizesRecorded
  BY FreshTally
<1>6. Collector!NormalizeTimings(once) = timings
  BY DEF Collector!NormalizeTimings, SetupStages
<1> HIDE DEF timings, sizes, fresh
<1> DEFINE c == [ fresh EXCEPT !.setupTimings = timings, !.setupTimingsRecorded = TRUE ]
<1>7. Collector!RecordSetupTimings(fresh, once) = c
  BY <1>5, <1>6 DEF Collector!RecordSetupTimings
<1>8. /\ c \in TallyType /\ ~ c.setupSizesRecorded
      /\ c.setupTimings = timings /\ c.counts = fresh.counts /\ c.timings = fresh.timings
  BY <1>3, <1>5 DEF TallyType
<1> HIDE DEF c
<1>9. d = [ c EXCEPT !.setupSizes = sizes, !.setupSizesRecorded = TRUE ]
  BY <1>7, <1>8 DEF Collector!RecordSetupMessageSizes, sizes, fresh, once
<1> QED
  BY <1>3, <1>4, <1>8, <1>9 DEF TallyType, fresh

\* Merging adds the calls, the timings, the setups and the final block counts.
LEMMA MergedTally ==
  ASSUME NEW c \in TallyType, NEW o \in TallyType, NEW d, d = Collector!MergeFrom(c, o)
  PROVE  /\ d \in TallyType
         /\ Calls(d) = Calls(c) + Calls(o)
         /\ d.counts["succeeded"] = c.counts["succeeded"] + o.counts["succeeded"]
         /\ d.finalBlocks = c.finalBlocks + o.finalBlocks
         /\ d.timings["maintain"].count
              = c.timings["maintain"].count + o.timings["maintain"].count
         /\ \A st \in SetupStages :
              d.setupTimings[st].count = c.setupTimings[st].count + o.setupTimings[st].count
<1> DEFINE stages  == SetupStages \cup {"maintain"}
           counts  == [ k \in Collector!Counters |-> c.counts[k] + o.counts[k] ]
           setupT  == [ st \in stages |-> Collector!Add(c.setupTimings[st], o.setupTimings[st]) ]
           setupS  == [ m \in {"tags"} |-> Collector!Add(c.setupSizes[m], o.setupSizes[m]) ]
           timings == [ st \in stages |-> Collector!Add(c.timings[st], o.timings[st]) ]
           sizes   == [ m \in {"tags"} |-> Collector!Add(c.sizes[m], o.sizes[m]) ]
<1>1. d = [ counts               |-> counts,
            finalBlocks          |-> c.finalBlocks + o.finalBlocks,
            setupTimings         |-> setupT,
            setupSizes           |-> setupS,
            setupTimingsRecorded |-> c.setupTimingsRecorded \/ o.setupTimingsRecorded,
            setupSizesRecorded   |-> c.setupSizesRecorded \/ o.setupSizesRecorded,
            timings              |-> timings,
            sizes                |-> sizes,
            memoryPeak           |-> IF c.memoryPeak >= o.memoryPeak
                                     THEN c.memoryPeak ELSE o.memoryPeak ]
  BY DEF Collector!MergeFrom, Collector!AddTimings, Collector!AddSizes, SetupStages
<1>2. /\ c.counts \in [ Collector!Counters -> Nat ] /\ o.counts \in [ Collector!Counters -> Nat ]
      /\ c.setupTimings \in [ stages -> MetricType ] /\ o.setupTimings \in [ stages -> MetricType ]
      /\ c.timings \in [ stages -> MetricType ] /\ o.timings \in [ stages -> MetricType ]
      /\ c.setupSizes \in [ {"tags"} -> MetricType ] /\ o.setupSizes \in [ {"tags"} -> MetricType ]
      /\ c.sizes \in [ {"tags"} -> MetricType ] /\ o.sizes \in [ {"tags"} -> MetricType ]
  BY DEF TallyType
<1>3. counts \in [ Collector!Counters -> Nat ]
  BY <1>2
<1>4. /\ counts["succeeded"] = c.counts["succeeded"] + o.counts["succeeded"]
      /\ counts["failed"] = c.counts["failed"] + o.counts["failed"]
  BY <1>2 DEF Collector!Counters
<1>5. /\ setupT \in [ stages -> MetricType ] /\ timings \in [ stages -> MetricType ]
      /\ setupS \in [ {"tags"} -> MetricType ] /\ sizes \in [ {"tags"} -> MetricType ]
  BY <1>2, AddMetric
<1>6. /\ \A st \in SetupStages :
           setupT[st].count = c.setupTimings[st].count + o.setupTimings[st].count
      /\ timings["maintain"].count
           = c.timings["maintain"].count + o.timings["maintain"].count
  BY <1>2, AddMetric
<1> HIDE DEF counts, setupT, setupS, timings, sizes
<1>7. d \in TallyType
  <2>1. /\ c.finalBlocks + o.finalBlocks \in Int
        /\ (IF c.memoryPeak >= o.memoryPeak THEN c.memoryPeak ELSE o.memoryPeak) \in Nat
        /\ c.setupTimingsRecorded \/ o.setupTimingsRecorded \in BOOLEAN
        /\ c.setupSizesRecorded \/ o.setupSizesRecorded \in BOOLEAN
    BY DEF TallyType
  <2> QED
    BY <1>1, <1>3, <1>5, <2>1 DEF TallyType
<1>8. {"succeeded", "failed"} \subseteq Collector!Counters
  BY DEF Collector!Counters
<1> QED
  BY <1>1, <1>2, <1>3, <1>4, <1>6, <1>7, <1>8 DEF Calls

------------------------------------------------------------------------------
(* The runs of the benchmark are runs of BenchmarkRunner. *)

\* Every step of the composed run is a step of runSingle, or none.
LEMMA MaintenanceStepRuns == [NextMaintenance]_allVars => [Next]_vars
<1> SUFFICES ASSUME [NextMaintenance]_allVars PROVE [Next]_vars
  OBVIOUS
<1>1. CASE MaintenanceMain
  <2>1. MaintenancePlan => Main
    BY DEF MaintenancePlan, Main
  <2>2. MaintenanceValidate => Main
    BY DEF MaintenanceValidate, Main, MainSteps
  <2>3. MaintenanceResult => Main
    BY DEF MaintenanceResult, Main
  <2>4. MainElsewhere => Main
    BY DEF MainElsewhere, Main, MainSteps
  <2> QED
    BY <1>1, <2>1, <2>2, <2>3, <2>4 DEF MaintenanceMain, Next
<1>2. ASSUME NEW s \in Workers, MaintenanceWorker(s)
      PROVE  Next
  <2>1. Worker(s)
    BY <1>2 DEF MaintenanceWorker, SetupStore, Maintain, MaintenanceThrows, RecordMaintenance,
                RecordMaintenanceThrows, DropStore, WorkerElsewhere, Worker, LifecycleSteps
  <2> QED
    BY <2>1 DEF Next
<1>3. CASE StrategyReloaded \/ MaintenanceDone \/ UNCHANGED allVars
  BY <1>3 DEF StrategyReloaded, MaintenanceDone, allVars
<1> QED
  BY <1>1, <1>2, <1>3 DEF NextMaintenance

\* Every run of the maintenance scenario is a run of runSingle.
THEOREM MaintenanceRunsRunner == SpecMaintenance => SafeSpec
<1>1. InitMaintenance => Init
  BY DEF InitMaintenance
<1> QED
  BY <1>1, MaintenanceStepRuns, PTL DEF SpecMaintenance, SafeSpec

\* Main's own steps leave the run alone, or it reloads the library before it.
LEMMA AppStepMaintains == [NextApp]_<<allVars, appVars>> => [NextMaintenance]_allVars
  BY DEF NextApp, ScanOptions, LoadStrategies, LoadFails, CheckStrategy, ReloadedBeforeRun,
         RunSingle, RunFails, PrintConsole, WriteReport, StopWatching, AppDone, NextMaintenance

\* What the executable does to the run is what the run may do.
THEOREM AppRunsMaintenance == SpecApp => SpecMaintenance
<1>1. InitApp => InitMaintenance
  BY DEF InitApp
<1> QED
  BY <1>1, AppStepMaintains, PTL DEF SpecApp, SpecMaintenance

------------------------------------------------------------------------------
(* The initial states. *)

\* No store, nothing counted, nothing planned.
LEMMA InitMInv == InitMaintenance => MInv
<1> SUFFICES ASSUME InitMaintenance PROVE MInv
  OBVIOUS
<1> USE RunnerAssumption, MaintenanceAssumption, FreshTally
<1>1. MaintenanceTypes
  BY DEF InitMaintenance, MaintenanceTypes, NoStore
<1>2. \A s \in Workers : StoreInv(s) /\ TallyInv(s)
  BY DEF InitMaintenance, Init, StoreInv, TallyInv, WithStore, Healthy
<1>3. CapacityInv /\ BusyInv /\ MergedInv
  BY DEF InitMaintenance, Init, CapacityInv, BusyInv, MergedInv
<1> QED
  BY <1>1, <1>2, <1>3 DEF MInv

------------------------------------------------------------------------------
(* The steps of a worker. *)

(***************************************************************************)
(* What every action of a worker does: it leaves the main thread, the      *)
(* configuration and the other workers alone, and keeps the types and what *)
(* MInv says of its own worker.                                            *)
(***************************************************************************)
OwnMaintenance(s) ==
  /\ UNCHANGED <<config, mainVars, configVars, reportVars>>
  /\ \A t \in Workers \ {s} :
       /\ wpc'[t] = wpc[t] /\ collectors'[t] = collectors[t] /\ failures'[t] = failures[t]
       /\ store'[t] = store[t] /\ lastSucceeded'[t] = lastSucceeded[t] /\ tally'[t] = tally[t]
  /\ MaintenanceTypes'
  /\ StoreInv(s)'
  /\ TallyInv(s)'

\* A worker's setup gives it a store of the initial blocks, and measures that.
LEMMA SetupMaintains ==
  ASSUME IInv, MInv, NEW s \in Workers, SetupStore(s)
  PROVE  OwnMaintenance(s)
<1> USE DEF IInv, MInv
<1>1. UNCHANGED <<config, mainVars, configVars, reportVars>>
  BY DEF SetupStore, Setup
<1>2. /\ wpc[s] = "setup" /\ wpc' = [ wpc EXCEPT ![s] = "prepare" ]
      /\ failures' = failures
      /\ collectors' = [ collectors EXCEPT ![s] = RecordSetup(collectors[s]) ]
      /\ initialBlocks > 0
      /\ store' = [ store EXCEPT ![s] = initialBlocks ]
      /\ localIteration' = [ localIteration EXCEPT ![s] = 0 ]
      /\ lastSucceeded' = [ lastSucceeded EXCEPT ![s] = FALSE ]
  BY DEF SetupStore, Setup, MoveTo
<1>3. tally[s] = Collector!Fresh /\ NothingRecorded(s)
  BY <1>2 DEF TallyInv, WorkerInv
<1>4. tally' = [ tally EXCEPT ![s] = Collector!RecordSetupMessageSizes(
                   Collector!RecordSetupTimings(tally[s], OneCall(SetupStages)),
                   Collector!NoSizes) ]
  BY DEF SetupStore, SetupStages
<1>5. tally'[s] = Collector!RecordSetupMessageSizes(
                    Collector!RecordSetupTimings(Collector!Fresh, OneCall(SetupStages)),
                    Collector!NoSizes)
  BY <1>3, <1>4 DEF MaintenanceTypes
<1>6. /\ tally'[s] \in TallyType
      /\ \A st \in SetupStages : tally'[s].setupTimings[st].count = 1
      /\ tally'[s].counts = Collector!Fresh.counts
      /\ tally'[s].timings = Collector!Fresh.timings
  BY <1>5, SetupTally
<1>7. initialBlocks \in Nat /\ operation \in {"update", "insert", "delete"}
  BY MaintenanceAssumption DEF MaintenanceTypes
<1>8. MaintenanceTypes'
  BY <1>1, <1>2, <1>4, <1>6, <1>7 DEF MaintenanceTypes, configVars, reportVars
<1>9. Calls(tally'[s]) = 0 /\ tally'[s].counts["succeeded"] = 0
      /\ tally'[s].timings["maintain"].count = 0
  BY <1>6, FreshTally DEF Calls
<1>10. wpc'[s] = "prepare" /\ store'[s] = initialBlocks
       /\ collectors'[s].outcomes = 0 /\ collectors'[s].timings = 0
  BY <1>2, <1>3 DEF TypeOK, MaintenanceTypes, CollectorType, NothingRecorded, RecordSetup
<1>11. StoreInv(s)'
  BY <1>1, <1>2, <1>7, <1>9, <1>10 DEF StoreInv, Net, Pending, configVars
<1>12. TallyInv(s)'
  BY <1>6, <1>9, <1>10 DEF TallyInv
<1>13. \A t \in Workers \ {s} :
        /\ wpc'[t] = wpc[t] /\ collectors'[t] = collectors[t] /\ failures'[t] = failures[t]
        /\ store'[t] = store[t] /\ lastSucceeded'[t] = lastSucceeded[t] /\ tally'[t] = tally[t]
  BY <1>2, <1>4 DEF TypeOK, MaintenanceTypes
<1> QED
  BY <1>1, <1>8, <1>11, <1>12, <1>13 DEF OwnMaintenance

\* An operation changes its worker's own store by a block at most, and its index is legal.
LEMMA CallMaintains ==
  ASSUME IInv, MInv, NEW s \in Workers, Maintain(s)
  PROVE  OwnMaintenance(s)
<1> USE DEF IInv, MInv
<1>1. UNCHANGED <<config, mainVars, configVars, reportVars>>
  BY DEF Maintain, RunIteration
<1>2. /\ wpc[s] = "loop" /\ wpc' = [ wpc EXCEPT ![s] = "record" ]
      /\ failures' = failures
      /\ collectors' = [ collectors EXCEPT ![s] = RecordTimings(collectors[s]) ]
      /\ localIteration' = [ localIteration EXCEPT ![s] = localIteration[s] + 1 ]
  BY DEF Maintain, RunIteration, MoveTo
<1>3. PICK succeeded \in BOOLEAN :
        /\ store' = [ store EXCEPT ![s] = IF succeeded THEN BlocksAfter(s) ELSE store[s] ]
        /\ lastSucceeded' = [ lastSucceeded EXCEPT ![s] = succeeded ]
        /\ tally' = [ tally EXCEPT
             ![s] = Collector!RecordTimings(tally[s], OneCall({"maintain"})) ]
  BY DEF Maintain, Attempted
<1>4. tally[s] \in TallyType
      /\ tally'[s] = Collector!RecordTimings(tally[s], OneCall({"maintain"}))
  BY <1>3 DEF MaintenanceTypes
<1>5. /\ tally'[s] \in TallyType
      /\ tally'[s].timings["maintain"].count = tally[s].timings["maintain"].count + 1
      /\ tally'[s].counts = tally[s].counts /\ tally'[s].finalBlocks = tally[s].finalBlocks
      /\ tally'[s].setupTimings = tally[s].setupTimings
  BY <1>4, IterationTally
<1>6. initialBlocks \in Nat /\ operation \in {"update", "insert", "delete"}
      /\ store[s] \in Int
  BY MaintenanceAssumption DEF MaintenanceTypes
<1>7. BlocksAfter(s) \in Int
  BY <1>6 DEF BlocksAfter
<1>8. MaintenanceTypes'
  <2>1. store' \in [ Workers -> Int ]
    BY <1>3, <1>6, <1>7 DEF MaintenanceTypes
  <2> QED
    BY <1>1, <1>2, <1>3, <1>5, <2>1 DEF MaintenanceTypes, configVars, reportVars
<1>9. /\ initialBlocks > 0
      /\ store[s] = initialBlocks + Net(tally[s].counts["succeeded"])
      /\ tally[s].counts["succeeded"] \in Nat
  <2>1. tally[s].counts["succeeded"] \in Nat
    BY <1>4 DEF TallyType, Collector!Counters
  <2>2. Pending(s) = 0
    BY <1>2 DEF Pending
  <2> QED
    BY <1>2, <2>1, <2>2 DEF StoreInv, WithStore
<1>10. wpc'[s] = "record" /\ lastSucceeded'[s] = succeeded
       /\ store'[s] = IF succeeded THEN BlocksAfter(s) ELSE store[s]
  BY <1>2, <1>3 DEF TypeOK, MaintenanceTypes
<1>11. StoreInv(s)'
  <2>1. Pending(s)' = IF succeeded THEN 1 ELSE 0
    BY <1>10 DEF Pending
  <2>2. store'[s] = initialBlocks
                      + Net(tally[s].counts["succeeded"] + IF succeeded THEN 1 ELSE 0)
    BY <1>6, <1>9, <1>10 DEF Net, BlocksAfter
  <2> QED
    BY <1>1, <1>5, <1>9, <2>1, <2>2 DEF StoreInv, Net, configVars
<1>12. TallyInv(s)'
  <2>1. /\ collectors'[s].outcomes = collectors[s].outcomes
        /\ collectors'[s].timings = collectors[s].timings + 1
    BY <1>2 DEF TypeOK, CollectorType, RecordTimings
  <2>2. /\ Calls(tally[s]) = collectors[s].outcomes
        /\ tally[s].timings["maintain"].count = collectors[s].timings
        /\ \A st \in SetupStages : tally[s].setupTimings[st].count = 1
        /\ collectors[s].outcomes > 0 =>
             tally[s].finalBlocks = initialBlocks + Net(tally[s].counts["succeeded"])
    BY <1>2 DEF TallyInv, Healthy, WithStore
  <2> QED
    BY <1>1, <1>5, <1>10, <2>1, <2>2 DEF TallyInv, Calls, Net, configVars
<1>13. \A t \in Workers \ {s} :
        /\ wpc'[t] = wpc[t] /\ collectors'[t] = collectors[t] /\ failures'[t] = failures[t]
        /\ store'[t] = store[t] /\ lastSucceeded'[t] = lastSucceeded[t] /\ tally'[t] = tally[t]
  BY <1>2, <1>3 DEF TypeOK, MaintenanceTypes
<1> QED
  BY <1>1, <1>8, <1>11, <1>12, <1>13 DEF OwnMaintenance

\* The outcome is counted once, for the call the store has already felt.
LEMMA RecordMaintains ==
  ASSUME IInv, MInv, NEW s \in Workers, RecordMaintenance(s)
  PROVE  OwnMaintenance(s)
<1> USE DEF IInv, MInv
<1>1. UNCHANGED <<config, mainVars, configVars, reportVars>>
  BY DEF RecordMaintenance, RecordIteration
<1>2. /\ wpc[s] = "record" /\ wpc' = [ wpc EXCEPT ![s] = "loop" ]
      /\ failures' = failures
      /\ collectors' = [ collectors EXCEPT ![s] = RecordOutcome(collectors[s]) ]
      /\ store' = store /\ localIteration' = localIteration
      /\ lastSucceeded' = lastSucceeded
  BY DEF RecordMaintenance, RecordIteration, MoveTo
<1> DEFINE recorded == Collector!RecordMaintenanceOutcome(tally[s], lastSucceeded[s])
<1>3. tally' = [ tally EXCEPT ![s] = Collector!RecordWorkerFinalBlockCount(recorded, store[s]) ]
  BY DEF RecordMaintenance
<1>4. /\ tally[s] \in TallyType /\ lastSucceeded[s] \in BOOLEAN /\ store[s] \in Int
      /\ tally'[s] = Collector!RecordWorkerFinalBlockCount(recorded, store[s])
  BY <1>3 DEF MaintenanceTypes
<1>5. /\ recorded \in TallyType
      /\ Calls(recorded) = Calls(tally[s]) + 1
      /\ recorded.counts["succeeded"]
           = tally[s].counts["succeeded"] + IF lastSucceeded[s] THEN 1 ELSE 0
      /\ recorded.timings = tally[s].timings /\ recorded.setupTimings = tally[s].setupTimings
  BY <1>4, OutcomeTally
<1> HIDE DEF recorded
<1>6. /\ tally'[s] \in TallyType
      /\ tally'[s].finalBlocks = store[s]
      /\ tally'[s].counts = recorded.counts /\ tally'[s].timings = recorded.timings
      /\ tally'[s].setupTimings = recorded.setupTimings
  BY <1>4, <1>5, BlockCountTally
<1>7. MaintenanceTypes'
  BY <1>1, <1>2, <1>3, <1>6 DEF MaintenanceTypes, configVars, reportVars
<1>8. wpc'[s] = "loop" /\ collectors'[s].outcomes = collectors[s].outcomes + 1
      /\ collectors'[s].timings = collectors[s].timings
  BY <1>2 DEF TypeOK, CollectorType, RecordOutcome
<1>9. /\ initialBlocks > 0
      /\ store[s] = initialBlocks + Net(tally'[s].counts["succeeded"])
  BY <1>2, <1>5, <1>6 DEF StoreInv, WithStore, Pending, Net
<1>10. StoreInv(s)'
  <2>1. Pending(s)' = 0
    BY <1>8 DEF Pending
  <2>2. tally'[s].counts["succeeded"] \in Nat
    BY <1>6 DEF TallyType, Collector!Counters
  <2> QED
    BY <1>1, <1>2, <1>9, <2>1, <2>2 DEF StoreInv, Net, configVars
<1>11. TallyInv(s)'
  <2>1. /\ Calls(tally[s]) = collectors[s].outcomes
        /\ tally[s].timings["maintain"].count = collectors[s].timings
        /\ \A st \in SetupStages : tally[s].setupTimings[st].count = 1
    BY <1>2 DEF TallyInv, Healthy, WithStore
  <2>2. Calls(tally'[s]) = Calls(recorded)
    BY <1>6 DEF Calls
  <2> QED
    BY <1>1, <1>5, <1>6, <1>8, <1>9, <2>1, <2>2 DEF TallyInv, Net, configVars
<1>12. \A t \in Workers \ {s} :
        /\ wpc'[t] = wpc[t] /\ collectors'[t] = collectors[t] /\ failures'[t] = failures[t]
        /\ store'[t] = store[t] /\ lastSucceeded'[t] = lastSucceeded[t] /\ tally'[t] = tally[t]
  BY <1>2, <1>3 DEF TypeOK, MaintenanceTypes
<1> QED
  BY <1>1, <1>7, <1>10, <1>11, <1>12 DEF OwnMaintenance

\* A call that throws: the worker holds neither a store nor a result any more.
LEMMA ThrowMaintains ==
  ASSUME IInv, MInv, NEW s \in Workers, MaintenanceThrows(s) \/ RecordMaintenanceThrows(s)
  PROVE  OwnMaintenance(s)
<1> USE DEF IInv, MInv
<1>1. PICK step \in LifecycleSteps : CallThrows(s, step)
  BY DEF MaintenanceThrows, RecordMaintenanceThrows, LifecycleSteps
<1>2. /\ UNCHANGED <<config, mainVars, configVars, reportVars>>
      /\ store' = store /\ localIteration' = localIteration
      /\ lastSucceeded' = lastSucceeded
  BY <1>1 DEF CallThrows, MaintenanceThrows, RecordMaintenanceThrows, scenarioVars
<1>3. /\ wpc' = [ wpc EXCEPT ![s] = "cleanup" ]
      /\ collectors' = collectors /\ failures' = failures
  BY <1>1 DEF CallThrows, MoveTo
<1>4. \/ tally' = tally
      \/ tally' = [ tally EXCEPT
           ![s] = Collector!RecordMaintenanceOutcome(tally[s], lastSucceeded[s]) ]
  BY DEF MaintenanceThrows, RecordMaintenanceThrows, scenarioVars
<1>5. Collector!RecordMaintenanceOutcome(tally[s], lastSucceeded[s]) \in TallyType
  BY OutcomeTally DEF MaintenanceTypes
<1>6. tally' \in [ Workers -> TallyType ] /\ \A t \in Workers \ {s} : tally'[t] = tally[t]
  BY <1>4, <1>5 DEF MaintenanceTypes
<1>7. MaintenanceTypes'
  BY <1>2, <1>6 DEF MaintenanceTypes, configVars, reportVars
<1>8. wpc'[s] = "cleanup"
  BY <1>3 DEF TypeOK
<1>9. StoreInv(s)' /\ TallyInv(s)'
  BY <1>8 DEF StoreInv, TallyInv, Healthy, WithStore
<1> QED
  BY <1>2, <1>3, <1>6, <1>7, <1>9 DEF OwnMaintenance, TypeOK

\* The store is dropped; what the collector holds stays true of a worker that is done.
LEMMA DropMaintains ==
  ASSUME IInv, MInv, NEW s \in Workers, DropStore(s)
  PROVE  OwnMaintenance(s)
<1> USE DEF IInv, MInv
<1>1. UNCHANGED <<config, mainVars, configVars, reportVars>> /\ collectors' = collectors
      /\ tally' = tally
  BY DEF DropStore, Teardown, Cleanup
<1>2. /\ wpc' = [ wpc EXCEPT ![s] = "done" ]
      /\ store' = [ store EXCEPT ![s] = NoStore ]
      /\ localIteration' = [ localIteration EXCEPT ![s] = 0 ]
      /\ lastSucceeded' = [ lastSucceeded EXCEPT ![s] = FALSE ]
  BY DEF DropStore, Teardown, Cleanup, MoveTo
<1>3. MaintenanceTypes'
  BY <1>1, <1>2 DEF MaintenanceTypes, NoStore, configVars, reportVars
<1>4. wpc'[s] = "done"
  BY <1>2 DEF TypeOK
<1>5. StoreInv(s)'
  BY <1>4 DEF StoreInv, WithStore
<1>6. TallyInv(s)'
  <2>1. CASE Teardown(s)
    <3>1. Healthy(s)
      BY <2>1 DEF Teardown, Healthy, WithStore
    <3> QED
      BY <1>1, <1>4, <3>1 DEF TallyInv, Calls, Net, configVars
  <2>2. CASE Cleanup(s)
    <3>1. failures'[s] # "none"
      BY <2>2 DEF Cleanup, WorkerInv, TypeOK
    <3> QED
      BY <1>4, <3>1 DEF TallyInv, Healthy, WithStore
  <2> QED
    BY <2>1, <2>2 DEF DropStore
<1>7. \A t \in Workers \ {s} : failures'[t] = failures[t]
  BY DEF DropStore, Teardown, Cleanup, TypeOK
<1> QED
  BY <1>1, <1>2, <1>3, <1>5, <1>6, <1>7 DEF OwnMaintenance, TypeOK, MaintenanceTypes

\* Where a worker is created or prepares, its store and its counts stand still.
LEMMA ElsewhereMaintains ==
  ASSUME IInv, MInv, NEW s \in Workers, WorkerElsewhere(s)
  PROVE  OwnMaintenance(s)
<1> USE DEF IInv, MInv
<1>1. /\ UNCHANGED <<config, mainVars, configVars, reportVars>>
      /\ UNCHANGED <<store, localIteration, lastSucceeded, tally>>
      /\ collectors' = collectors
  BY DEF WorkerElsewhere, WorkerCreate, WorkerCreateThrows, Prepare, scenarioVars
<1>2. MaintenanceTypes'
  BY <1>1 DEF MaintenanceTypes, configVars, reportVars
<1>3. CASE WorkerCreate(s)
  <2>1. wpc'[s] = "setup" /\ tally[s] = Collector!Fresh
    BY <1>3 DEF WorkerCreate, MoveTo, TypeOK, TallyInv
  <2> QED
    BY <1>1, <1>2, <1>3, <2>1
       DEF OwnMaintenance, StoreInv, TallyInv, Healthy, WithStore, WorkerCreate, MoveTo, TypeOK
<1>4. CASE WorkerCreateThrows(s)
  <2>1. wpc'[s] = "done" /\ failures'[s] = "create"
    BY <1>4 DEF WorkerCreateThrows, MoveTo, TypeOK
  <2> QED
    BY <1>1, <1>2, <1>4, <2>1
       DEF OwnMaintenance, StoreInv, TallyInv, Healthy, WithStore, WorkerCreateThrows, MoveTo,
           TypeOK
<1>5. CASE Prepare(s)
  <2>1. wpc[s] = "prepare" /\ wpc'[s] = "loop" /\ failures' = failures
    BY <1>5 DEF Prepare, MoveTo, TypeOK
  <2>2. StoreInv(s)'
    BY <1>1, <2>1 DEF StoreInv, WithStore, Pending, Net, configVars
  <2>3. TallyInv(s)'
    BY <1>1, <2>1 DEF TallyInv, Healthy, WithStore, Calls, Net, configVars
  <2> QED
    BY <1>1, <1>2, <1>5, <2>1, <2>2, <2>3 DEF OwnMaintenance, Prepare, MoveTo, TypeOK
<1> QED
  BY <1>3, <1>4, <1>5 DEF WorkerElsewhere

\* Such a step disturbs neither the other workers nor what the merge has done.
LEMMA OwnMaintenanceMInv ==
  ASSUME MInv, NEW s \in Workers, OwnMaintenance(s)
  PROVE  MInv'
<1> USE DEF MInv
<1>1. /\ config' = config /\ plan' = plan /\ mpc' = mpc /\ cursor' = cursor
      /\ operation' = operation /\ initialBlocks' = initialBlocks
      /\ mergedTally' = mergedTally /\ report' = report
  BY DEF OwnMaintenance, mainVars, configVars, reportVars
<1>2. ASSUME NEW t \in Workers
      PROVE  StoreInv(t)' /\ TallyInv(t)'
  <2>1. CASE t = s
    BY <2>1 DEF OwnMaintenance
  <2>2. CASE t # s
    <3>1. /\ wpc'[t] = wpc[t] /\ collectors'[t] = collectors[t] /\ failures'[t] = failures[t]
          /\ store'[t] = store[t] /\ lastSucceeded'[t] = lastSucceeded[t]
          /\ tally'[t] = tally[t]
      BY <2>2 DEF OwnMaintenance
    <3>2. StoreInv(t)'
      BY <1>1, <3>1 DEF StoreInv, WithStore, Pending, Net
    <3>3. TallyInv(t)'
      BY <1>1, <3>1 DEF TallyInv, Healthy, WithStore, Calls, Net
    <3> QED
      BY <3>2, <3>3
  <2> QED
    BY <2>1, <2>2
<1>3. CapacityInv' /\ BusyInv'
  BY <1>1 DEF CapacityInv, CapacityCovered, BusyInv
<1>4. MergedInv'
  BY <1>1 DEF MergedInv, Net, Calls
<1>5. MaintenanceTypes'
  BY DEF OwnMaintenance
<1> QED
  BY <1>2, <1>3, <1>4, <1>5

\* Whatever a worker does next keeps the invariant of the scenario.
LEMMA MaintenanceWorkerStep ==
  ASSUME IInv, MInv, NEW s \in Workers, MaintenanceWorker(s)
  PROVE  MInv'
<1>1. OwnMaintenance(s)
  BY SetupMaintains, CallMaintains, RecordMaintains, ThrowMaintains, DropMaintains,
     ElsewhereMaintains DEF MaintenanceWorker
<1> QED
  BY <1>1, OwnMaintenanceMInv

------------------------------------------------------------------------------
(* The steps of the main thread. *)

\* A main step that leaves the workers and their scenarios alone keeps what is said of them.
LEMMA WorkersMaintained ==
  ASSUME MInv, UNCHANGED <<workerVars, configVars, scenarioVars>>
  PROVE  \A s \in Workers : StoreInv(s)' /\ TallyInv(s)'
<1> SUFFICES ASSUME NEW s \in Workers PROVE StoreInv(s)' /\ TallyInv(s)'
  OBVIOUS
<1>1. /\ wpc' = wpc /\ collectors' = collectors /\ failures' = failures
      /\ operation' = operation /\ initialBlocks' = initialBlocks
      /\ store' = store /\ lastSucceeded' = lastSucceeded /\ tally' = tally
  BY DEF workerVars, configVars, scenarioVars
<1>2. StoreInv(s) /\ TallyInv(s)
  BY DEF MInv
<1>3. StoreInv(s)'
  BY <1>1, <1>2 DEF StoreInv, WithStore, Pending, Net
<1>4. TallyInv(s)'
  BY <1>1, <1>2 DEF TallyInv, Healthy, WithStore, Calls, Net
<1> QED
  BY <1>3, <1>4

\* Neither plan has more slots than iterations, one slot excepted.
LEMMA PlanMaintains ==
  ASSUME IInv, MInv, MaintenancePlan
  PROVE  MInv'
<1> USE DEF MInv
<1>1. UNCHANGED <<config, workerVars, configVars, scenarioVars, reportVars>>
      /\ mpc' = "validate"
  BY DEF MaintenancePlan, MakePlan
<1>2. MaintenanceTypes'
  BY <1>1 DEF MaintenanceTypes, configVars, scenarioVars, reportVars
<1>3. \A s \in Workers : StoreInv(s)' /\ TallyInv(s)'
  BY <1>1, WorkersMaintained
<1>4. CapacityInv' /\ MergedInv'
  BY <1>1 DEF CapacityInv, MergedInv
<1>5. BusyInv'
  <2> DEFINE balanced == Balanced(config.iterations, config.threads)
  <2>1. config.iterations \in Nat /\ config.threads \in Nat
    BY RunnerAssumption DEF IInv, TypeOK
  <2>2. ResolveThreadRequest(config.threads) \in Nat
    BY <2>1, HardwareAssumption DEF ResolveThreadRequest, Larger
  <2>3. /\ balanced.effective <= Larger(config.iterations, 1)
        /\ balanced.iterations = config.iterations
    BY <2>1, <2>2 DEF Balanced, Smaller, Larger
  <2>4. AsSingleWorker(balanced).effective = 1
        /\ AsSingleWorker(balanced).iterations = config.iterations
    BY <2>3 DEF AsSingleWorker
  <2>5. plan' = balanced \/ plan' = AsSingleWorker(balanced)
    BY DEF MaintenancePlan
  <2> HIDE DEF balanced
  <2>6. plan'.effective <= Larger(plan'.iterations, 1)
    BY <2>1, <2>3, <2>4, <2>5 DEF Larger
  <2> QED
    BY <2>6 DEF BusyInv
<1> QED
  BY <1>2, <1>3, <1>4, <1>5

\* Only a covered capacity lets the run go on.
LEMMA ValidateMaintains ==
  ASSUME IInv, MInv, MaintenanceValidate
  PROVE  MInv'
<1> USE DEF MInv
<1>1. UNCHANGED <<config, plan, workerVars, configVars, scenarioVars, reportVars>>
  BY DEF MaintenanceValidate, ValidateRun, MainThrows
<1>2. \/ mpc = "validate" /\ mpc' = "spawn" /\ CapacityCovered
      \/ mpc' = "thrown"
  BY DEF MaintenanceValidate, ValidateRun, MainThrows
<1>3. MaintenanceTypes'
  BY <1>1 DEF MaintenanceTypes, configVars, scenarioVars, reportVars
<1>4. \A s \in Workers : StoreInv(s)' /\ TallyInv(s)'
  BY <1>1, WorkersMaintained
<1>5. CapacityInv' /\ BusyInv' /\ MergedInv'
  BY <1>1, <1>2 DEF CapacityInv, CapacityCovered, BusyInv, MergedInv, configVars
<1> QED
  BY <1>3, <1>4, <1>5

\* The main thread's other steps start workers, or leave them alone.
LEMMA MainElsewhereMaintains ==
  ASSUME IInv, MInv, MainElsewhere
  PROVE  MInv'
<1> USE DEF MInv
<1>1. UNCHANGED <<config, plan, configVars, scenarioVars, reportVars, collectors, failures>>
  BY DEF MainElsewhere, CreateScenario, MainThrows, SpawnWorker, SpawnThrows, AbortJoin,
         AbortRethrow, StartWorker0, FinishWorker0, JoinWorker, StartScan, ScanSlot,
         RethrowFailure, workerVars
<1>2. MaintenanceTypes'
  BY <1>1 DEF MaintenanceTypes, configVars, scenarioVars, reportVars
<1>3. \/ mpc = "create" /\ mpc' = "plan"
      \/ mpc' = "thrown"
      \/ /\ mpc \in {"spawn", "abort", "worker0", "join", "scan"}
         /\ mpc' \in {"spawn", "abort", "worker0", "join", "scan"}
  BY DEF MainElsewhere, CreateScenario, MainThrows, SpawnWorker, SpawnThrows, AbortJoin,
         AbortRethrow, StartWorker0, FinishWorker0, JoinWorker, StartScan, ScanSlot,
         RethrowFailure
<1>4. CapacityInv' /\ BusyInv' /\ MergedInv'
  BY <1>1, <1>3 DEF CapacityInv, CapacityCovered, BusyInv, MergedInv, configVars
<1>5. CASE SpawnWorker \/ StartWorker0
  <2>1. PICK t \in Workers, step \in {"create", "setup"} :
          wpc[t] = "idle" /\ wpc' = [ wpc EXCEPT ![t] = step ]
    <3>1. /\ plan.effective \in Nat \ {0} /\ plan.effective <= MaxWorkers
          /\ MaxWorkers \in Nat \ {0} /\ Workers = 0 .. MaxWorkers - 1
      BY PlanNumbers DEF IInv, Workers
    <3>2. /\ mpc = "spawn" /\ cursor \in 1 .. plan.effective /\ Started(1 .. cursor - 1)
      BY <1>5 DEF SpawnWorker, StartWorker0, IInv, MainInv
    <3>3. CASE SpawnWorker
      <4>1. cursor \in Workers /\ wpc[cursor] = "idle"
        BY <3>1, <3>2, <3>3 DEF SpawnWorker, Started
      <4>2. wpc' = [ wpc EXCEPT ![cursor] = "create" ]
        BY <3>3 DEF SpawnWorker
      <4> QED
        BY <4>1, <4>2
    <3>4. CASE StartWorker0
      <4>1. 0 \in Workers /\ wpc[0] = "idle"
        BY <3>1, <3>2 DEF Started
      <4>2. wpc' = [ wpc EXCEPT ![0] = "setup" ]
        BY <3>4 DEF StartWorker0
      <4> QED
        BY <4>1, <4>2
    <3> QED
      BY <1>5, <3>3, <3>4
  <2>2. ASSUME NEW u \in Workers
        PROVE  StoreInv(u)' /\ TallyInv(u)'
    <3>1. /\ operation' = operation /\ initialBlocks' = initialBlocks /\ store' = store
          /\ lastSucceeded' = lastSucceeded /\ tally' = tally
      BY <1>1 DEF configVars, scenarioVars
    <3>2. CASE u = t
      <4>1. tally'[u] = Collector!Fresh /\ wpc'[u] \in {"create", "setup"}
        BY <2>1, <3>1, <3>2 DEF TallyInv, IInv, TypeOK
      <4> QED
        BY <4>1 DEF StoreInv, TallyInv, Healthy, WithStore
    <3>3. CASE u # t
      <4>1. wpc'[u] = wpc[u]
        BY <2>1, <3>3 DEF IInv, TypeOK
      <4>2. StoreInv(u)'
        BY <3>1, <4>1 DEF StoreInv, WithStore, Pending, Net
      <4>3. TallyInv(u)'
        BY <1>1, <3>1, <4>1 DEF TallyInv, Healthy, WithStore, Calls, Net
      <4> QED
        BY <4>2, <4>3
    <3> QED
      BY <3>2, <3>3
  <2> QED
    BY <1>2, <1>4, <2>2
<1>6. CASE ~ (SpawnWorker \/ StartWorker0)
  <2>1. UNCHANGED workerVars
    BY <1>6 DEF MainElsewhere, CreateScenario, MainThrows, SpawnThrows, AbortJoin,
                AbortRethrow, FinishWorker0, JoinWorker, StartScan, ScanSlot, RethrowFailure
  <2> QED
    BY <1>1, <1>2, <1>4, <2>1, WorkersMaintained
<1> QED
  BY <1>5, <1>6

\* Where there is an iteration to run, no slot is empty.
LEMMA BusySlot ==
  ASSUME NEW p, WellFormed(p), p.effective <= Larger(p.iterations, 1), p.iterations > 0,
         NEW s \in Nat
  PROVE  SlotCount(p, s) > 0
<1>1. /\ p.iterations \in Nat /\ p.effective \in Nat \ {0} /\ p.base \in Nat
      /\ p.remainder \in Nat /\ p.remainder < p.effective
      /\ p.iterations = p.effective * p.base + p.remainder
  BY DEF WellFormed, PlanType
<1>2. p.effective <= p.iterations
  BY <1>1 DEF Larger
<1>3. CASE p.base = 0
  <2>1. p.effective * p.base = 0
    BY <1>1, <1>3
  <2> QED
    BY <1>1, <1>2, <2>1
<1>4. CASE p.base > 0
  BY <1>1, <1>4 DEF SlotCount
<1> QED
  BY <1>1, <1>3, <1>4

(***************************************************************************)
(* What the collector of a slot without a failure adds to the merge: the   *)
(* whole slot, one setup, and a store that differs by the slot's calls.    *)
(***************************************************************************)
LEMMA SlotTally ==
  ASSUME IInv, MInv, mpc \in {"scan", "merge"}, AllDone(Slots(plan)), NoFailure(Slots(plan)),
         NEW s \in Slots(plan)
  PROVE  /\ tally[s] \in TallyType
         /\ Calls(tally[s]) = SlotCount(plan, s)
         /\ tally[s].timings["maintain"].count = SlotCount(plan, s)
         /\ \A st \in SetupStages : tally[s].setupTimings[st].count = 1
         /\ config.iterations > 0 =>
              tally[s].finalBlocks = initialBlocks + Net(tally[s].counts["succeeded"])
<1>1. s \in Workers /\ s \in Nat /\ WellFormed(plan)
  BY PlanNumbers DEF IInv, Slots
<1>2. SlotRecorded(s)
  BY DoneSlot
<1>3. Healthy(s)
  BY DEF AllDone, NoFailure, Healthy
<1>4. /\ collectors[s].timings = SlotCount(plan, s) /\ collectors[s].outcomes = SlotCount(plan, s)
  BY <1>2 DEF SlotRecorded
<1>5. config.iterations > 0 => SlotCount(plan, s) > 0
  BY <1>1, BusySlot DEF IInv, MInv, PlanInv, BusyInv
<1> QED
  BY <1>1, <1>3, <1>4, <1>5 DEF MInv, TallyInv, MaintenanceTypes

\* Merging the collectors, and the report of the merged one.
LEMMA ResultMaintains ==
  ASSUME IInv, MInv, MaintenanceResult
  PROVE  MInv'
<1> USE DEF MInv
<1>1. UNCHANGED <<config, plan, workerVars, configVars, scenarioVars>>
  BY DEF MaintenanceResult, StartMerge, MergeSlot, ComputeResult
<1>2. \A s \in Workers : StoreInv(s)' /\ TallyInv(s)'
  BY <1>1, WorkersMaintained
<1>3. /\ mpc \in {"scan", "merge"} /\ mpc' \in {"merge", "returned"}
  BY DEF MaintenanceResult, StartMerge, MergeSlot, ComputeResult
<1>4. CapacityInv' /\ BusyInv'
  BY <1>1, <1>3 DEF CapacityInv, CapacityCovered, BusyInv, configVars
<1>5. /\ WellFormed(plan) /\ plan.effective \in Nat \ {0}
      /\ Slots(plan) = 0 .. plan.effective - 1
  BY PlanNumbers DEF IInv, Slots
<1>6. AllDone(Slots(plan)) /\ NoFailure(Slots(plan))
  BY <1>5 DEF IInv, MainInv, MaintenanceResult, StartMerge, MergeSlot, ComputeResult
<1>7. operation' = operation /\ initialBlocks' = initialBlocks /\ initialBlocks \in Nat
      /\ operation \in {"update", "insert", "delete"}
  BY <1>1, MaintenanceAssumption DEF configVars, MaintenanceTypes
<1>8. mergedTally' \in TallyType => MaintenanceTypes'
  BY <1>1 DEF MaintenanceTypes, configVars, scenarioVars
<1>9. CASE StartMerge
  <2>1. mergedTally' = tally[0] /\ cursor' = 1 /\ mpc' = "merge"
    BY <1>9 DEF MaintenanceResult, StartMerge, MergeSlot, ComputeResult
  <2>2. 0 \in Slots(plan)
    BY <1>5
  <2>3. /\ tally[0] \in TallyType
        /\ Calls(tally[0]) = SlotCount(plan, 0)
        /\ tally[0].timings["maintain"].count = SlotCount(plan, 0)
        /\ \A st \in SetupStages : tally[0].setupTimings[st].count = 1
        /\ config.iterations > 0 =>
             tally[0].finalBlocks = initialBlocks + Net(tally[0].counts["succeeded"])
    BY <1>3, <1>6, <2>2, SlotTally
  <2>4. SlotBegin(plan, 1) = SlotCount(plan, 0)
    <3>1. SlotBegin(plan, 0 + 1) = SlotBegin(plan, 0) + SlotCount(plan, 0)
      BY <1>6, <2>2, DoneSlot
    <3>2. SlotBegin(plan, 0) = 0 /\ SlotCount(plan, 0) \in Nat /\ 0 + 1 = 1
      BY <1>5, FirstSlot, SlotNumbers DEF IInv
    <3> QED
      BY <3>1, <3>2
  <2>5. initialBlocks * 1 = initialBlocks
    BY <1>7
  <2>6. MergedInv'
    BY <1>1, <1>5, <1>7, <2>1, <2>3, <2>4, <2>5 DEF MergedInv, Net, Calls
  <2> QED
    BY <1>2, <1>4, <1>8, <2>1, <2>3, <2>6
<1>10. CASE MergeSlot
  <2>1. /\ mergedTally' = Collector!MergeFrom(mergedTally, tally[cursor])
        /\ cursor' = cursor + 1 /\ mpc = "merge" /\ mpc' = "merge" /\ cursor < plan.effective
    BY <1>10 DEF MaintenanceResult, StartMerge, MergeSlot, ComputeResult
  <2>2. /\ cursor \in 1 .. plan.effective
        /\ mergedTally \in TallyType
        /\ Calls(mergedTally) = SlotBegin(plan, cursor)
        /\ mergedTally.timings["maintain"].count = SlotBegin(plan, cursor)
        /\ \A st \in SetupStages : mergedTally.setupTimings[st].count = cursor
        /\ config.iterations > 0 =>
             mergedTally.finalBlocks
               = initialBlocks * cursor + Net(mergedTally.counts["succeeded"])
    BY <2>1 DEF MergedInv, MaintenanceTypes
  <2>3. cursor \in Slots(plan) /\ cursor \in Nat /\ cursor + 1 \in 1 .. plan.effective
    BY <1>5, <2>1, <2>2
  <2>4. /\ tally[cursor] \in TallyType
        /\ Calls(tally[cursor]) = SlotCount(plan, cursor)
        /\ tally[cursor].timings["maintain"].count = SlotCount(plan, cursor)
        /\ \A st \in SetupStages : tally[cursor].setupTimings[st].count = 1
        /\ config.iterations > 0 =>
             tally[cursor].finalBlocks = initialBlocks + Net(tally[cursor].counts["succeeded"])
    BY <1>3, <1>6, <2>3, SlotTally
  <2>5. SlotBegin(plan, cursor + 1) = SlotBegin(plan, cursor) + SlotCount(plan, cursor)
    BY <1>6, <2>3, DoneSlot
  <2>6. /\ mergedTally' \in TallyType
        /\ Calls(mergedTally') = SlotBegin(plan, cursor + 1)
        /\ mergedTally'.timings["maintain"].count = SlotBegin(plan, cursor + 1)
        /\ \A st \in SetupStages : mergedTally'.setupTimings[st].count = cursor + 1
    BY <2>1, <2>2, <2>4, <2>5, MergedTally
  <2>7. config.iterations > 0 =>
          mergedTally'.finalBlocks
            = initialBlocks * (cursor + 1) + Net(mergedTally'.counts["succeeded"])
    <3> SUFFICES ASSUME config.iterations > 0
                 PROVE  mergedTally'.finalBlocks
                          = initialBlocks * (cursor + 1) + Net(mergedTally'.counts["succeeded"])
      OBVIOUS
    <3> DEFINE a == mergedTally.counts["succeeded"]
               b == tally[cursor].counts["succeeded"]
    <3>1. /\ mergedTally'.counts["succeeded"] = a + b
          /\ mergedTally'.finalBlocks = mergedTally.finalBlocks + tally[cursor].finalBlocks
      BY <2>1, <2>2, <2>4, MergedTally
    <3>2. /\ mergedTally.finalBlocks = initialBlocks * cursor + Net(a)
          /\ tally[cursor].finalBlocks = initialBlocks + Net(b)
      BY <2>2, <2>4
    <3>3. a \in Nat /\ b \in Nat
      BY <2>2, <2>4 DEF TallyType, Collector!Counters
    <3> HIDE DEF a, b
    <3>4. initialBlocks * (cursor + 1) = initialBlocks * cursor + initialBlocks
          /\ initialBlocks * cursor \in Nat
      BY <1>7, <2>3, ProductNat, SMT
    <3>5. Net(a + b) = Net(a) + Net(b) /\ Net(a) \in Int /\ Net(b) \in Int
      BY <1>7, <3>3 DEF Net
    <3>6. mergedTally'.finalBlocks = initialBlocks * (cursor + 1) + Net(a + b)
      BY <1>7, <3>1, <3>2, <3>4, <3>5
    <3> QED
      BY <3>1, <3>6
  <2>8. MergedInv'
    BY <1>1, <1>7, <2>1, <2>3, <2>6, <2>7 DEF MergedInv, Net, Calls
  <2> QED
    BY <1>2, <1>4, <1>8, <2>6, <2>8
<1>11. CASE ComputeResult
  <2>1. /\ report' = Collector!FillMaintenance(mergedTally, config.iterations)
        /\ mergedTally' = mergedTally /\ cursor' = cursor
        /\ mpc = "merge" /\ mpc' = "returned" /\ cursor = plan.effective
    BY <1>11 DEF MaintenanceResult, StartMerge, MergeSlot, ComputeResult
  <2>2. MergedInv'
    BY <1>1, <1>7, <2>1 DEF MergedInv, Net, Calls
  <2> QED
    BY <1>2, <1>4, <1>8, <2>1, <2>2 DEF MaintenanceTypes
<1> QED
  BY <1>9, <1>10, <1>11 DEF MaintenanceResult

------------------------------------------------------------------------------
(* The invariant, and what follows from it. *)

\* A step of the composed run keeps MInv.
LEMMA MaintenanceStep ==
  ASSUME IInv, MInv, [NextMaintenance]_allVars
  PROVE  MInv'
<1>1. CASE MaintenanceMain
  BY <1>1, PlanMaintains, ValidateMaintains, ResultMaintains, MainElsewhereMaintains
     DEF MaintenanceMain
<1>2. CASE \E s \in Workers : MaintenanceWorker(s)
  BY <1>2, MaintenanceWorkerStep
<1>3. CASE StrategyReloaded \/ MaintenanceDone \/ UNCHANGED allVars
  <2>1. UNCHANGED <<vars, configVars, scenarioVars, reportVars>>
    BY <1>3 DEF StrategyReloaded, MaintenanceDone, allVars
  <2>2. UNCHANGED <<config, plan, mpc, cursor, workerVars>>
    BY <2>1 DEF vars, mainVars
  <2>3. \A s \in Workers : StoreInv(s)' /\ TallyInv(s)'
    BY <2>1, <2>2, WorkersMaintained
  <2>4. MaintenanceTypes' /\ CapacityInv' /\ BusyInv'
    BY <2>1, <2>2 DEF MInv, MaintenanceTypes, CapacityInv, CapacityCovered, BusyInv, configVars,
                      scenarioVars, reportVars
  <2>5. MergedInv'
    BY <2>1, <2>2 DEF MInv, MergedInv, Net, Calls, configVars, reportVars
  <2> QED
    BY <2>3, <2>4, <2>5 DEF MInv
<1> QED
  BY <1>1, <1>2, <1>3 DEF NextMaintenance

(***************************************************************************)
(* In every reachable state a worker's store differs from the initial one  *)
(* by exactly the calls that succeeded, its collector counts the calls it  *)
(* made, and the merged collector holds the slots merged so far.           *)
(***************************************************************************)
THEOREM MaintenanceInvariant == SpecMaintenance => [](IInv /\ MInv)
<1>1. SpecMaintenance => []IInv
  BY MaintenanceRunsRunner, RunnerInvariant, PTL
<1>2. InitMaintenance => MInv
  BY InitMInv
<1>3. IInv /\ MInv /\ [NextMaintenance]_allVars => MInv'
  BY MaintenanceStep
<1> QED
  BY <1>1, <1>2, <1>3, PTL DEF SpecMaintenance

\* The same of the run inside the executable.
LEMMA AppMaintenanceInvariant == SpecApp => [](IInv /\ MInv)
  BY AppRunsMaintenance, MaintenanceInvariant, PTL

(***************************************************************************)
(* Block indices are legal in the store the operation touches: a Delete    *)
(* never finds its store empty, because validateRun refused a run whose    *)
(* largest slot is larger than a store.                                    *)
(***************************************************************************)
THEOREM LegalIndices == SpecApp => []IndicesLegal
<1>1. IInv /\ MInv => IndicesLegal
  <2> SUFFICES ASSUME IInv, MInv, NEW s \in Workers, wpc[s] = "loop", next[s] < SlotEnd(s)
               PROVE  LegalIndex(s)
    BY DEF IndicesLegal
  <2> DEFINE succeeded == tally[s].counts["succeeded"]
             failed    == tally[s].counts["failed"]
  <2>1. /\ operation \in {"update", "insert", "delete"}
        /\ initialBlocks \in Nat /\ localIteration[s] \in Nat
        /\ succeeded \in Nat /\ failed \in Nat
    BY MaintenanceAssumption DEF MInv, MaintenanceTypes, TallyType, Collector!Counters
  <2>2. Pending(s) = 0
    BY DEF Pending
  <2>3. initialBlocks > 0 /\ store[s] = initialBlocks + Net(succeeded)
    BY <2>1, <2>2 DEF MInv, StoreInv, WithStore
  <2>4. CASE operation = "update"
    <3>1. localIteration[s] % initialBlocks \in 0 .. initialBlocks - 1
      BY <2>1, <2>3, DivisionIdentity
    <3>2. store[s] = initialBlocks
      BY <2>1, <2>3, <2>4 DEF Net
    <3> QED
      BY <2>1, <2>4, <3>1, <3>2 DEF LegalIndex, BlockIndex
  <2>5. CASE operation = "insert"
    BY <2>1, <2>3, <2>5 DEF LegalIndex, BlockIndex, Net
  <2>6. CASE operation = "delete"
    <3>1. succeeded + failed = collectors[s].outcomes
      BY DEF MInv, TallyInv, Healthy, WithStore, Calls
    <3>2. /\ WellFormed(plan) /\ s \in Nat
          /\ SlotBegin(plan, s) \in Nat /\ SlotCount(plan, s) \in Nat
      BY SlotNumbers, PlanNumbers, RunnerAssumption DEF IInv, Workers
    <3>3. /\ collectors[s].outcomes = next[s] - SlotBegin(plan, s)
          /\ next[s] < SlotBegin(plan, s) + SlotCount(plan, s) /\ next[s] \in Nat
      BY DEF IInv, WorkerInv, SlotEnd, TypeOK
    <3>4. LargestSlotCount(plan) \in Nat /\ SlotCount(plan, s) <= LargestSlotCount(plan)
      BY <3>2 DEF LargestSlotCount, SlotCount, WellFormed, PlanType
    <3>5. mpc \notin {"create", "plan", "validate", "thrown"}
      BY DEF IInv, MainInv, Started
    <3>6. initialBlocks >= LargestSlotCount(plan)
      BY <2>6, <3>5 DEF MInv, CapacityInv, CapacityCovered
    <3>7. store[s] = initialBlocks - succeeded
      BY <2>1, <2>3, <2>6 DEF Net
    <3>8. store[s] \in 1 .. store[s]
      BY <2>1, <3>1, <3>2, <3>3, <3>4, <3>6, <3>7
    <3> QED
      BY <2>6, <3>8 DEF LegalIndex, BlockIndex
  <2> QED
    BY <2>1, <2>4, <2>5, <2>6
<1> QED
  BY <1>1, AppMaintenanceInvariant, PTL

\* The merged collector of a result: all slots, and so all configured iterations.
LEMMA ReturnedTally ==
  ASSUME IInv, MInv, mpc = "returned"
  PROVE  /\ report = Collector!FillMaintenance(mergedTally, config.iterations)
         /\ Calls(mergedTally) = config.iterations
         /\ mergedTally.timings["maintain"].count = config.iterations
         /\ \A st \in SetupStages : mergedTally.setupTimings[st].count = plan.effective
         /\ config.iterations > 0 =>
              mergedTally.finalBlocks
                = initialBlocks * plan.effective + Net(mergedTally.counts["succeeded"])
<1>1. SlotBegin(plan, plan.effective) = config.iterations
  BY PlanNumbers, LastSlot DEF IInv, PlanInv
<1>2. cursor = plan.effective
  BY DEF MInv, MergedInv
<1> QED
  BY <1>1, <1>2 DEF MInv, MergedInv

(***************************************************************************)
(* Successes and failures of a result add up to the configured iterations, *)
(* each with one timed call, however the iterations were split.            *)
(***************************************************************************)
THEOREM CallsAreAccounted == SpecApp => []CallsAccounted
<1>1. IInv /\ MInv => CallsAccounted
  BY ReturnedTally DEF CallsAccounted, Calls, Collector!FillMaintenance, Collector!FillCommon
<1> QED
  BY <1>1, AppMaintenanceInvariant, PTL

(***************************************************************************)
(* The blocks of a result are those of all workers' initial stores, plus   *)
(* the successful inserts, minus the successful deletes.                   *)
(***************************************************************************)
THEOREM FinalBlocksIdentity == SpecApp => []FinalBlockIdentity
<1>1. IInv /\ MInv => FinalBlockIdentity
  <2> SUFFICES ASSUME IInv, MInv, mpc = "returned", config.iterations > 0
               PROVE  report.finalBlocks = FinalBlocksExpected
    BY DEF FinalBlockIdentity
  <2>1. /\ report.finalBlocks = mergedTally.finalBlocks
        /\ report.succeeded = mergedTally.counts["succeeded"]
    BY ReturnedTally DEF Collector!FillMaintenance
  <2>2. mergedTally.finalBlocks
          = initialBlocks * plan.effective + Net(mergedTally.counts["succeeded"])
    BY ReturnedTally
  <2> QED
    BY <2>1, <2>2 DEF FinalBlocksExpected, Net
<1> QED
  BY <1>1, AppMaintenanceInvariant, PTL

\* Each slot's setup was measured, once, whenever the library was reloaded.
THEOREM SetupsMeasured == SpecApp => []SetupMeasuredPerWorker
<1>1. IInv /\ MInv => SetupMeasuredPerWorker
  BY ReturnedTally DEF SetupMeasuredPerWorker, SetupStages, Collector!FillMaintenance,
                       Collector!FillCommon
<1> QED
  BY <1>1, AppMaintenanceInvariant, PTL

------------------------------------------------------------------------------
(* The executable. *)

\* Main's steps keep AppInv: each is about its own place in main.
LEMMA AppStep ==
  ASSUME AppInv, [NextApp]_<<allVars, appVars>>
  PROVE  AppInv'
<1> USE DEF AppInv
<1>1. CASE ScanOptions \/ LoadStrategies \/ LoadFails \/ CheckStrategy
  BY <1>1 DEF ScanOptions, LoadStrategies, LoadFails, CheckStrategy, ExitWith, Proceed,
              allVars, vars, mainVars, reportVars
<1>2. CASE ReloadedBeforeRun
  BY <1>2 DEF ReloadedBeforeRun, StrategyReloaded, appVars, vars, mainVars, reportVars
<1>3. CASE RunSingle
  <2>1. apc' = "run" /\ code' = "none"
    BY <1>3 DEF RunSingle, appVars
  <2> QED
    BY <2>1
<1>4. CASE RunFails \/ PrintConsole \/ WriteReport \/ StopWatching
  BY <1>4 DEF RunFails, PrintConsole, WriteReport, StopWatching, ExitWith, Proceed,
              allVars, vars, mainVars, reportVars
<1>5. CASE AppDone \/ UNCHANGED <<allVars, appVars>>
  BY <1>5 DEF AppDone, appVars, allVars, vars, mainVars, reportVars
<1> QED
  BY <1>1, <1>2, <1>3, <1>4, <1>5 DEF NextApp

\* Main's place, its exit code and what the run has come to fit each other.
THEOREM AppInvariant == SpecApp => []AppInv
<1>1. InitApp => AppInv
  BY DEF InitApp, InitMaintenance, Init, AppInv
<1>2. AppInv /\ [NextApp]_<<allVars, appVars>> => AppInv'
  BY AppStep
<1> QED
  BY <1>1, <1>2, PTL DEF SpecApp

(***************************************************************************)
(* The exit code tells what happened, and no worker runs when the process  *)
(* exits (dynamic_maintenance_benchmark_main.cpp:25-27).                   *)
(***************************************************************************)
THEOREM ExitCodeIsTrue == SpecApp => []ExitCodeTells
<1>1. IInv /\ MInv /\ AppInv => ExitCodeTells
  <2> SUFFICES ASSUME IInv, MInv, AppInv PROVE ExitCodeTells
    OBVIOUS
  <2>1. ASSUME mpc = "returned"
        PROVE  /\ report.succeeded + report.failed = config.iterations
               /\ report.succeeded \in Nat /\ report.failed \in Nat
    <3>1. /\ report.succeeded = mergedTally.counts["succeeded"]
          /\ report.failed = mergedTally.counts["failed"]
      BY <2>1, ReturnedTally DEF Collector!FillMaintenance
    <3>2. {mergedTally.counts["succeeded"], mergedTally.counts["failed"]} \subseteq Nat
      BY DEF MInv, MaintenanceTypes, TallyType, Collector!Counters
    <3> QED
      BY <2>1, <3>1, <3>2, ReturnedTally DEF Calls
  <2>2. config.iterations \in Nat
    BY RunnerAssumption DEF IInv, TypeOK
  <2>3. code # "none" => mpc \in {"create", "thrown", "returned"}
    BY DEF AppInv
  <2>4. code # "none" => \A s \in Workers : wpc[s] \in {"idle", "done"}
    BY <2>3 DEF IInv, MainInv, Started, AllDone
  <2>5. code = "0" /\ argv # "help" =>
          /\ mpc = "returned" /\ report.succeeded = config.iterations /\ report.failed = 0
          /\ printed /\ json # "refused" /\ ~ watching
    BY <2>1, <2>2 DEF AppInv
  <2> QED
    BY <2>4, <2>5 DEF AppInv, ExitCodeTells
<1> QED
  BY <1>1, AppMaintenanceInvariant, AppInvariant, PTL
==============================================================================
