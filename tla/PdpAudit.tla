------------------------------- MODULE PdpAudit -------------------------------
(***************************************************************************)
(* PdpAuditScenario (pdp_audit_scenario.cpp) run by BenchmarkRunner: every *)
(* worker makes the same file and its tags, damages the copy it will prove *)
(* from, and each iteration challenges a sample of the blocks.             *)
(*                                                                         *)
(* A static strategy is audited with blocks whose content was flipped, a   *)
(* dynamic one with blocks whose version in the StateStore moved on.  The  *)
(* engine belongs to a library: a challenge is any set of sampleSize       *)
(* blocks, and the verification of its proof fails exactly if a challenged *)
(* block is not the one its tag was made from.  Which of its messages it   *)
(* leaves behind to be measured is its own affair, at every call.  No      *)
(* library is reloaded during a run here: the executable drops its hot     *)
(* loader before it.                                                       *)
(***************************************************************************)
EXTENDS BenchmarkRunner, FiniteSetsExt

CONSTANTS
  Files,         \* values of config.totalBlocks
  Corruptions,   \* values of config.corruptedBlocks
  Samples,       \* values of config.sampleSize
  BlockSizes     \* values of config.blockSize

ASSUME PdpAssumption ==
  /\ Files \subseteq Nat /\ Corruptions \subseteq Nat
  /\ Samples \subseteq Nat /\ BlockSizes \subseteq Nat

SetupStages     == {"initAlgorithm", "generateKeys", "generateTags"}
IterationStages == {"generateChallenges", "generateProofs", "verifyProofs"}

SetupMessages     == {"tags"}
IterationMessages == {"challenge", "proof"}
MessageKinds      == SetupMessages \cup IterationMessages

Collector == INSTANCE MetricsCollector WITH
  Stages   <- SetupStages \cup IterationStages,
  Messages <- MessageKinds

VARIABLES
  kind,           \* what the algorithm's name resolves to: "static", "dynamic", "none"
  audit,          \* the PdpAuditConfig: total, corrupted, sample, blockSize
  chosen,         \* 0-based indices the seeded shuffle puts first, in every worker
  scenario,       \* each worker's ctx_: flipped blocks, versions, tagged versions
  lastDetected,   \* lastDetected_
  tally,          \* each worker's MetricsCollector
  mergedTally,    \* the merged one
  report,         \* the PdpAuditResult, once computed
  struck,         \* history: whether a worker's last challenge met a damaged block
  strikes,        \* history: recorded iterations whose challenge did
  sent            \* history: messages the engine left behind, by kind

configVars   == <<kind, audit, chosen>>
scenarioVars == <<scenario, lastDetected, tally>>
reportVars   == <<mergedTally, report>>
history      == <<struck, strikes, sent>>
allVars      == <<vars, configVars, scenarioVars, reportVars, history>>

\* min(t, blockCount): no more blocks are damaged than there are.
Damaged == IF audit.corrupted < audit.total THEN audit.corrupted ELSE audit.total

\* No file: before setup and after teardown.  Versions belong to dynamic strategies.
NoFile == [ flipped |-> {}, versions |-> <<>>, tagged |-> <<>> ]

NoReport == Collector!FillPdp(Collector!Fresh, 0)

InitAudit ==
  /\ Init
  /\ kind \in {"static", "dynamic", "none"}
  /\ audit \in [ total : Files, corrupted : Corruptions, sample : Samples, blockSize : BlockSizes ]
  /\ chosen \in kSubset(Damaged, 0 .. audit.total - 1)
  /\ scenario     = [ s \in Workers |-> NoFile ]
  /\ lastDetected = [ s \in Workers |-> FALSE ]
  /\ tally        = [ s \in Workers |-> Collector!Fresh ]
  /\ mergedTally  = Collector!Fresh
  /\ report       = NoReport
  /\ struck       = [ s \in Workers |-> FALSE ]
  /\ strikes      = 0
  /\ sent         = [ m \in MessageKinds |-> 0 ]

------------------------------------------------------------------------------
(* Planning. *)

SupportsParallelIterations == kind # "none"

AuditPlan ==
  /\ MakePlan
  /\ LET balanced == Balanced(config.iterations, config.threads)
     IN  plan' = IF balanced.effective > 1 /\ ~ SupportsParallelIterations
                 THEN AsSingleWorker(balanced) ELSE balanced
  /\ UNCHANGED <<configVars, scenarioVars, reportVars, history>>

------------------------------------------------------------------------------
(* The life of a scenario. *)

OneCall(stages) ==
  [ st \in SetupStages \cup IterationStages |->
      IF st \in stages THEN Collector!Measured(1, 1) ELSE Collector!NoMetric ]

\* A message is measured if the engine left one behind.  Sizes in bytes are left
\* out; a message is a message.
OneMessage(kinds) ==
  [ m \in MessageKinds |->
      IF m \in kinds THEN Collector!Measured(1, 1) ELSE Collector!NoMetric ]

\* The history takes note of the messages left behind.
Noted(kinds) == [ m \in MessageKinds |-> sent[m] + (IF m \in kinds THEN 1 ELSE 0) ]

\* addFile starts every block of the file at the same version.
FirstVersions == IF kind = "dynamic" THEN [ i \in 1 .. audit.total |-> 1 ] ELSE <<>>

\* Blocks, then keys, then the StateStore, then tags of the undamaged file.
SetupAudit(s) ==
  /\ Setup(s)
  /\ kind # "none"
  /\ scenario' = [ scenario EXCEPT ![s] =
       [ flipped |-> {}, versions |-> FirstVersions, tagged |-> FirstVersions ] ]
  /\ \E kinds \in SUBSET SetupMessages :
       /\ tally' = [ tally EXCEPT ![s] =
            Collector!RecordSetupMessageSizes(
              Collector!RecordSetupTimings(@, OneCall(SetupStages)), OneMessage(kinds)) ]
       /\ sent' = Noted(kinds)
  /\ UNCHANGED <<configVars, lastDetected, reportVars, struck, strikes>>

\* Mutated form of CorruptBlocks: proofs are made from the original blocks.
CorruptBlocksLost(file) == file

\* corruptBlocks flips a bit of the first byte of each chosen block, if it has a byte.
CorruptBlocks(file) ==
  [ file EXCEPT !.flipped = IF audit.blockSize > 0 THEN chosen ELSE {} ]

\* Mutated form of MarkStaleVersions: the 0-based index is handed to the StateStore.
MarkStaleVersionsUnshifted(file) ==
  [ file EXCEPT !.versions = [ i \in DOMAIN @ |-> IF i \in chosen THEN @[i] + 1 ELSE @[i] ] ]

\* markStaleVersions bumps the version of each chosen block; StateStores count from 1.
MarkStaleVersions(file) ==
  [ file EXCEPT !.versions = [ i \in DOMAIN @ |-> IF i - 1 \in chosen THEN @[i] + 1 ELSE @[i] ] ]

\* prepare damages the file the way that suits the strategy, nothing for t = 0.
PrepareAudit(s) ==
  /\ Prepare(s)
  /\ scenario' = [ scenario EXCEPT ![s] =
       IF audit.corrupted = 0 THEN @
       ELSE IF kind = "dynamic" THEN MarkStaleVersions(@) ELSE CorruptBlocks(@) ]
  /\ UNCHANGED <<configVars, lastDetected, tally, reportVars, history>>

\* Blocks, by 0-based index, that are not what their tags were made from.
Mismatched(file) ==
  file.flipped \cup { i - 1 : i \in { j \in DOMAIN file.versions :
                                        file.versions[j] # file.tagged[j] } }

\* A sample without replacement; a size the file does not have is cut or refused.
Challenges ==
  kSubset(IF audit.sample < audit.total THEN audit.sample ELSE audit.total,
          0 .. audit.total - 1)

\* Mutated form of Verdict: a detection is never taken back.
VerdictKept(s, met) == lastDetected[s] \/ met

\* A detection is a verification that is not ok, of this iteration's proof.
Verdict(s, met) == met

RunAudit(s) ==
  /\ RunIteration(s)
  /\ \E met \in { challenge \cap Mismatched(scenario[s]) # {} : challenge \in Challenges } :
       /\ lastDetected' = [ lastDetected EXCEPT ![s] = Verdict(s, met) ]
       /\ struck' = [ struck EXCEPT ![s] = met ]
  /\ \E kinds \in SUBSET IterationMessages :
       /\ tally' = [ tally EXCEPT ![s] =
            Collector!RecordMessageSizes(
              Collector!RecordTimings(@, OneCall(IterationStages)), OneMessage(kinds)) ]
       /\ sent' = Noted(kinds)
  /\ UNCHANGED <<configVars, scenario, reportVars, strikes>>

RecordAudit(s) ==
  /\ RecordIteration(s)
  /\ tally' = [ tally EXCEPT ![s] = Collector!RecordOutcome(@, lastDetected[s]) ]
  /\ strikes' = strikes + (IF struck[s] THEN 1 ELSE 0)
  /\ UNCHANGED <<configVars, scenario, lastDetected, reportVars, struck, sent>>

\* Setup throws without a strategy or in the engine, prepare in the StateStore,
\* an iteration in the engine.
AuditThrows(s) ==
  /\ \/ CallThrows(s, "setup")
     \/ kind = "dynamic" /\ audit.corrupted > 0 /\ CallThrows(s, "prepare")
     \/ CallThrows(s, "iteration")
  /\ UNCHANGED <<configVars, scenarioVars, reportVars, history>>

TeardownAudit(s) ==
  /\ Teardown(s) \/ Cleanup(s)
  /\ scenario' = [ scenario EXCEPT ![s] = NoFile ]
  /\ lastDetected' = [ lastDetected EXCEPT ![s] = FALSE ]
  /\ UNCHANGED <<configVars, tally, reportVars, history>>

AuditWorker(s) ==
  \/ SetupAudit(s) \/ PrepareAudit(s) \/ RunAudit(s) \/ RecordAudit(s)
  \/ AuditThrows(s) \/ TeardownAudit(s)
  \/ /\ WorkerCreate(s) \/ WorkerCreateThrows(s)
     /\ UNCHANGED <<configVars, scenarioVars, reportVars, history>>

------------------------------------------------------------------------------
(* Merging and reporting. *)

AuditResult ==
  /\ \/ StartMerge /\ mergedTally' = tally[0] /\ UNCHANGED report
     \/ MergeSlot /\ mergedTally' = Collector!MergeFrom(mergedTally, tally[cursor])
                  /\ UNCHANGED report
     \/ ComputeResult /\ report' = Collector!FillPdp(mergedTally, config.iterations)
                      /\ UNCHANGED mergedTally
  /\ UNCHANGED <<configVars, scenarioVars, history>>

\* The scenario does not override validateRun: nothing is rejected.
AuditMain ==
  \/ AuditPlan \/ AuditResult
  \/ /\ \/ CreateScenario \/ ValidateRun \/ MainThrows("create") \/ MainThrows("probe")
        \/ SpawnWorker \/ SpawnThrows \/ AbortJoin \/ AbortRethrow
        \/ StartWorker0 \/ FinishWorker0 \/ JoinWorker
        \/ StartScan \/ ScanSlot \/ RethrowFailure
     /\ UNCHANGED <<configVars, scenarioVars, reportVars, history>>

AuditDone == Ended /\ UNCHANGED allVars

NextAudit == AuditMain \/ (\E s \in Workers : AuditWorker(s)) \/ AuditDone

SpecAudit == InitAudit /\ [][NextAudit]_allVars

------------------------------------------------------------------------------
(* Properties. *)

(***************************************************************************)
(* Every iteration audits a file in which exactly the configured number of *)
(* blocks, all of them if there are fewer, disagrees with its tags: in     *)
(* every worker, whatever the kind of strategy, and however many audits    *)
(* went before (prepareCorruption).  Blocks without a byte cannot differ.  *)
(***************************************************************************)
DamagedAsConfigured ==
  \A s \in Workers : wpc[s] \in {"loop", "record"} =>
    Cardinality(Mismatched(scenario[s]))
      = (IF kind = "static" /\ audit.blockSize = 0 THEN 0 ELSE Damaged)

(***************************************************************************)
(* Where theory is certain, so is the benchmark: without a corrupted block *)
(* no iteration of a result detects anything, and with more blocks in the  *)
(* challenge than are intact all do (theoreticalConfidenceRate is 0 and 1  *)
(* there), whichever workers ran them.                                     *)
(***************************************************************************)
CertaintyIsObserved ==
  mpc = "returned" /\ (kind = "static" => audit.blockSize > 0) =>
    /\ audit.corrupted = 0 => report.detections = 0
    /\ audit.corrupted > 0 /\ audit.total > 0 /\ audit.sample > audit.total - Damaged =>
         report.detections = config.iterations

(***************************************************************************)
(* Every reported detection is a challenge that met a damaged block, of an *)
(* iteration of this run, and each configured iteration was timed once in  *)
(* every stage.  The reported traffic is that of the messages the engine   *)
(* left behind in this run, whichever worker met them: none lost by the    *)
(* merge, none counted twice, at most one of a kind in an iteration; and   *)
(* tags are traffic of the setups alone, one per worker at most            *)
(* (recordIteration, recordMessageSizes, mergeFrom).                       *)
(***************************************************************************)
AuditsAccounted ==
  mpc = "returned" =>
    /\ report.detections = strikes
    /\ \A st \in IterationStages : report.common.timings[st].count = config.iterations
    /\ \A m \in IterationMessages : /\ report.common.sizes[m].count = sent[m]
                                   /\ sent[m] <= config.iterations
    /\ \A m \in SetupMessages : /\ report.common.setupSizes[m].count = sent[m]
                               /\ sent[m] <= plan.effective
                               /\ report.common.sizes[m].count = 0
==============================================================================
