----------------------------- MODULE PdpAuditProofs -----------------------------
(***************************************************************************)
(* The audit benchmark for every set of configurations and every number of *)
(* workers.  Its runs are runs of BenchmarkRunner, so the runner's         *)
(* theorems hold of them; AInv is inductive beside the runner's invariant. *)
(***************************************************************************)
EXTENDS PdpAuditInv, BenchmarkRunnerProofs, FiniteSetTheorems

------------------------------------------------------------------------------
(* The collector's recorders. *)

\* Normalizing keeps the total and the count of a metric.
LEMMA AddMetric ==
  ASSUME NEW m \in MetricType, NEW n \in MetricType
  PROVE  /\ Collector!Add(m, n) \in MetricType
         /\ Collector!Add(m, n).count = m.count + n.count
<1> DEFINE total   == m.total + n.total
           count   == m.count + n.count
           sum     == [ m EXCEPT !.total = total, !.count = count ]
           average == Collector!Fraction(sum.total, sum.count)
<1>1. total \in Nat /\ count \in Nat
  BY DEF MetricType
<1>2. Collector!Add(m, n) = [ sum EXCEPT !.average = average ]
  BY DEF Collector!Add, Collector!Normalize
<1> HIDE DEF total, count
<1>3. sum \in MetricType /\ sum.count = count
  BY <1>1 DEF MetricType
<1> HIDE DEF sum
<1>4. average \in Nat \X Nat
  BY <1>3 DEF Collector!Fraction, MetricType
<1> HIDE DEF average
<1> QED
  BY <1>2, <1>3, <1>4 DEF MetricType, count

\* Normalizing alone keeps the count as well.
LEMMA NormalizedMetric ==
  ASSUME NEW m \in MetricType
  PROVE  Collector!Normalize(m) \in MetricType /\ Collector!Normalize(m).count = m.count
  BY DEF Collector!Normalize, Collector!Fraction, MetricType

\* A metric of one call or message, and one of none.
LEMMA UnitMetrics ==
  /\ Collector!Measured(1, 1) \in MetricType /\ Collector!Measured(1, 1).count = 1
  /\ Collector!NoMetric \in MetricType /\ Collector!NoMetric.count = 0
  BY DEF MetricType, Collector!Measured, Collector!Fraction, Collector!NoMetric

\* A stage that is called is counted once, another one not at all.
LEMMA OneCallMetrics ==
  ASSUME NEW stages \in SUBSET Stages
  PROVE  /\ OneCall(stages) \in [ Stages -> MetricType ]
         /\ \A st \in Stages : OneCall(stages)[st].count = IF st \in stages THEN 1 ELSE 0
  BY UnitMetrics DEF OneCall, Stages

\* A message that is sent is counted once, another one not at all.
LEMMA OneMessageMetrics ==
  ASSUME NEW kinds \in SUBSET MessageKinds
  PROVE  /\ OneMessage(kinds) \in [ MessageKinds -> MetricType ]
         /\ \A m \in MessageKinds : OneMessage(kinds)[m].count = IF m \in kinds THEN 1 ELSE 0
  BY UnitMetrics DEF OneMessage, MessageKinds

\* A new collector holds nothing.
LEMMA FreshTally ==
  /\ Collector!Fresh \in TallyType
  /\ Collector!Fresh.counts["detections"] = 0
  /\ \A st \in Stages : Collector!Fresh.timings[st].count = 0
  /\ \A m \in MessageKinds : Collector!Fresh.sizes[m].count = 0
  /\ \A m \in MessageKinds : Collector!Fresh.setupSizes[m].count = 0
  /\ ~ Collector!Fresh.setupTimingsRecorded
  /\ ~ Collector!Fresh.setupSizesRecorded
<1>1. Collector!Fresh.counts \in [ Collector!Counters -> Nat ]
      /\ Collector!Fresh.counts["detections"] = 0
  BY DEF Collector!Fresh, Collector!Counters
<1>2. Collector!NoTimings \in [ Stages -> MetricType ]
      /\ \A st \in Stages : Collector!NoTimings[st].count = 0
  BY UnitMetrics DEF Collector!NoTimings, Stages
<1>3. Collector!NoSizes \in [ MessageKinds -> MetricType ]
      /\ \A m \in MessageKinds : Collector!NoSizes[m].count = 0
  BY UnitMetrics DEF Collector!NoSizes, MessageKinds
<1> QED
  BY <1>1, <1>2, <1>3 DEF Collector!Fresh, TallyType

\* recordIteration's outcome: a detection counts, and nothing else changes.
LEMMA OutcomeTally ==
  ASSUME NEW c \in TallyType, NEW detected \in BOOLEAN,
         NEW d, d = Collector!RecordOutcome(c, detected)
  PROVE  /\ d \in TallyType
         /\ d.counts["detections"] = c.counts["detections"] + IF detected THEN 1 ELSE 0
         /\ d.timings = c.timings /\ d.sizes = c.sizes /\ d.setupSizes = c.setupSizes
<1> DEFINE names == IF detected THEN {"iterations", "detections"} ELSE {"iterations"}
           counts == [ k \in Collector!Counters |-> c.counts[k] + (IF k \in names THEN 1 ELSE 0) ]
<1>1. d = [ c EXCEPT !.counts = counts ]
  BY DEF Collector!RecordOutcome, Collector!Increment
<1>2. c.counts \in [ Collector!Counters -> Nat ]
  BY DEF TallyType
<1>3. counts \in [ Collector!Counters -> Nat ]
  BY <1>2
<1>4. counts["detections"] = c.counts["detections"] + IF detected THEN 1 ELSE 0
  BY <1>2 DEF Collector!Counters
<1> HIDE DEF counts
<1> QED
  BY <1>1, <1>3, <1>4 DEF TallyType

\* An iteration's records: one call of each of its stages, one message of each kind left.
LEMMA IterationTally ==
  ASSUME NEW c \in TallyType, NEW kinds \in SUBSET IterationMessages,
         NEW d, d = Collector!RecordMessageSizes(
                      Collector!RecordTimings(c, OneCall(IterationStages)), OneMessage(kinds))
  PROVE  /\ d \in TallyType
         /\ \A st \in IterationStages : d.timings[st].count = c.timings[st].count + 1
         /\ \A m \in MessageKinds :
              d.sizes[m].count = c.sizes[m].count + (IF m \in kinds THEN 1 ELSE 0)
         /\ d.counts = c.counts /\ d.setupSizes = c.setupSizes
<1> DEFINE one     == OneCall(IterationStages)
           message == OneMessage(kinds)
           timings == [ st \in Stages |-> Collector!Add(c.timings[st], one[st]) ]
           added   == [ m \in MessageKinds |-> Collector!Add(c.sizes[m], message[m]) ]
           sizes   == [ added EXCEPT !["tags"] = c.sizes["tags"] ]
           timed   == [ c EXCEPT !.timings = timings ]
<1>1. /\ one \in [ Stages -> MetricType ]
      /\ \A st \in IterationStages : one[st].count = 1
  BY OneCallMetrics DEF Stages
<1>2. /\ message \in [ MessageKinds -> MetricType ]
      /\ \A m \in MessageKinds : message[m].count = IF m \in kinds THEN 1 ELSE 0
  BY OneMessageMetrics DEF MessageKinds
<1>3. /\ c.timings \in [ Stages -> MetricType ]
      /\ c.sizes \in [ MessageKinds -> MetricType ]
  BY DEF TallyType
<1> HIDE DEF one, message
<1>4. timings \in [ Stages -> MetricType ]
      /\ \A st \in IterationStages : timings[st].count = c.timings[st].count + 1
  BY <1>1, <1>3, AddMetric DEF Stages
<1>5. added \in [ MessageKinds -> MetricType ]
      /\ \A m \in MessageKinds :
           added[m].count = c.sizes[m].count + (IF m \in kinds THEN 1 ELSE 0)
  BY <1>2, <1>3, AddMetric
<1>6. Collector!RecordTimings(c, one) = timed
  BY DEF Collector!RecordTimings, Collector!AddTimings, Stages
<1>7. Collector!AddSizes(c.sizes, message) = added
  BY DEF Collector!AddSizes
<1> HIDE DEF timings, added
<1>8. /\ sizes \in [ MessageKinds -> MetricType ]
      /\ \A m \in MessageKinds :
           sizes[m].count = c.sizes[m].count + (IF m \in kinds THEN 1 ELSE 0)
  <2>1. "tags" \in MessageKinds /\ "tags" \notin kinds
    BY DEF MessageKinds, SetupMessages, IterationMessages
  <2>2. c.sizes["tags"] \in MetricType
    BY <1>3, <2>1
  <2>3. \A m \in MessageKinds : sizes[m] = IF m = "tags" THEN c.sizes["tags"] ELSE added[m]
    BY <1>5
  <2>4. sizes \in [ MessageKinds -> MetricType ]
    BY <1>5, <2>2
  <2> HIDE DEF sizes
  <2> QED
    BY <1>5, <2>1, <2>2, <2>3, <2>4 DEF MetricType
<1>9. timed \in TallyType /\ timed.timings = timings /\ timed.sizes = c.sizes
      /\ timed.counts = c.counts /\ timed.setupSizes = c.setupSizes
  BY <1>4 DEF TallyType
<1>10. d = [ timed EXCEPT !.sizes = sizes ]
  BY <1>6, <1>7, <1>9 DEF Collector!RecordMessageSizes, one, message
<1> HIDE DEF timed, sizes
<1> QED
  BY <1>4, <1>8, <1>9, <1>10 DEF TallyType

\* The setup records of a worker that has none: tags, if left, are one message.
LEMMA SetupTally ==
  ASSUME NEW kinds \in SUBSET SetupMessages,
         NEW d, d = Collector!RecordSetupMessageSizes(
                      Collector!RecordSetupTimings(Collector!Fresh, OneCall(SetupStages)),
                      OneMessage(kinds))
  PROVE  /\ d \in TallyType
         /\ \A m \in SetupMessages :
              d.setupSizes[m].count = IF m \in kinds THEN 1 ELSE 0
         /\ d.counts = Collector!Fresh.counts /\ d.timings = Collector!Fresh.timings
         /\ d.sizes = Collector!Fresh.sizes
<1> DEFINE fresh   == Collector!Fresh
           once    == OneCall(SetupStages)
           tags    == OneMessage(kinds)
           timings == [ st \in Stages |-> Collector!Normalize(once[st]) ]
           sizes   == [ m \in MessageKinds |->
                          IF m = "tags" THEN tags[m] ELSE Collector!Normalize(tags[m]) ]
<1>1. once \in [ Stages -> MetricType ]
  BY OneCallMetrics DEF Stages
<1>2. /\ tags \in [ MessageKinds -> MetricType ]
      /\ \A m \in SetupMessages : tags[m].count = IF m \in kinds THEN 1 ELSE 0
  BY OneMessageMetrics DEF MessageKinds
<1> HIDE DEF once, tags
<1>3. timings \in [ Stages -> MetricType ]
  BY <1>1, NormalizedMetric
<1>4. /\ sizes \in [ MessageKinds -> MetricType ]
      /\ \A m \in SetupMessages : sizes[m].count = IF m \in kinds THEN 1 ELSE 0
  BY <1>2, NormalizedMetric DEF MessageKinds, SetupMessages
<1>5. fresh \in TallyType /\ ~ fresh.setupTimingsRecorded /\ ~ fresh.setupSizesRecorded
  BY FreshTally
<1>6. /\ Collector!NormalizeTimings(once) = timings
      /\ Collector!NormalizeSizes(tags) = sizes
  BY DEF Collector!NormalizeTimings, Collector!NormalizeSizes, Stages, MessageKinds
<1> HIDE DEF timings, sizes, fresh
<1> DEFINE c == [ fresh EXCEPT !.setupTimings = timings, !.setupTimingsRecorded = TRUE ]
<1>7. Collector!RecordSetupTimings(fresh, once) = c
  BY <1>5, <1>6 DEF Collector!RecordSetupTimings
<1>8. /\ c \in TallyType /\ ~ c.setupSizesRecorded
      /\ c.counts = fresh.counts /\ c.timings = fresh.timings /\ c.sizes = fresh.sizes
  BY <1>3, <1>5 DEF TallyType
<1> HIDE DEF c
<1>9. d = [ c EXCEPT !.setupSizes = sizes, !.setupSizesRecorded = TRUE ]
  BY <1>6, <1>7, <1>8 DEF Collector!RecordSetupMessageSizes, fresh, once, tags
<1> QED
  BY <1>4, <1>8, <1>9 DEF TallyType, fresh

\* Merging adds the counts of timings, messages, setup messages and detections.
LEMMA MergedTally ==
  ASSUME NEW c \in TallyType, NEW o \in TallyType, NEW d, d = Collector!MergeFrom(c, o)
  PROVE  /\ d \in TallyType
         /\ d.counts["detections"] = c.counts["detections"] + o.counts["detections"]
         /\ \A st \in Stages : d.timings[st].count = c.timings[st].count + o.timings[st].count
         /\ \A m \in MessageKinds : d.sizes[m].count = c.sizes[m].count + o.sizes[m].count
         /\ \A m \in MessageKinds :
              d.setupSizes[m].count = c.setupSizes[m].count + o.setupSizes[m].count
<1> DEFINE counts  == [ k \in Collector!Counters |-> c.counts[k] + o.counts[k] ]
           setupT  == [ st \in Stages |-> Collector!Add(c.setupTimings[st], o.setupTimings[st]) ]
           setupS  == [ m \in MessageKinds |-> Collector!Add(c.setupSizes[m], o.setupSizes[m]) ]
           timings == [ st \in Stages |-> Collector!Add(c.timings[st], o.timings[st]) ]
           sizes   == [ m \in MessageKinds |-> Collector!Add(c.sizes[m], o.sizes[m]) ]
<1>1. d = [ counts               |-> counts,
            finalBlocks          |-> c.finalBlocks + o.finalBlocks,
            setupTimings         |-> setupT,
            setupSizes           |-> setupS,
            setupTimingsRecorded |-> c.setupTimingsRecorded \/ o.setupTimingsRecorded,
            setupSizesRecorded   |-> c.setupSizesRecorded \/ o.setupSizesRecorded,
            timings              |-> timings,
            sizes                |-> sizes,
            memoryPeak           |-> IF c.memoryPeak >= o.memoryPeak
                                     THEN c.memoryPeak ELSE o.memoryPeak ]
  BY DEF Collector!MergeFrom, Collector!AddTimings, Collector!AddSizes, Stages, MessageKinds
<1>2. /\ c.counts \in [ Collector!Counters -> Nat ] /\ o.counts \in [ Collector!Counters -> Nat ]
      /\ c.setupTimings \in [ Stages -> MetricType ] /\ o.setupTimings \in [ Stages -> MetricType ]
      /\ c.timings \in [ Stages -> MetricType ] /\ o.timings \in [ Stages -> MetricType ]
      /\ c.setupSizes \in [ MessageKinds -> MetricType ]
      /\ o.setupSizes \in [ MessageKinds -> MetricType ]
      /\ c.sizes \in [ MessageKinds -> MetricType ] /\ o.sizes \in [ MessageKinds -> MetricType ]
  BY DEF TallyType
<1>3. /\ counts \in [ Collector!Counters -> Nat ]
      /\ counts["detections"] = c.counts["detections"] + o.counts["detections"]
  BY <1>2 DEF Collector!Counters
<1>4. /\ setupT \in [ Stages -> MetricType ] /\ timings \in [ Stages -> MetricType ]
      /\ setupS \in [ MessageKinds -> MetricType ] /\ sizes \in [ MessageKinds -> MetricType ]
  BY <1>2, AddMetric
<1>5. /\ \A st \in Stages : timings[st].count = c.timings[st].count + o.timings[st].count
      /\ \A m \in MessageKinds : sizes[m].count = c.sizes[m].count + o.sizes[m].count
      /\ \A m \in MessageKinds :
           setupS[m].count = c.setupSizes[m].count + o.setupSizes[m].count
  BY <1>2, AddMetric
<1> HIDE DEF counts, setupT, setupS, timings, sizes
<1>6. d \in TallyType
  <2>1. /\ c.finalBlocks + o.finalBlocks \in Int
        /\ (IF c.memoryPeak >= o.memoryPeak THEN c.memoryPeak ELSE o.memoryPeak) \in Nat
        /\ c.setupTimingsRecorded \/ o.setupTimingsRecorded \in BOOLEAN
        /\ c.setupSizesRecorded \/ o.setupSizesRecorded \in BOOLEAN
    BY DEF TallyType
  <2> QED
    BY <1>1, <1>3, <1>4, <2>1 DEF TallyType
<1> QED
  BY <1>1, <1>3, <1>5, <1>6

------------------------------------------------------------------------------
(* Damaged blocks. *)

\* A file of a number of blocks.
LEMMA BlocksOf ==
  ASSUME NEW n \in Nat
  PROVE  IsFiniteSet(0 .. n - 1) /\ Cardinality(0 .. n - 1) = n
<1>1. 0 \in Int /\ n - 1 \in Int
  OBVIOUS
<1>2. /\ IsFiniteSet(0 .. n - 1)
      /\ Cardinality(0 .. n - 1) = IF 0 > n - 1 THEN 0 ELSE (n - 1) - 0 + 1
  BY <1>1, FS_Interval, Zenon
<1>3. (IF 0 > n - 1 THEN 0 ELSE (n - 1) - 0 + 1) = n
  OBVIOUS
<1> QED
  BY <1>2, <1>3

\* The blocks the shuffle puts first: as many as are to be damaged, all in the file.
LEMMA ChosenBlocks ==
  ASSUME AuditTypes
  PROVE  /\ audit.total \in Nat /\ audit.corrupted \in Nat
         /\ audit.sample \in Nat /\ audit.blockSize \in Nat
         /\ chosen \subseteq 0 .. audit.total - 1
         /\ IsFiniteSet(chosen) /\ Cardinality(chosen) = Damaged
         /\ Damaged \in Nat /\ Damaged <= audit.total
         /\ audit.corrupted = 0 => chosen = {}
<1>1. /\ audit.total \in Nat /\ audit.corrupted \in Nat
      /\ audit.sample \in Nat /\ audit.blockSize \in Nat
  BY PdpAssumption DEF AuditTypes
<1>2. chosen \subseteq 0 .. audit.total - 1 /\ Cardinality(chosen) = Damaged
  BY DEF AuditTypes, kSubset
<1>3. IsFiniteSet(chosen)
  BY <1>1, <1>2, BlocksOf, FS_Subset
<1>4. Damaged \in Nat /\ Damaged <= audit.total /\ (audit.corrupted = 0 => Damaged = 0)
  BY <1>1 DEF Damaged
<1> QED
  BY <1>1, <1>2, <1>3, <1>4, FS_EmptySet

\* prepare damages an undamaged file in the chosen blocks, whatever the strategy.
LEMMA PreparedFile ==
  ASSUME AuditTypes, kind # "none",
         NEW file, file = IF audit.corrupted = 0 THEN Undamaged
                          ELSE IF kind = "dynamic" THEN MarkStaleVersions(Undamaged)
                          ELSE CorruptBlocks(Undamaged)
  PROVE  Mismatched(file) = Stale
<1>1. kind \in {"static", "dynamic"}
  BY DEF AuditTypes
<1>2. CASE audit.corrupted = 0
  <2>1. file.flipped = {} /\ file.versions = file.tagged
    BY <1>2 DEF Undamaged
  <2>2. Mismatched(file) = {}
    BY <2>1 DEF Mismatched
  <2> QED
    BY <1>2, <2>2, ChosenBlocks DEF Stale
<1>3. CASE audit.corrupted # 0 /\ kind = "static"
  <2>1. /\ file.flipped = IF audit.blockSize > 0 THEN chosen ELSE {}
        /\ file.versions = <<>>
    BY <1>3 DEF CorruptBlocks, Undamaged, FirstVersions
  <2>2. DOMAIN file.versions = {}
    BY <2>1
  <2>3. Mismatched(file) = file.flipped
    BY <2>2 DEF Mismatched
  <2> QED
    BY <1>3, <2>1, <2>3, ChosenBlocks DEF Stale
<1>4. CASE audit.corrupted # 0 /\ kind = "dynamic"
  <2>1. /\ file.flipped = {}
        /\ file.versions = [ i \in 1 .. audit.total |-> IF i - 1 \in chosen THEN 1 + 1 ELSE 1 ]
        /\ file.tagged = [ i \in 1 .. audit.total |-> 1 ]
    BY <1>4 DEF MarkStaleVersions, Undamaged, FirstVersions
  <2>2. { j \in DOMAIN file.versions : file.versions[j] # file.tagged[j] }
          = { j \in 1 .. audit.total : j - 1 \in chosen }
    <3>1. DOMAIN file.versions = 1 .. audit.total
      BY <2>1
    <3>2. ASSUME NEW j \in 1 .. audit.total
          PROVE  file.versions[j] # file.tagged[j] <=> j - 1 \in chosen
      <4>1. file.tagged[j] = 1 /\ file.versions[j] = IF j - 1 \in chosen THEN 1 + 1 ELSE 1
        BY <2>1, Zenon
      <4> QED
        BY <4>1
    <3> QED
      BY <3>1, <3>2
  <2>3. Mismatched(file) = { i - 1 : i \in { j \in 1 .. audit.total : j - 1 \in chosen } }
    BY <2>1, <2>2 DEF Mismatched
  <2>4. ASSUME NEW b \in chosen
        PROVE  b \in { i - 1 : i \in { j \in 1 .. audit.total : j - 1 \in chosen } }
    <3>1. b \in Int /\ b + 1 \in 1 .. audit.total /\ (b + 1) - 1 = b
      BY ChosenBlocks
    <3> QED
      BY <3>1
  <2>5. Mismatched(file) = chosen
    BY <2>3, <2>4
  <2> QED
    BY <1>4, <2>5 DEF Stale
<1> QED
  BY <1>1, <1>2, <1>3, <1>4

\* With more blocks in the challenge than are intact, every challenge meets one.
LEMMA NoChallengeMisses ==
  ASSUME AuditTypes, Stale = chosen, audit.corrupted > 0, audit.total > 0,
         audit.sample > audit.total - Damaged
  PROVE  Certain
<1> SUFFICES ASSUME NEW challenge \in Challenges PROVE challenge \cap chosen # {}
  BY DEF Certain
<1> DEFINE file == 0 .. audit.total - 1
<1>1. /\ audit.total \in Nat /\ audit.corrupted \in Nat /\ audit.sample \in Nat
      /\ chosen \subseteq file
      /\ Cardinality(chosen) = Damaged /\ Damaged \in Nat /\ Damaged > 0
  BY ChosenBlocks DEF Damaged
<1>2. IsFiniteSet(file) /\ Cardinality(file) = audit.total
  BY <1>1, BlocksOf
<1>3. /\ challenge \subseteq file
      /\ Cardinality(challenge)
           = IF audit.sample < audit.total THEN audit.sample ELSE audit.total
  BY DEF Challenges, kSubset
<1> HIDE DEF file
<1>4. Cardinality(challenge) + Cardinality(chosen) > Cardinality(file)
  BY <1>1, <1>2, <1>3
<1> QED
  BY <1>1, <1>2, <1>3, <1>4, FS_MajoritiesIntersect

\* What is damaged, and what a challenge can miss, is fixed with the configuration.
LEMMA ConfigurationKept ==
  ASSUME UNCHANGED configVars
  PROVE  /\ kind' = kind /\ audit' = audit /\ chosen' = chosen
         /\ Damaged' = Damaged /\ Stale' = Stale /\ Challenges' = Challenges
         /\ Undamaged' = Undamaged /\ Certain' = Certain
<1>1. kind' = kind /\ audit' = audit /\ chosen' = chosen
  BY DEF configVars
<1>2. Stale' = Stale /\ Challenges' = Challenges
  BY <1>1 DEF Stale, Challenges
<1>3. Certain' = Certain
  BY <1>2 DEF Certain
<1> QED
  BY <1>1, <1>2, <1>3 DEF Damaged, Undamaged, FirstVersions

------------------------------------------------------------------------------
(* The runs of the benchmark are runs of BenchmarkRunner. *)

\* Every step of the composed run is a step of runSingle, or none.
LEMMA AuditStepRuns == [NextAudit]_allVars => [Next]_vars
<1> SUFFICES ASSUME [NextAudit]_allVars PROVE [Next]_vars
  OBVIOUS
<1>1. CASE AuditMain
  <2>1. AuditPlan => Main
    BY DEF AuditPlan, Main
  <2>2. AuditResult => Main
    BY DEF AuditResult, Main
  <2>3. ASSUME ~ AuditPlan, ~ AuditResult
        PROVE  Main
    BY <1>1, <2>3 DEF AuditMain, Main, MainSteps
  <2> QED
    BY <2>1, <2>2, <2>3 DEF Next
<1>2. ASSUME NEW s \in Workers, AuditWorker(s)
      PROVE  Next
  <2>1. Worker(s)
    BY <1>2 DEF AuditWorker, SetupAudit, PrepareAudit, RunAudit, RecordAudit, AuditThrows,
                TeardownAudit, Worker, LifecycleSteps
  <2> QED
    BY <2>1 DEF Next
<1>3. CASE AuditDone \/ UNCHANGED allVars
  BY <1>3 DEF AuditDone, allVars
<1> QED
  BY <1>1, <1>2, <1>3 DEF NextAudit

\* Every run of the audit scenario is a run of runSingle.
THEOREM AuditRunsRunner == SpecAudit => SafeSpec
<1>1. InitAudit => Init
  BY DEF InitAudit
<1> QED
  BY <1>1, AuditStepRuns, PTL DEF SpecAudit, SafeSpec

------------------------------------------------------------------------------
(* The initial states. *)

\* No file, nothing counted, nothing detected.
LEMMA InitAInv == InitAudit => AInv
<1> SUFFICES ASSUME InitAudit PROVE AInv
  OBVIOUS
<1>1. MaxWorkers \in Nat \ {0} /\ Workers = 0 .. MaxWorkers - 1
  BY RunnerAssumption DEF Workers
<1>2. tally = [ s \in Workers |-> Collector!Fresh ] /\ mergedTally = Collector!Fresh
  BY DEF InitAudit
<1>3. AuditTypes
  BY <1>2, FreshTally DEF InitAudit, AuditTypes
<1>4. \A s \in Workers : FileInv(s) /\ VerdictInv(s) /\ TallyInv(s)
  BY <1>2, FreshTally DEF InitAudit, Init, FileInv, VerdictInv, TallyInv, Healthy
<1>5. MergedInv
  BY DEF InitAudit, Init, MergedInv
<1>6. TotalsInv
  <2> SUFFICES ASSUME NEW k \in Happenings PROVE TotalInv(k)
    BY DEF TotalsInv
  <2> DEFINE sum == [ i \in 0 .. MaxWorkers |-> 0 ]
  <2>1. Total(k) = 0 /\ mpc = "create" /\ plan.effective = 1
    BY DEF InitAudit, Init, DefaultPlan, Total, Happenings
  <2>2. sum \in [ 0 .. MaxWorkers -> 0 .. Total(k) ]
    BY <2>1
  <2>3. Entry(Collector!Fresh, k) = 0
    BY FreshTally DEF Entry, Happenings
  <2>4. SumsEntries(sum, k)
    BY <1>1, <1>2, <2>3 DEF SumsEntries
  <2>5. \A i \in plan.effective .. MaxWorkers : sum[i] = Total(k)
    BY <1>1, <2>1
  <2> HIDE DEF sum
  <2>6. Total(k) \in Nat /\ mpc \notin {"merge", "returned"}
    BY <2>1
  <2> QED
    BY <2>1, <2>2, <2>4, <2>5, <2>6, Zenon DEF TotalInv
<1> QED
  BY <1>3, <1>4, <1>5, <1>6 DEF AInv

------------------------------------------------------------------------------
(* The steps of a worker. *)

(***************************************************************************)
(* What every action of a worker does: it leaves the main thread, the      *)
(* configuration and the other workers alone, keeps the types and what     *)
(* AInv says of its own worker, and keeps what the collectors count in     *)
(* step with what happened.                                                *)
(***************************************************************************)
OwnAudit(s) ==
  /\ UNCHANGED <<config, mainVars, configVars, reportVars>>
  /\ \A t \in Workers \ {s} :
       /\ wpc'[t] = wpc[t] /\ collectors'[t] = collectors[t] /\ failures'[t] = failures[t]
       /\ scenario'[t] = scenario[t] /\ lastDetected'[t] = lastDetected[t]
       /\ struck'[t] = struck[t] /\ tally'[t] = tally[t]
  /\ AuditTypes'
  /\ FileInv(s)' /\ VerdictInv(s)' /\ TallyInv(s)'
  /\ TotalsInv'

\* A detection is no message, and a message of the setup none of an iteration.
LEMMA MessagesApart ==
  /\ "detections" \notin MessageKinds
  /\ SetupMessages \cap IterationMessages = {}
  /\ MessageKinds = SetupMessages \cup IterationMessages
  BY DEF MessageKinds, SetupMessages, IterationMessages

\* What a collector says of a happening is a number.
LEMMA EntryNumbers ==
  ASSUME NEW c \in TallyType, NEW k \in Happenings
  PROVE  Entry(c, k) \in Nat
<1>1. /\ c.counts \in [ Collector!Counters -> Nat ]
      /\ c.setupSizes \in [ MessageKinds -> MetricType ]
      /\ c.sizes \in [ MessageKinds -> MetricType ]
      /\ "detections" \in Collector!Counters
  BY DEF TallyType, Collector!Counters
<1>2. CASE k = "detections"
  BY <1>1, <1>2 DEF Entry
<1>3. CASE k # "detections"
  <2>1. k \in MessageKinds
    BY <1>3 DEF Happenings
  <2>2. c.setupSizes[k] \in MetricType /\ c.sizes[k] \in MetricType
    BY <1>1, <2>1
  <2> QED
    BY <1>3, <2>2 DEF Entry, MetricType
<1> QED
  BY <1>2, <1>3

\* The sums stand as long as nothing happens, and no worker's collector says it did.
LEMMA TotalsKept ==
  ASSUME TotalsInv, strikes' = strikes, sent' = sent, plan' = plan, tally' = tally,
         mpc' \in {"create", "plan", "validate"} => mpc \in {"create", "plan", "validate"},
         mpc' \in {"merge", "returned"} =>
           mpc \in {"merge", "returned"} /\ mergedTally' = mergedTally /\ cursor' = cursor
  PROVE  TotalsInv'
<1> SUFFICES ASSUME NEW k \in Happenings PROVE TotalInv(k)'
  BY DEF TotalsInv
<1>1. Total(k)' = Total(k) /\ TotalInv(k)
  BY DEF Total, TotalsInv
<1>2. PICK sum \in [ 0 .. MaxWorkers -> 0 .. Total(k) ] :
        /\ SumsEntries(sum, k)
        /\ \A i \in plan.effective .. MaxWorkers : sum[i] = Total(k)
        /\ mpc \in {"merge", "returned"} => Entry(mergedTally, k) = sum[cursor]
  BY <1>1 DEF TotalInv
<1>3. SumsEntries(sum, k)'
  BY <1>2 DEF SumsEntries, Entry
<1>4. /\ \A i \in plan'.effective .. MaxWorkers : sum[i] = Total(k)'
      /\ mpc' \in {"merge", "returned"} => Entry(mergedTally', k) = sum[cursor']
  BY <1>1, <1>2
<1>5. Total(k)' \in Nat /\ (mpc' \in {"create", "plan", "validate"} => Total(k)' = 0)
  BY <1>1 DEF TotalInv
<1> QED
  BY <1>1, <1>2, <1>3, <1>4, <1>5 DEF TotalInv, Entry

\* Only a slot of the plan is at work, and only while the plan's workers run.
LEMMA WorkingSlot ==
  ASSUME IInv, NEW s \in Workers, wpc[s] \in {"setup", "loop", "record"}
  PROVE  /\ s < plan.effective
         /\ mpc \notin {"create", "plan", "validate", "merge", "returned", "thrown"}
<1>1. /\ plan.effective \in Nat \ {0} /\ s \in Nat /\ pool \in Nat
      /\ Slots(plan) = 0 .. plan.effective - 1
      /\ mpc \in {"create", "plan", "validate", "spawn", "abort", "worker0", "join", "scan",
                  "merge", "returned", "thrown"}
  BY PlanNumbers, RunnerAssumption DEF IInv, TypeOK, Workers, Slots
<1>2. mpc \notin {"create", "plan", "validate", "scan", "merge", "returned", "thrown"}
  BY <1>1 DEF IInv, MainInv, Started, AllDone
<1>3. CASE mpc = "spawn"
  BY <1>1, <1>3 DEF IInv, MainInv, Started
<1>4. CASE mpc = "abort"
  BY <1>1, <1>4 DEF IInv, MainInv, Started
<1>5. CASE mpc \in {"worker0", "join"}
  BY <1>1, <1>5 DEF IInv, MainInv, Started
<1> QED
  BY <1>1, <1>2, <1>3, <1>4, <1>5

\* What happens in a step of a worker adds to the sums of the workers after it, at most
\* once of a kind, if its collector says so.
LEMMA TotalsRaised ==
  ASSUME TotalsInv, AuditTypes, NEW s \in Workers, NEW hit \in [ Happenings -> {0, 1} ],
         plan' = plan, plan.effective \in Nat, s < plan.effective,
         mpc' \notin {"create", "plan", "validate", "merge", "returned"},
         \A k \in Happenings : Total(k)' = Total(k) + hit[k],
         \A k \in Happenings : Entry(tally'[s], k) = Entry(tally[s], k) + hit[k],
         \A t \in Workers \ {s} : tally'[t] = tally[t]
  PROVE  TotalsInv'
<1> SUFFICES ASSUME NEW k \in Happenings PROVE TotalInv(k)'
  BY DEF TotalsInv
<1> DEFINE total == Total(k)
           add   == hit[k]
<1>1. /\ MaxWorkers \in Nat \ {0} /\ Workers = 0 .. MaxWorkers - 1
      /\ total \in Nat /\ add \in {0, 1} /\ Total(k)' = total + add
  BY RunnerAssumption DEF Workers, TotalsInv, TotalInv
<1>2. PICK sum \in [ 0 .. MaxWorkers -> 0 .. total ] :
        /\ SumsEntries(sum, k)
        /\ \A i \in plan.effective .. MaxWorkers : sum[i] = total
  BY DEF TotalsInv, TotalInv
<1> HIDE DEF total, add
<1> DEFINE raised == [ i \in 0 .. MaxWorkers |-> IF i > s THEN sum[i] + add ELSE sum[i] ]
<1>3. raised \in [ 0 .. MaxWorkers -> 0 .. total + add ]
  <2> SUFFICES ASSUME NEW i \in 0 .. MaxWorkers PROVE raised[i] \in 0 .. total + add
    OBVIOUS
  <2>1. sum[i] \in 0 .. total
    BY <1>2
  <2> QED
    BY <1>1, <2>1
<1>4. raised[0] = 0
  BY <1>1, <1>2 DEF SumsEntries
<1>5. ASSUME NEW t \in Workers
      PROVE  raised[t + 1] = raised[t] + Entry(tally'[t], k)
  <2>1. /\ t \in 0 .. MaxWorkers /\ t + 1 \in 0 .. MaxWorkers /\ t \in Nat /\ s \in Nat
        /\ sum[t] \in Nat /\ sum[t + 1] \in Nat
    BY <1>1, <1>2
  <2>2. sum[t + 1] = sum[t] + Entry(tally[t], k)
    BY <1>2 DEF SumsEntries
  <2>3. Entry(tally[t], k) \in Nat
    BY EntryNumbers DEF AuditTypes
  <2>4. /\ raised[t] = IF t > s THEN sum[t] + add ELSE sum[t]
        /\ raised[t + 1] = IF t + 1 > s THEN sum[t + 1] + add ELSE sum[t + 1]
    BY <2>1
  <2> HIDE DEF raised
  <2>5. CASE t = s
    <3>1. Entry(tally'[t], k) = Entry(tally[t], k) + add
      BY <2>5 DEF add
    <3> QED
      BY <1>1, <2>1, <2>2, <2>3, <2>4, <2>5, <3>1
  <2>6. CASE t # s
    <3>1. Entry(tally'[t], k) = Entry(tally[t], k)
      BY <2>6
    <3> QED
      BY <1>1, <2>1, <2>2, <2>3, <2>4, <2>6, <3>1
  <2> QED
    BY <2>5, <2>6
<1>6. ASSUME NEW i \in plan'.effective .. MaxWorkers
      PROVE  raised[i] = total + add
  <2>1. i \in 0 .. MaxWorkers /\ i > s /\ sum[i] = total
    BY <1>1, <1>2
  <2> QED
    BY <2>1
<1>7. total + add \in Nat
  BY <1>1
<1> HIDE DEF raised
<1>8. SumsEntries(raised, k)'
  BY <1>4, <1>5 DEF SumsEntries, Entry
<1> QED
  BY <1>1, <1>3, <1>6, <1>7, <1>8 DEF TotalInv

\* Setup leaves an undamaged file, at most one message of tags and nothing else counted.
LEMMA SetupAudits ==
  ASSUME IInv, AInv, NEW s \in Workers, SetupAudit(s)
  PROVE  OwnAudit(s)
<1> USE DEF IInv, AInv
<1>1. UNCHANGED <<config, mainVars, configVars, reportVars>>
  BY DEF SetupAudit, Setup
<1>2. /\ wpc[s] = "setup" /\ wpc' = [ wpc EXCEPT ![s] = "prepare" ]
      /\ failures' = failures
      /\ collectors' = [ collectors EXCEPT ![s] = RecordSetup(collectors[s]) ]
      /\ kind # "none"
      /\ scenario' = [ scenario EXCEPT ![s] = Undamaged ]
      /\ lastDetected' = lastDetected /\ struck' = struck /\ strikes' = strikes
  BY DEF SetupAudit, Setup, MoveTo, Undamaged
<1>3. tally[s] = Collector!Fresh /\ NothingRecorded(s)
  BY <1>2 DEF TallyInv, WorkerInv
<1>4. PICK kinds \in SUBSET SetupMessages :
        /\ tally' = [ tally EXCEPT ![s] = Collector!RecordSetupMessageSizes(
                       Collector!RecordSetupTimings(tally[s], OneCall(SetupStages)),
                       OneMessage(kinds)) ]
        /\ sent' = Noted(kinds)
  BY DEF SetupAudit
<1>5. tally'[s] = Collector!RecordSetupMessageSizes(
                    Collector!RecordSetupTimings(Collector!Fresh, OneCall(SetupStages)),
                    OneMessage(kinds))
  BY <1>3, <1>4 DEF AuditTypes
<1>6. /\ tally'[s] \in TallyType
      /\ \A m \in SetupMessages :
           tally'[s].setupSizes[m].count = IF m \in kinds THEN 1 ELSE 0
      /\ tally'[s].counts["detections"] = 0
      /\ \A st \in IterationStages : tally'[s].timings[st].count = 0
      /\ \A m \in MessageKinds : tally'[s].sizes[m].count = 0
  BY <1>5, SetupTally, FreshTally DEF Stages
<1>7. AuditTypes'
  <2>1. DOMAIN scenario' = Workers /\ scenario' = [ t \in Workers |-> scenario'[t] ]
    BY <1>2 DEF AuditTypes
  <2>2. tally' \in [ Workers -> TallyType ]
    BY <1>4, <1>5, <1>6 DEF AuditTypes
  <2>3. sent' \in [ MessageKinds -> Nat ]
    BY <1>4 DEF AuditTypes, Noted
  <2> QED
    BY <1>1, <1>2, <2>1, <2>2, <2>3, ConfigurationKept DEF AuditTypes, reportVars
<1>8. /\ wpc'[s] = "prepare" /\ scenario'[s] = Undamaged
      /\ collectors'[s].outcomes = 0 /\ collectors'[s].timings = 0
  BY <1>2, <1>3 DEF TypeOK, AuditTypes, CollectorType, NothingRecorded, RecordSetup
<1>9. FileInv(s)' /\ VerdictInv(s)'
  BY <1>1, <1>2, <1>8, ConfigurationKept DEF FileInv, VerdictInv
<1>10. TallyInv(s)'
  BY <1>1, <1>6, <1>8, ConfigurationKept DEF TallyInv, Holds, MessageKinds
<1>11. \A t \in Workers \ {s} :
        /\ wpc'[t] = wpc[t] /\ collectors'[t] = collectors[t] /\ failures'[t] = failures[t]
        /\ scenario'[t] = scenario[t] /\ lastDetected'[t] = lastDetected[t]
        /\ struck'[t] = struck[t] /\ tally'[t] = tally[t]
  BY <1>2, <1>4 DEF TypeOK, AuditTypes
<1>12. TotalsInv'
  <2> DEFINE hit == [ k \in Happenings |-> IF k \in kinds THEN 1 ELSE 0 ]
  <2>1. hit \in [ Happenings -> {0, 1} ]
    OBVIOUS
  <2>2. \A k \in Happenings : Total(k)' = Total(k) + hit[k]
    <3>1. "detections" \in Happenings /\ "detections" \notin kinds /\ strikes \in Nat
      BY MessagesApart DEF Happenings, TotalsInv, TotalInv, Total
    <3> QED
      BY <1>2, <1>4, <3>1 DEF Total, Noted, Happenings, AuditTypes
  <2>3. \A k \in Happenings : Entry(tally'[s], k) = Entry(tally[s], k) + hit[k]
    BY <1>3, <1>6, FreshTally, MessagesApart DEF Entry, Happenings, MessageKinds
  <2>4. plan' = plan /\ mpc' = mpc /\ plan.effective \in Nat
    BY <1>1, PlanNumbers DEF mainVars
  <2> HIDE DEF hit
  <2> QED
    BY <1>2, <1>11, <2>1, <2>2, <2>3, <2>4, WorkingSlot, TotalsRaised
<1> QED
  BY <1>1, <1>7, <1>9, <1>10, <1>11, <1>12 DEF OwnAudit

\* Preparing damages the chosen blocks, and only the file changes.
LEMMA PrepareAudits ==
  ASSUME IInv, AInv, NEW s \in Workers, PrepareAudit(s)
  PROVE  OwnAudit(s)
<1> USE DEF IInv, AInv
<1>1. UNCHANGED <<config, mainVars, configVars, reportVars>> /\ collectors' = collectors
      /\ failures' = failures
  BY DEF PrepareAudit, Prepare
<1>2. /\ wpc[s] = "prepare" /\ wpc' = [ wpc EXCEPT ![s] = "loop" ]
      /\ lastDetected' = lastDetected /\ tally' = tally
      /\ struck' = struck /\ strikes' = strikes /\ sent' = sent
  BY DEF PrepareAudit, Prepare, MoveTo, history
<1> DEFINE prepared == IF audit.corrupted = 0 THEN scenario[s]
                       ELSE IF kind = "dynamic" THEN MarkStaleVersions(scenario[s])
                       ELSE CorruptBlocks(scenario[s])
<1>3. scenario' = [ scenario EXCEPT ![s] = prepared ]
  BY DEF PrepareAudit
<1>4. kind # "none" /\ scenario[s] = Undamaged
  BY <1>2 DEF FileInv
<1>5. Mismatched(prepared) = Stale
  BY <1>4, PreparedFile
<1> HIDE DEF prepared
<1>6. wpc'[s] = "loop" /\ scenario'[s] = prepared
  BY <1>2, <1>3 DEF TypeOK, AuditTypes
<1>7. AuditTypes'
  <2>1. DOMAIN scenario' = Workers /\ scenario' = [ t \in Workers |-> scenario'[t] ]
    BY <1>3 DEF AuditTypes
  <2> QED
    BY <1>1, <1>2, <2>1, ConfigurationKept DEF AuditTypes, reportVars
<1>8. FileInv(s)'
  <2>1. Mismatched(scenario[s])' = Mismatched(prepared)
    BY <1>6 DEF Mismatched
  <2> QED
    BY <1>1, <1>5, <1>6, <2>1, ConfigurationKept DEF FileInv
<1>9. VerdictInv(s)'
  BY <1>6 DEF VerdictInv
<1>10. TallyInv(s)'
  BY <1>1, <1>2, <1>6, ConfigurationKept DEF TallyInv, Healthy, Holds
<1>11. \A t \in Workers \ {s} : wpc'[t] = wpc[t] /\ scenario'[t] = scenario[t]
  BY <1>2, <1>3 DEF TypeOK, AuditTypes
<1>12. TotalsInv'
  BY <1>1, <1>2, TotalsKept DEF mainVars, reportVars
<1> QED
  BY <1>1, <1>2, <1>7, <1>8, <1>9, <1>10, <1>11, <1>12 DEF OwnAudit

\* An iteration's verdict is what its challenge met, and every stage is timed once.
LEMMA RunAudits ==
  ASSUME IInv, AInv, NEW s \in Workers, RunAudit(s)
  PROVE  OwnAudit(s)
<1> USE DEF IInv, AInv
<1>1. UNCHANGED <<config, mainVars, configVars, reportVars>>
  BY DEF RunAudit, RunIteration
<1>2. /\ wpc[s] = "loop" /\ wpc' = [ wpc EXCEPT ![s] = "record" ]
      /\ failures' = failures /\ scenario' = scenario /\ strikes' = strikes
      /\ collectors' = [ collectors EXCEPT ![s] = RecordTimings(collectors[s]) ]
  BY DEF RunAudit, RunIteration, MoveTo
<1>3. Mismatched(scenario[s]) = Stale
  BY <1>2 DEF FileInv
<1> PICK kinds \in SUBSET IterationMessages :
        /\ tally' = [ tally EXCEPT ![s] =
             Collector!RecordMessageSizes(
               Collector!RecordTimings(tally[s], OneCall(IterationStages)), OneMessage(kinds)) ]
        /\ sent' = Noted(kinds)
  BY DEF RunAudit
<1>4. PICK challenge \in Challenges :
        /\ lastDetected' = [ lastDetected EXCEPT ![s] = (challenge \cap Stale # {}) ]
        /\ struck' = [ struck EXCEPT ![s] = (challenge \cap Stale # {}) ]
  BY <1>3 DEF RunAudit, Verdict
<1> DEFINE met == challenge \cap Stale # {}
<1>5. /\ Stale = {} => ~ met
      /\ Certain => met
      /\ met \in BOOLEAN
  BY DEF Certain
<1>6. lastDetected' = [ lastDetected EXCEPT ![s] = met ] /\ struck' = [ struck EXCEPT ![s] = met ]
  BY <1>4
<1> HIDE DEF met
<1>7. /\ tally[s] \in TallyType
      /\ tally'[s] = Collector!RecordMessageSizes(
                       Collector!RecordTimings(tally[s], OneCall(IterationStages)),
                       OneMessage(kinds))
  BY DEF AuditTypes
<1>8. /\ tally'[s] \in TallyType
      /\ \A st \in IterationStages : tally'[s].timings[st].count = tally[s].timings[st].count + 1
      /\ \A m \in MessageKinds :
           tally'[s].sizes[m].count = tally[s].sizes[m].count + (IF m \in kinds THEN 1 ELSE 0)
      /\ tally'[s].counts = tally[s].counts /\ tally'[s].setupSizes = tally[s].setupSizes
  BY <1>7, IterationTally
<1>9. AuditTypes'
  <2>1. lastDetected' \in [ Workers -> BOOLEAN ] /\ struck' \in [ Workers -> BOOLEAN ]
    BY <1>5, <1>6 DEF AuditTypes
  <2>2. tally' \in [ Workers -> TallyType ]
    BY <1>7, <1>8 DEF AuditTypes
  <2>3. sent' \in [ MessageKinds -> Nat ]
    BY DEF AuditTypes, Noted
  <2> QED
    BY <1>1, <1>2, <2>1, <2>2, <2>3, ConfigurationKept DEF AuditTypes, reportVars
<1>10. /\ wpc'[s] = "record" /\ lastDetected'[s] = met /\ struck'[s] = met
       /\ collectors'[s].outcomes = collectors[s].outcomes
       /\ collectors'[s].timings = collectors[s].timings + 1
  BY <1>2, <1>6 DEF TypeOK, AuditTypes, CollectorType, RecordTimings
<1>11. FileInv(s)'
  <2>1. Mismatched(scenario[s])' = Mismatched(scenario[s])
    BY <1>2 DEF Mismatched
  <2> QED
    BY <1>1, <1>3, <1>10, <2>1, ConfigurationKept DEF FileInv
<1>12. VerdictInv(s)'
  BY <1>1, <1>5, <1>10, ConfigurationKept DEF VerdictInv
<1>13. TallyInv(s)'
  <2>1. Holds(tally[s], collectors[s].timings, collectors[s].outcomes, 1)
    BY <1>2 DEF TallyInv, Healthy
  <2>2. Holds(tally'[s], collectors'[s].timings, collectors'[s].outcomes, 1)
    <3>1. tally[s].sizes \in [ MessageKinds -> MetricType ] /\ collectors[s].timings \in Nat
      BY <1>7 DEF TallyType, TypeOK, CollectorType
    <3>2. \A m \in IterationMessages : tally'[s].sizes[m].count <= collectors'[s].timings
      BY <1>8, <1>10, <2>1, <3>1, MessagesApart DEF Holds, MetricType
    <3>3. \A m \in SetupMessages : tally'[s].sizes[m].count = 0
      BY <1>8, <2>1, <3>1, MessagesApart DEF Holds, MetricType
    <3> QED
      BY <1>8, <1>10, <2>1, <3>2, <3>3 DEF Holds
  <2>3. Stale' = {} => tally'[s].counts["detections"] = 0
    BY <1>1, <1>8, ConfigurationKept DEF TallyInv
  <2> QED
    BY <1>1, <1>10, <2>2, <2>3, ConfigurationKept DEF TallyInv, Holds
<1>14. \A t \in Workers \ {s} :
        /\ wpc'[t] = wpc[t] /\ collectors'[t] = collectors[t]
        /\ lastDetected'[t] = lastDetected[t] /\ struck'[t] = struck[t] /\ tally'[t] = tally[t]
  BY <1>2, <1>6 DEF TypeOK, AuditTypes
<1>15. TotalsInv'
  <2> DEFINE hit == [ k \in Happenings |-> IF k \in kinds THEN 1 ELSE 0 ]
  <2>1. hit \in [ Happenings -> {0, 1} ]
    OBVIOUS
  <2>2. \A k \in Happenings : Total(k)' = Total(k) + hit[k]
    <3>1. "detections" \in Happenings /\ "detections" \notin kinds /\ strikes \in Nat
      BY MessagesApart DEF Happenings, TotalsInv, TotalInv, Total
    <3> QED
      BY <1>2, <3>1 DEF Total, Noted, Happenings, AuditTypes
  <2>3. \A k \in Happenings : Entry(tally'[s], k) = Entry(tally[s], k) + hit[k]
    BY <1>7, <1>8, EntryNumbers, MessagesApart DEF Entry, Happenings
  <2>4. plan' = plan /\ mpc' = mpc /\ plan.effective \in Nat
    BY <1>1, PlanNumbers DEF mainVars
  <2> HIDE DEF hit
  <2> QED
    BY <1>2, <1>14, <2>1, <2>2, <2>3, <2>4, WorkingSlot, TotalsRaised
<1> QED
  BY <1>1, <1>2, <1>9, <1>11, <1>12, <1>13, <1>14, <1>15 DEF OwnAudit

\* Recording counts a detection exactly if the iteration's challenge met a damaged block.
LEMMA RecordAudits ==
  ASSUME IInv, AInv, NEW s \in Workers, RecordAudit(s)
  PROVE  OwnAudit(s)
<1> USE DEF IInv, AInv
<1>1. UNCHANGED <<config, mainVars, configVars, reportVars>>
  BY DEF RecordAudit, RecordIteration
<1>2. /\ wpc[s] = "record" /\ wpc' = [ wpc EXCEPT ![s] = "loop" ]
      /\ failures' = failures /\ scenario' = scenario
      /\ lastDetected' = lastDetected /\ struck' = struck /\ sent' = sent
      /\ collectors' = [ collectors EXCEPT ![s] = RecordOutcome(collectors[s]) ]
      /\ tally' = [ tally EXCEPT ![s] = Collector!RecordOutcome(tally[s], lastDetected[s]) ]
      /\ strikes' = strikes + (IF struck[s] THEN 1 ELSE 0)
  BY DEF RecordAudit, RecordIteration, MoveTo
<1>3. /\ lastDetected[s] = struck[s] /\ struck[s] \in BOOLEAN
      /\ Stale = {} => ~ struck[s]
      /\ Certain => struck[s]
  BY <1>2 DEF VerdictInv, AuditTypes
<1> DEFINE hit == IF struck[s] THEN 1 ELSE 0
<1>4. tally[s] \in TallyType /\ tally'[s] = Collector!RecordOutcome(tally[s], struck[s])
  BY <1>2, <1>3 DEF AuditTypes
<1>5. /\ tally'[s] \in TallyType
      /\ tally'[s].counts["detections"] = tally[s].counts["detections"] + hit
      /\ tally'[s].timings = tally[s].timings /\ tally'[s].sizes = tally[s].sizes
      /\ tally'[s].setupSizes = tally[s].setupSizes
  BY <1>3, <1>4, OutcomeTally
<1>6. /\ hit \in {0, 1} /\ (Stale = {} => hit = 0) /\ (Certain => hit = 1)
      /\ strikes' = strikes + hit
  BY <1>2, <1>3
<1> HIDE DEF hit
<1>7. AuditTypes'
  <2>1. tally' \in [ Workers -> TallyType ]
    BY <1>2, <1>4, <1>5 DEF AuditTypes
  <2> QED
    BY <1>1, <1>2, <2>1, ConfigurationKept DEF AuditTypes, reportVars
<1>8. /\ wpc'[s] = "loop"
      /\ collectors'[s].outcomes = collectors[s].outcomes + 1
      /\ collectors'[s].timings = collectors[s].timings
  BY <1>2 DEF TypeOK, CollectorType, RecordOutcome
<1>9. FileInv(s)'
  <2>1. Mismatched(scenario[s])' = Mismatched(scenario[s])
    BY <1>2 DEF Mismatched
  <2> QED
    BY <1>1, <1>2, <1>8, <2>1, ConfigurationKept DEF FileInv
<1>10. VerdictInv(s)'
  BY <1>8 DEF VerdictInv
<1>11. TallyInv(s)'
  <2>1. Holds(tally[s], collectors[s].timings, collectors[s].outcomes, 1)
    BY <1>2 DEF TallyInv, Healthy
  <2>2. Holds(tally'[s], collectors'[s].timings, collectors'[s].outcomes, 1)
    BY <1>5, <1>6, <1>8, <2>1 DEF Holds
  <2>3. Stale' = {} => tally'[s].counts["detections"] = 0
    BY <1>1, <1>5, <1>6, ConfigurationKept DEF TallyInv
  <2> QED
    BY <1>1, <1>8, <2>2, <2>3, ConfigurationKept DEF TallyInv, Holds
<1>12. \A t \in Workers \ {s} :
        wpc'[t] = wpc[t] /\ collectors'[t] = collectors[t] /\ tally'[t] = tally[t]
  BY <1>2 DEF TypeOK, AuditTypes
<1>13. TotalsInv'
  <2> DEFINE hits == [ k \in Happenings |-> IF k = "detections" THEN hit ELSE 0 ]
  <2>1. hits \in [ Happenings -> {0, 1} ]
    BY <1>6
  <2>2. \A k \in Happenings : Total(k)' = Total(k) + hits[k]
    BY <1>2, <1>6 DEF Total, TotalsInv, TotalInv
  <2>3. \A k \in Happenings : Entry(tally'[s], k) = Entry(tally[s], k) + hits[k]
    BY <1>4, <1>5, EntryNumbers DEF Entry
  <2>4. plan' = plan /\ mpc' = mpc /\ plan.effective \in Nat
    BY <1>1, PlanNumbers DEF mainVars
  <2> HIDE DEF hits
  <2> QED
    BY <1>2, <1>12, <2>1, <2>2, <2>3, <2>4, WorkingSlot, TotalsRaised
<1> QED
  BY <1>1, <1>2, <1>7, <1>9, <1>10, <1>11, <1>12, <1>13 DEF OwnAudit

\* A call that throws, or a scenario that cannot be created: nothing more is counted.
LEMMA FailureAudits ==
  ASSUME IInv, AInv, NEW s \in Workers,
         \/ AuditThrows(s)
         \/ /\ WorkerCreate(s) \/ WorkerCreateThrows(s)
            /\ UNCHANGED <<configVars, scenarioVars, reportVars, history>>
  PROVE  OwnAudit(s)
<1> USE DEF IInv, AInv
<1>1. /\ UNCHANGED <<config, mainVars, configVars, reportVars>>
      /\ scenario' = scenario /\ lastDetected' = lastDetected /\ tally' = tally
      /\ struck' = struck /\ strikes' = strikes /\ sent' = sent
      /\ collectors' = collectors
  BY DEF AuditThrows, CallThrows, WorkerCreate, WorkerCreateThrows, scenarioVars, history
<1>2. \/ /\ wpc' = [ wpc EXCEPT ![s] = "cleanup" ] /\ failures' = failures
      \/ /\ wpc[s] = "create" /\ wpc' = [ wpc EXCEPT ![s] = "setup" ] /\ failures' = failures
      \/ /\ wpc' = [ wpc EXCEPT ![s] = "done" ]
         /\ failures' = [ failures EXCEPT ![s] = "create" ]
  BY DEF AuditThrows, CallThrows, WorkerCreate, WorkerCreateThrows, MoveTo
<1>3. \/ wpc'[s] = "cleanup"
      \/ wpc'[s] = "setup" /\ wpc[s] = "create"
      \/ wpc'[s] = "done" /\ failures'[s] = "create"
  BY <1>2 DEF TypeOK
<1>4. \A t \in Workers \ {s} : wpc'[t] = wpc[t] /\ failures'[t] = failures[t]
  BY <1>2 DEF TypeOK
<1>5. AuditTypes'
  BY <1>1, ConfigurationKept DEF AuditTypes, reportVars
<1>6. FileInv(s)' /\ VerdictInv(s)'
  BY <1>3 DEF FileInv, VerdictInv
<1>7. TallyInv(s)'
  <2>1. wpc'[s] \in {"idle", "create", "setup"} => tally'[s] = Collector!Fresh
    BY <1>1, <1>3 DEF TallyInv
  <2>2. ~ Healthy(s)'
    BY <1>3 DEF Healthy
  <2>3. Stale' = {} => tally'[s].counts["detections"] = 0
    BY <1>1, ConfigurationKept DEF TallyInv
  <2> QED
    BY <2>1, <2>2, <2>3 DEF TallyInv
<1>8. TotalsInv'
  BY <1>1, TotalsKept DEF mainVars, reportVars
<1> QED
  BY <1>1, <1>4, <1>5, <1>6, <1>7, <1>8 DEF OwnAudit

\* The file is dropped; what the collector holds stays true of a worker that is done.
LEMMA TeardownAudits ==
  ASSUME IInv, AInv, NEW s \in Workers, TeardownAudit(s)
  PROVE  OwnAudit(s)
<1> USE DEF IInv, AInv
<1>1. /\ UNCHANGED <<config, mainVars, configVars, reportVars>>
      /\ tally' = tally /\ struck' = struck /\ strikes' = strikes /\ sent' = sent
      /\ collectors' = collectors
  BY DEF TeardownAudit, Teardown, Cleanup, history
<1>2. /\ wpc' = [ wpc EXCEPT ![s] = "done" ]
      /\ scenario' = [ scenario EXCEPT ![s] = NoFile ]
      /\ lastDetected' = [ lastDetected EXCEPT ![s] = FALSE ]
  BY DEF TeardownAudit, Teardown, Cleanup, MoveTo
<1>3. AuditTypes'
  <2>1. DOMAIN scenario' = Workers /\ scenario' = [ t \in Workers |-> scenario'[t] ]
    BY <1>2 DEF AuditTypes
  <2>2. lastDetected' \in [ Workers -> BOOLEAN ]
    BY <1>2 DEF AuditTypes
  <2> QED
    BY <1>1, <2>1, <2>2, ConfigurationKept DEF AuditTypes, reportVars
<1>4. wpc'[s] = "done"
  BY <1>2 DEF TypeOK
<1>5. FileInv(s)' /\ VerdictInv(s)'
  BY <1>4 DEF FileInv, VerdictInv
<1>6. TallyInv(s)'
  <2>1. Stale' = {} => tally'[s].counts["detections"] = 0
    BY <1>1, ConfigurationKept DEF TallyInv
  <2>2. CASE Teardown(s)
    <3>1. Healthy(s)
      BY <2>2 DEF Teardown, Healthy
    <3> QED
      BY <1>1, <1>4, <2>1, <3>1, ConfigurationKept DEF TallyInv, Holds
  <2>3. CASE Cleanup(s)
    <3>1. failures'[s] # "none"
      BY <2>3 DEF Cleanup, WorkerInv, TypeOK
    <3> QED
      BY <1>4, <2>1, <3>1 DEF TallyInv, Healthy
  <2> QED
    BY <2>2, <2>3 DEF TeardownAudit
<1>7. \A t \in Workers \ {s} : failures'[t] = failures[t]
  BY DEF TeardownAudit, Teardown, Cleanup, TypeOK
<1>8. TotalsInv'
  BY <1>1, TotalsKept DEF mainVars, reportVars
<1> QED
  BY <1>1, <1>2, <1>3, <1>5, <1>6, <1>7, <1>8 DEF OwnAudit, TypeOK, AuditTypes

\* What is said of a worker stands when neither it nor the configuration changes.
LEMMA WorkerKept ==
  ASSUME NEW t, FileInv(t), VerdictInv(t), TallyInv(t), UNCHANGED configVars,
         wpc'[t] = wpc[t], collectors'[t] = collectors[t], failures'[t] = failures[t],
         scenario'[t] = scenario[t], lastDetected'[t] = lastDetected[t],
         struck'[t] = struck[t], tally'[t] = tally[t]
  PROVE  FileInv(t)' /\ VerdictInv(t)' /\ TallyInv(t)'
<1>1. FileInv(t)'
  <2>1. Mismatched(scenario[t])' = Mismatched(scenario[t])
    BY DEF Mismatched
  <2> QED
    BY <2>1, ConfigurationKept DEF FileInv
<1>2. VerdictInv(t)'
  BY ConfigurationKept DEF VerdictInv
<1>3. TallyInv(t)'
  BY ConfigurationKept DEF TallyInv, Healthy, Holds
<1> QED
  BY <1>1, <1>2, <1>3

\* A worker's step keeps AInv: the other workers and the merge do not notice it.
LEMMA AuditWorkerStep ==
  ASSUME IInv, AInv, NEW s \in Workers, AuditWorker(s)
  PROVE  AInv'
<1> USE DEF AInv
<1>1. OwnAudit(s)
  BY SetupAudits, PrepareAudits, RunAudits, RecordAudits, FailureAudits, TeardownAudits
     DEF AuditWorker
<1>2. UNCHANGED configVars
  BY <1>1 DEF OwnAudit
<1>3. ASSUME NEW t \in Workers
      PROVE  FileInv(t)' /\ VerdictInv(t)' /\ TallyInv(t)'
  <2>1. CASE t = s
    BY <1>1, <2>1 DEF OwnAudit
  <2>2. CASE t # s
    <3>1. /\ wpc'[t] = wpc[t] /\ collectors'[t] = collectors[t] /\ failures'[t] = failures[t]
          /\ scenario'[t] = scenario[t] /\ lastDetected'[t] = lastDetected[t]
          /\ struck'[t] = struck[t] /\ tally'[t] = tally[t]
      BY <1>1, <2>2 DEF OwnAudit
    <3> QED
      BY <1>2, <3>1, WorkerKept
  <2> QED
    BY <2>1, <2>2
<1>4. MergedInv'
  <2>1. /\ config' = config /\ plan' = plan /\ mpc' = mpc /\ cursor' = cursor
        /\ mergedTally' = mergedTally /\ report' = report
    BY <1>1 DEF OwnAudit, mainVars, reportVars
  <2> QED
    BY <1>2, <2>1, ConfigurationKept DEF MergedInv, Holds
<1> QED
  BY <1>1, <1>3, <1>4 DEF OwnAudit

------------------------------------------------------------------------------
(* The steps of the main thread. *)

\* A main step that leaves the workers and their scenarios alone keeps what is said of them.
LEMMA WorkersKept ==
  ASSUME AInv, UNCHANGED <<workerVars, configVars, scenarioVars, history>>
  PROVE  \A s \in Workers : FileInv(s)' /\ VerdictInv(s)' /\ TallyInv(s)'
<1> SUFFICES ASSUME NEW s \in Workers PROVE FileInv(s)' /\ VerdictInv(s)' /\ TallyInv(s)'
  OBVIOUS
<1>1. /\ wpc' = wpc /\ collectors' = collectors /\ failures' = failures
      /\ scenario' = scenario /\ lastDetected' = lastDetected
      /\ struck' = struck /\ tally' = tally
  BY DEF workerVars, scenarioVars, history
<1> QED
  BY <1>1, WorkerKept DEF AInv

\* Nothing happened when the plan is made: it does not matter how many slots it has.
LEMMA PlanAudits ==
  ASSUME IInv, AInv, AuditPlan
  PROVE  AInv'
<1> USE DEF AInv
<1>1. /\ UNCHANGED <<config, workerVars, configVars, scenarioVars, reportVars, history>>
      /\ mpc = "plan" /\ mpc' = "validate"
  BY DEF AuditPlan, MakePlan
<1>2. AuditTypes'
  BY <1>1, ConfigurationKept DEF AuditTypes, scenarioVars, reportVars, history
<1>3. \A s \in Workers : FileInv(s)' /\ VerdictInv(s)' /\ TallyInv(s)'
  BY <1>1, WorkersKept
<1>4. MergedInv'
  BY <1>1 DEF MergedInv
<1>5. TotalsInv'
  <2>1. plan'.effective \in Nat
    <3> DEFINE balanced == Balanced(config.iterations, config.threads)
    <3>1. WellFormed(balanced)
      BY PlanFits DEF IInv, TypeOK
    <3>2. plan' = balanced \/ plan' = AsSingleWorker(balanced)
      BY DEF AuditPlan
    <3> HIDE DEF balanced
    <3>3. AsSingleWorker(balanced).effective = 1
      BY <3>1, SingleWorkerWellFormed
    <3> QED
      BY <3>1, <3>2, <3>3 DEF WellFormed, PlanType
  <2> SUFFICES ASSUME NEW k \in Happenings PROVE TotalInv(k)'
    BY DEF TotalsInv
  <2>2. Total(k) = 0 /\ Total(k)' = 0 /\ tally' = tally
    BY <1>1 DEF TotalsInv, TotalInv, Total, scenarioVars, history
  <2>3. PICK sum \in [ 0 .. MaxWorkers -> 0 .. Total(k) ] : SumsEntries(sum, k)
    BY DEF TotalsInv, TotalInv
  <2>4. \A i \in plan'.effective .. MaxWorkers : sum[i] = Total(k)'
    <3>1. MaxWorkers \in Nat
      BY RunnerAssumption
    <3> QED
      BY <2>1, <2>2, <2>3, <3>1
  <2>5. SumsEntries(sum, k)'
    BY <2>2, <2>3 DEF SumsEntries, Entry
  <2>6. /\ Total(k)' = Total(k) /\ Total(k)' \in Nat
        /\ mpc' \notin {"merge", "returned"}
    BY <1>1, <2>2
  <2> QED
    BY <2>2, <2>3, <2>4, <2>5, <2>6, Zenon DEF TotalInv
<1> QED
  BY <1>2, <1>3, <1>4, <1>5

\* The main thread's steps that are not about the result, the plan's apart.
AuditElsewhere ==
  /\ \/ CreateScenario \/ ValidateRun \/ MainThrows("create") \/ MainThrows("probe")
     \/ SpawnWorker \/ SpawnThrows \/ AbortJoin \/ AbortRethrow
     \/ StartWorker0 \/ FinishWorker0 \/ JoinWorker
     \/ StartScan \/ ScanSlot \/ RethrowFailure
  /\ UNCHANGED <<configVars, scenarioVars, reportVars, history>>

\* They start workers, or leave them alone.
LEMMA ElsewhereAudits ==
  ASSUME IInv, AInv, AuditElsewhere
  PROVE  AInv'
<1> USE DEF AInv
<1>1. UNCHANGED <<config, plan, configVars, scenarioVars, reportVars, history, collectors,
                  failures>>
  BY DEF AuditElsewhere, CreateScenario, ValidateRun, MainThrows, SpawnWorker, SpawnThrows,
         AbortJoin, AbortRethrow, StartWorker0, FinishWorker0, JoinWorker, StartScan, ScanSlot,
         RethrowFailure, workerVars
<1>2. AuditTypes'
  BY <1>1, ConfigurationKept DEF AuditTypes, scenarioVars, reportVars, history
<1>3. \/ mpc = "create" /\ mpc' = "plan"
      \/ mpc' \in {"spawn", "abort", "worker0", "join", "scan", "thrown"}
  BY DEF AuditElsewhere, CreateScenario, ValidateRun, MainThrows, SpawnWorker, SpawnThrows,
         AbortJoin, AbortRethrow, StartWorker0, FinishWorker0, JoinWorker, StartScan, ScanSlot,
         RethrowFailure
<1>4. MergedInv'
  BY <1>3 DEF MergedInv
<1>5. TotalsInv'
  BY <1>1, <1>3, TotalsKept DEF scenarioVars, history
<1>6. CASE SpawnWorker \/ StartWorker0
  <2>1. PICK t \in Workers, step \in {"create", "setup"} :
          wpc[t] = "idle" /\ wpc' = [ wpc EXCEPT ![t] = step ]
    <3>1. /\ plan.effective \in Nat \ {0} /\ plan.effective <= MaxWorkers
          /\ MaxWorkers \in Nat \ {0} /\ Workers = 0 .. MaxWorkers - 1
      BY PlanNumbers DEF IInv, Workers
    <3>2. /\ mpc = "spawn" /\ cursor \in 1 .. plan.effective /\ Started(1 .. cursor - 1)
      BY <1>6 DEF SpawnWorker, StartWorker0, IInv, MainInv
    <3>3. CASE SpawnWorker
      <4>1. cursor \in Workers /\ wpc[cursor] = "idle"
        BY <3>1, <3>2, <3>3 DEF SpawnWorker, Started
      <4>2. wpc' = [ wpc EXCEPT ![cursor] = "create" ]
        BY <3>3 DEF SpawnWorker
      <4> QED
        BY <4>1, <4>2
    <3>4. CASE StartWorker0
      <4>1. 0 \in Workers /\ wpc[0] = "idle"
        BY <3>1, <3>2 DEF Started
      <4>2. wpc' = [ wpc EXCEPT ![0] = "setup" ]
        BY <3>4 DEF StartWorker0
      <4> QED
        BY <4>1, <4>2
    <3> QED
      BY <1>6, <3>3, <3>4
  <2>2. ASSUME NEW u \in Workers
        PROVE  FileInv(u)' /\ VerdictInv(u)' /\ TallyInv(u)'
    <3>1. /\ scenario' = scenario /\ lastDetected' = lastDetected /\ struck' = struck
          /\ tally' = tally
      BY <1>1 DEF scenarioVars, history
    <3>2. CASE u = t
      <4>1. tally'[u] = Collector!Fresh /\ wpc'[u] \in {"create", "setup"}
        BY <2>1, <3>1, <3>2 DEF TallyInv, IInv, TypeOK
      <4> QED
        BY <4>1, FreshTally DEF FileInv, VerdictInv, TallyInv, Healthy
    <3>3. CASE u # t
      <4>1. wpc'[u] = wpc[u]
        BY <2>1, <3>3 DEF IInv, TypeOK
      <4> QED
        BY <1>1, <3>1, <4>1, WorkerKept
    <3> QED
      BY <3>2, <3>3
  <2> QED
    BY <1>2, <1>4, <1>5, <2>2
<1>7. CASE ~ (SpawnWorker \/ StartWorker0)
  <2>1. UNCHANGED workerVars
    BY <1>7 DEF AuditElsewhere, CreateScenario, ValidateRun, MainThrows, SpawnThrows, AbortJoin,
                AbortRethrow, FinishWorker0, JoinWorker, StartScan, ScanSlot, RethrowFailure
  <2> QED
    BY <1>1, <1>2, <1>4, <1>5, <2>1, WorkersKept
<1> QED
  BY <1>6, <1>7

\* What the collector of a slot without a failure adds: the whole slot, and one setup.
LEMMA SlotTally ==
  ASSUME IInv, AInv, AllDone(Slots(plan)), NoFailure(Slots(plan)), NEW s \in Slots(plan)
  PROVE  /\ s \in Workers /\ tally[s] \in TallyType
         /\ Holds(tally[s], SlotCount(plan, s), SlotCount(plan, s), 1)
         /\ Stale = {} => tally[s].counts["detections"] = 0
<1>1. s \in Workers
  BY PlanNumbers DEF IInv
<1>2. Healthy(s)
  BY DEF AllDone, NoFailure, Healthy
<1>3. collectors[s].timings = SlotCount(plan, s) /\ collectors[s].outcomes = SlotCount(plan, s)
  BY DoneSlot DEF SlotRecorded
<1> QED
  BY <1>1, <1>2, <1>3 DEF AInv, TallyInv, AuditTypes

\* Merging a slot adds what it holds to what was merged before.
LEMMA HoldsMerged ==
  ASSUME NEW c \in TallyType, NEW o \in TallyType, NEW n \in Nat, NEW m \in Nat, NEW k \in Nat,
         Holds(c, n, n, k), Holds(o, m, m, 1),
         NEW d, d = Collector!MergeFrom(c, o)
  PROVE  Holds(d, n + m, n + m, k + 1)
<1>1. /\ d.counts["detections"] = c.counts["detections"] + o.counts["detections"]
      /\ \A st \in IterationStages :
           d.timings[st].count = c.timings[st].count + o.timings[st].count
      /\ \A x \in MessageKinds : d.sizes[x].count = c.sizes[x].count + o.sizes[x].count
      /\ \A x \in MessageKinds :
           d.setupSizes[x].count = c.setupSizes[x].count + o.setupSizes[x].count
  BY MergedTally DEF Stages
<1>2. /\ c.sizes \in [ MessageKinds -> MetricType ] /\ o.sizes \in [ MessageKinds -> MetricType ]
      /\ c.setupSizes \in [ MessageKinds -> MetricType ]
      /\ o.setupSizes \in [ MessageKinds -> MetricType ]
  BY DEF TallyType
<1>3. \A x \in IterationMessages : d.sizes[x].count <= n + m
  <2> SUFFICES ASSUME NEW x \in IterationMessages PROVE d.sizes[x].count <= n + m
    OBVIOUS
  <2>1. c.sizes[x] \in MetricType /\ o.sizes[x] \in MetricType
    BY <1>2, MessagesApart
  <2>2. c.sizes[x].count <= n /\ o.sizes[x].count <= m
    BY DEF Holds
  <2>3. d.sizes[x].count = c.sizes[x].count + o.sizes[x].count
    BY <1>1, MessagesApart
  <2> QED
    BY <2>1, <2>2, <2>3 DEF MetricType
<1>4. \A x \in SetupMessages : d.sizes[x].count = 0 /\ d.setupSizes[x].count <= k + 1
  <2> SUFFICES ASSUME NEW x \in SetupMessages
               PROVE  d.sizes[x].count = 0 /\ d.setupSizes[x].count <= k + 1
    OBVIOUS
  <2>1. c.setupSizes[x] \in MetricType /\ o.setupSizes[x] \in MetricType
    BY <1>2, MessagesApart
  <2>2. /\ c.sizes[x].count = 0 /\ o.sizes[x].count = 0
        /\ c.setupSizes[x].count <= k /\ o.setupSizes[x].count <= 1
    BY DEF Holds
  <2>3. /\ d.sizes[x].count = c.sizes[x].count + o.sizes[x].count
        /\ d.setupSizes[x].count = c.setupSizes[x].count + o.setupSizes[x].count
    BY <1>1, MessagesApart
  <2> QED
    BY <2>1, <2>2, <2>3 DEF MetricType
<1> QED
  BY <1>1, <1>3, <1>4 DEF Holds

\* Merging adds what two collectors say of a happening.
LEMMA EntriesMerged ==
  ASSUME NEW c \in TallyType, NEW o \in TallyType, NEW k \in Happenings
  PROVE  Entry(Collector!MergeFrom(c, o), k) = Entry(c, k) + Entry(o, k)
<1>1. k = "detections" \/ k \in MessageKinds
  BY DEF Happenings
<1> QED
  BY <1>1, MergedTally DEF Entry

\* Merging the collectors, and the report of the merged one.
LEMMA ResultAudits ==
  ASSUME IInv, AInv, AuditResult
  PROVE  AInv'
<1> USE DEF AInv
<1>1. UNCHANGED <<config, plan, workerVars, configVars, scenarioVars, history>>
  BY DEF AuditResult, StartMerge, MergeSlot, ComputeResult
<1>2. \A s \in Workers : FileInv(s)' /\ VerdictInv(s)' /\ TallyInv(s)'
  BY <1>1, WorkersKept
<1>3. mergedTally' \in TallyType => AuditTypes'
  BY <1>1, ConfigurationKept DEF AuditTypes, scenarioVars, history
<1>4. /\ WellFormed(plan) /\ plan.effective \in Nat \ {0} /\ plan.effective <= MaxWorkers
      /\ MaxWorkers \in Nat /\ Workers = 0 .. MaxWorkers - 1
      /\ Slots(plan) = 0 .. plan.effective - 1
  BY PlanNumbers DEF IInv, Slots, Workers
<1>5. AllDone(Slots(plan)) /\ NoFailure(Slots(plan))
  BY <1>4 DEF IInv, MainInv, AuditResult, StartMerge, MergeSlot, ComputeResult
<1>6. ASSUME mpc' \in {"merge", "returned"},
             NEW k \in Happenings,
             \A sum \in [ 0 .. MaxWorkers -> 0 .. Total(k) ] :
               /\ SumsEntries(sum, k)
               /\ mpc \in {"merge", "returned"} => Entry(mergedTally, k) = sum[cursor]
               => Entry(mergedTally', k) = sum[cursor']
      PROVE  TotalInv(k)'
  <2>1. /\ Total(k)' = Total(k) /\ tally' = tally /\ plan' = plan /\ TotalInv(k)
        /\ Total(k) \in Nat
    BY <1>1 DEF scenarioVars, history, TotalsInv, TotalInv, Total
  <2>2. PICK sum \in [ 0 .. MaxWorkers -> 0 .. Total(k) ] :
          /\ SumsEntries(sum, k)
          /\ \A i \in plan.effective .. MaxWorkers : sum[i] = Total(k)
          /\ mpc \in {"merge", "returned"} => Entry(mergedTally, k) = sum[cursor]
    BY <2>1 DEF TotalInv
  <2>3. SumsEntries(sum, k)'
    BY <2>1, <2>2 DEF SumsEntries, Entry
  <2>4. Entry(mergedTally', k) = sum[cursor']
    BY <1>6, <2>2
  <2> QED
    BY <1>6, <2>1, <2>2, <2>3, <2>4 DEF TotalInv, Entry
<1>7. CASE StartMerge
  <2>1. mergedTally' = tally[0] /\ cursor' = 1 /\ mpc' = "merge"
    BY <1>7 DEF AuditResult, StartMerge, MergeSlot, ComputeResult
  <2>2. 0 \in Slots(plan)
    BY <1>4
  <2>3. /\ tally[0] \in TallyType
        /\ Holds(tally[0], SlotCount(plan, 0), SlotCount(plan, 0), 1)
        /\ Stale = {} => tally[0].counts["detections"] = 0
    BY <1>5, <2>2, SlotTally
  <2>4. SlotBegin(plan, 1) = SlotCount(plan, 0)
    <3>1. SlotBegin(plan, 0 + 1) = SlotBegin(plan, 0) + SlotCount(plan, 0)
      BY <1>5, <2>2, DoneSlot
    <3>2. SlotBegin(plan, 0) = 0 /\ SlotCount(plan, 0) \in Nat /\ 0 + 1 = 1
      BY <1>4, FirstSlot, SlotNumbers DEF IInv
    <3> QED
      BY <3>1, <3>2
  <2>5. MergedInv'
    BY <1>1, <1>4, <2>1, <2>3, <2>4, ConfigurationKept DEF MergedInv, Holds
  <2>6. TotalsInv'
    <3> SUFFICES ASSUME NEW k \in Happenings PROVE TotalInv(k)'
      BY DEF TotalsInv
    <3>1. 0 \in Workers /\ 0 + 1 = 1
      BY <1>4
    <3>2. Entry(tally[0], k) \in Nat
      BY <2>3, EntryNumbers
    <3>3. ASSUME NEW sum \in [ 0 .. MaxWorkers -> 0 .. Total(k) ], SumsEntries(sum, k)
          PROVE  Entry(mergedTally', k) = sum[cursor']
      <4>1. sum[0] = 0 /\ sum[0 + 1] = sum[0] + Entry(tally[0], k)
        BY <3>1, <3>3 DEF SumsEntries
      <4> QED
        BY <2>1, <3>1, <3>2, <4>1
    <3> QED
      BY <1>6, <2>1, <3>3
  <2> QED
    BY <1>2, <1>3, <2>1, <2>3, <2>5, <2>6
<1>8. CASE MergeSlot
  <2>1. /\ mergedTally' = Collector!MergeFrom(mergedTally, tally[cursor])
        /\ cursor' = cursor + 1 /\ mpc = "merge" /\ mpc' = "merge" /\ cursor < plan.effective
    BY <1>8 DEF AuditResult, StartMerge, MergeSlot, ComputeResult
  <2>2. /\ cursor \in 1 .. plan.effective
        /\ mergedTally \in TallyType
        /\ Holds(mergedTally, SlotBegin(plan, cursor), SlotBegin(plan, cursor), cursor)
        /\ Stale = {} => mergedTally.counts["detections"] = 0
    BY <2>1 DEF MergedInv, AuditTypes
  <2>3. cursor \in Slots(plan) /\ cursor \in Nat /\ cursor + 1 \in 1 .. plan.effective
    BY <1>4, <2>1, <2>2
  <2>4. /\ cursor \in Workers /\ tally[cursor] \in TallyType
        /\ Holds(tally[cursor], SlotCount(plan, cursor), SlotCount(plan, cursor), 1)
        /\ Stale = {} => tally[cursor].counts["detections"] = 0
    BY <1>5, <2>3, SlotTally
  <2>5. SlotBegin(plan, cursor + 1) = SlotBegin(plan, cursor) + SlotCount(plan, cursor)
        /\ SlotBegin(plan, cursor) \in Nat /\ SlotCount(plan, cursor) \in Nat
    BY <1>5, <2>3, DoneSlot, SlotNumbers DEF IInv
  <2>6. /\ mergedTally' \in TallyType
        /\ mergedTally'.counts["detections"]
             = mergedTally.counts["detections"] + tally[cursor].counts["detections"]
    BY <2>1, <2>2, <2>4, MergedTally
  <2>7. Holds(mergedTally', SlotBegin(plan, cursor'), SlotBegin(plan, cursor'), cursor')
    BY <2>1, <2>2, <2>3, <2>4, <2>5, HoldsMerged
  <2>8. MergedInv'
    BY <1>1, <2>1, <2>2, <2>3, <2>4, <2>6, <2>7, ConfigurationKept DEF MergedInv, Holds
  <2>9. TotalsInv'
    <3> SUFFICES ASSUME NEW k \in Happenings PROVE TotalInv(k)'
      BY DEF TotalsInv
    <3>1. Entry(mergedTally', k) = Entry(mergedTally, k) + Entry(tally[cursor], k)
      BY <2>1, <2>2, <2>4, EntriesMerged
    <3>2. ASSUME NEW sum \in [ 0 .. MaxWorkers -> 0 .. Total(k) ], SumsEntries(sum, k),
                 Entry(mergedTally, k) = sum[cursor]
          PROVE  Entry(mergedTally', k) = sum[cursor']
      BY <2>1, <2>4, <3>1, <3>2 DEF SumsEntries
    <3> QED
      BY <1>6, <2>1, <3>2
  <2> QED
    BY <1>2, <1>3, <2>1, <2>6, <2>8, <2>9
<1>9. CASE ComputeResult
  <2>1. /\ report' = Collector!FillPdp(mergedTally, config.iterations)
        /\ mergedTally' = mergedTally /\ cursor' = cursor
        /\ mpc = "merge" /\ mpc' = "returned" /\ cursor = plan.effective
    BY <1>9 DEF AuditResult, StartMerge, MergeSlot, ComputeResult
  <2>2. MergedInv'
    BY <1>1, <2>1, ConfigurationKept DEF MergedInv, Holds
  <2>3. TotalsInv'
    <3> SUFFICES ASSUME NEW k \in Happenings PROVE TotalInv(k)'
      BY DEF TotalsInv
    <3> QED
      BY <1>6, <2>1
  <2> QED
    BY <1>2, <1>3, <2>1, <2>2, <2>3 DEF AuditTypes
<1> QED
  BY <1>7, <1>8, <1>9 DEF AuditResult

------------------------------------------------------------------------------
(* The invariant, and what follows from it. *)

\* A step of the composed run keeps AInv.
LEMMA AuditStep ==
  ASSUME IInv, AInv, [NextAudit]_allVars
  PROVE  AInv'
<1>1. CASE AuditMain
  <2>1. AuditPlan \/ AuditResult \/ AuditElsewhere
    BY <1>1 DEF AuditMain, AuditElsewhere
  <2> QED
    BY <2>1, PlanAudits, ResultAudits, ElsewhereAudits
<1>2. CASE \E s \in Workers : AuditWorker(s)
  BY <1>2, AuditWorkerStep
<1>3. CASE AuditDone \/ UNCHANGED allVars
  <2>1. UNCHANGED <<vars, configVars, scenarioVars, reportVars, history>>
    BY <1>3 DEF AuditDone, allVars
  <2>2. UNCHANGED <<config, plan, mpc, cursor, workerVars>>
    BY <2>1 DEF vars, mainVars
  <2>3. \A s \in Workers : FileInv(s)' /\ VerdictInv(s)' /\ TallyInv(s)'
    BY <2>1, <2>2, WorkersKept
  <2>4. AuditTypes'
    BY <2>1, ConfigurationKept DEF AInv, AuditTypes, scenarioVars, reportVars, history
  <2>5. MergedInv'
    BY <2>1, <2>2, ConfigurationKept DEF AInv, MergedInv, Holds, reportVars
  <2>6. TotalsInv'
    BY <2>1, <2>2, TotalsKept DEF AInv, scenarioVars, reportVars, history
  <2> QED
    BY <2>3, <2>4, <2>5, <2>6 DEF AInv
<1> QED
  BY <1>1, <1>2, <1>3 DEF NextAudit

(***************************************************************************)
(* In every reachable state each worker audits a file damaged as the       *)
(* configuration says, its verdict is that of its latest challenge, its    *)
(* collector holds the iterations it ran, and all collectors together the  *)
(* challenges that met a damaged block as detections and the messages that *)
(* were left behind as traffic.                                            *)
(***************************************************************************)
THEOREM AuditInvariant == SpecAudit => [](IInv /\ AInv)
<1>1. SpecAudit => []IInv
  BY AuditRunsRunner, RunnerInvariant, PTL
<1>2. InitAudit => AInv
  BY InitAInv
<1>3. IInv /\ AInv /\ [NextAudit]_allVars => AInv'
  BY AuditStep
<1> QED
  BY <1>1, <1>2, <1>3, PTL DEF SpecAudit

(***************************************************************************)
(* Every iteration audits a file with exactly the configured number of     *)
(* damaged blocks, in every worker and for either kind of strategy.        *)
(***************************************************************************)
THEOREM DamageIsConfigured == SpecAudit => []DamagedAsConfigured
<1>1. IInv /\ AInv => DamagedAsConfigured
  <2> SUFFICES ASSUME AInv, NEW s \in Workers, wpc[s] \in {"loop", "record"}
               PROVE  Cardinality(Mismatched(scenario[s]))
                        = (IF kind = "static" /\ audit.blockSize = 0 THEN 0 ELSE Damaged)
    BY DEF DamagedAsConfigured
  <2>1. Mismatched(scenario[s]) = Stale
    BY DEF AInv, FileInv
  <2>2. Cardinality(chosen) = Damaged
    BY ChosenBlocks DEF AInv
  <2> QED
    BY <2>1, <2>2, FS_EmptySet DEF Stale
<1> QED
  BY <1>1, AuditInvariant, PTL

\* The merged collector of a result: all slots, and so all configured iterations.
LEMMA ReturnedTally ==
  ASSUME IInv, AInv, mpc = "returned"
  PROVE  /\ report = Collector!FillPdp(mergedTally, config.iterations)
         /\ Holds(mergedTally, config.iterations, config.iterations, plan.effective)
         /\ Stale = {} => mergedTally.counts["detections"] = 0
         /\ \A k \in Happenings : Entry(mergedTally, k) = Total(k)
<1>1. SlotBegin(plan, plan.effective) = config.iterations
  BY PlanNumbers, LastSlot DEF IInv, PlanInv
<1>2. cursor = plan.effective
  BY DEF AInv, MergedInv
<1>3. plan.effective \in plan.effective .. MaxWorkers
  BY PlanNumbers DEF IInv
<1>4. ASSUME NEW k \in Happenings
      PROVE  Entry(mergedTally, k) = Total(k)
  BY <1>2, <1>3 DEF AInv, TotalsInv, TotalInv
<1> QED
  BY <1>1, <1>2, <1>4 DEF AInv, MergedInv

(***************************************************************************)
(* Where the theory is certain the benchmark observes it: nothing is       *)
(* detected where nothing is damaged, and no challenge that is larger than *)
(* the intact part of the file misses.                                     *)
(***************************************************************************)
THEOREM CertaintyObserved == SpecAudit => []CertaintyIsObserved
<1>1. IInv /\ AInv => CertaintyIsObserved
  <2> SUFFICES ASSUME IInv, AInv, mpc = "returned", kind = "static" => audit.blockSize > 0
               PROVE  /\ audit.corrupted = 0 => report.detections = 0
                      /\ audit.corrupted > 0 /\ audit.total > 0
                           /\ audit.sample > audit.total - Damaged =>
                             report.detections = config.iterations
    BY DEF CertaintyIsObserved
  <2>1. AuditTypes /\ audit.blockSize \in Nat
    BY ChosenBlocks DEF AInv
  <2>2. Stale = chosen
    BY <2>1 DEF Stale
  <2>3. report.detections = mergedTally.counts["detections"]
    BY ReturnedTally DEF Collector!FillPdp
  <2>4. audit.corrupted = 0 => report.detections = 0
    BY <2>1, <2>2, <2>3, ChosenBlocks, ReturnedTally
  <2>5. Certain => report.detections = config.iterations
    BY <2>3, ReturnedTally DEF Holds
  <2> QED
    BY <2>1, <2>2, <2>4, <2>5, NoChallengeMisses
<1> QED
  BY <1>1, AuditInvariant, PTL

(***************************************************************************)
(* Reported detections are challenges that met a damaged block, every      *)
(* configured iteration was timed once, and the reported traffic is the    *)
(* messages the engine left behind, at most one of a kind in an iteration  *)
(* and one of tags in a worker's setup.                                    *)
(***************************************************************************)
THEOREM AuditsAreAccounted == SpecAudit => []AuditsAccounted
<1>1. IInv /\ AInv => AuditsAccounted
  <2> SUFFICES ASSUME IInv, AInv, mpc = "returned" PROVE AuditsAccounted
    BY DEF AuditsAccounted
  <2>1. /\ report.detections = mergedTally.counts["detections"]
        /\ report.common.timings = mergedTally.timings
        /\ report.common.sizes = mergedTally.sizes
        /\ report.common.setupSizes = mergedTally.setupSizes
    BY ReturnedTally DEF Collector!FillPdp, Collector!FillCommon
  <2>2. /\ mergedTally.counts["detections"] = strikes
        /\ \A m \in IterationMessages : mergedTally.sizes[m].count = sent[m]
        /\ \A m \in SetupMessages : mergedTally.setupSizes[m].count = sent[m]
    BY ReturnedTally, MessagesApart DEF Entry, Total, Happenings
  <2>3. Holds(mergedTally, config.iterations, config.iterations, plan.effective)
    BY ReturnedTally
  <2> QED
    BY <2>1, <2>2, <2>3 DEF AuditsAccounted, Holds
<1> QED
  BY <1>1, AuditInvariant, PTL
==============================================================================
