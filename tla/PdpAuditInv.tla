------------------------------ MODULE PdpAuditInv ------------------------------
(***************************************************************************)
(* The inductive invariant of PdpAudit: the file each worker audits, what  *)
(* its verdicts and its collector say of it, what the merged collector     *)
(* holds of the slots merged so far, and how the challenges that met a     *)
(* damaged block and the messages left behind add up over the workers.  It *)
(* is inductive beside the runner's own invariant.                         *)
(***************************************************************************)
EXTENDS PdpAudit, BenchmarkRunnerInv

Stages == SetupStages \cup IterationStages

MetricType == [ total : Nat, count : Nat, average : Nat \X Nat ]

TallyType ==
  [ counts               : [ Collector!Counters -> Nat ],
    finalBlocks          : Int,
    setupTimings         : [ Stages -> MetricType ],
    setupSizes           : [ MessageKinds -> MetricType ],
    setupTimingsRecorded : BOOLEAN,
    setupSizesRecorded   : BOOLEAN,
    timings              : [ Stages -> MetricType ],
    sizes                : [ MessageKinds -> MetricType ],
    memoryPeak           : Nat ]

AuditTypes ==
  /\ kind \in {"static", "dynamic", "none"}
  /\ audit \in [ total : Files, corrupted : Corruptions, sample : Samples, blockSize : BlockSizes ]
  /\ chosen \in kSubset(Damaged, 0 .. audit.total - 1)
  /\ DOMAIN scenario = Workers
  /\ scenario = [ s \in Workers |-> scenario[s] ]
  /\ lastDetected \in [ Workers -> BOOLEAN ]
  /\ struck \in [ Workers -> BOOLEAN ]
  /\ sent \in [ MessageKinds -> Nat ]
  /\ tally \in [ Workers -> TallyType ]
  /\ mergedTally \in TallyType

------------------------------------------------------------------------------
(* A worker. *)

\* The file as setup leaves it.
Undamaged == [ flipped |-> {}, versions |-> FirstVersions, tagged |-> FirstVersions ]

\* The blocks an audited file has that are not what their tags were made from.
Stale == IF kind = "static" /\ audit.blockSize = 0 THEN {} ELSE chosen

\* No challenge can miss them.
Certain == \A challenge \in Challenges : challenge \cap Stale # {}

FileInv(s) ==
  /\ wpc[s] = "prepare" => kind # "none" /\ scenario[s] = Undamaged
  /\ wpc[s] \in {"loop", "record"} => Mismatched(scenario[s]) = Stale

\* The verdict about to be recorded is this iteration's.
VerdictInv(s) ==
  wpc[s] = "record" =>
    /\ lastDetected[s] = struck[s]
    /\ Stale = {} => ~ struck[s]
    /\ Certain => struck[s]

\* A worker that set its file up and has not failed.
Healthy(s) ==
  \/ wpc[s] \in {"prepare", "loop", "record"}
  \/ wpc[s] = "done" /\ failures[s] = "none"

\* What a collector holds of a number of timed and of recorded iterations, and of
\* setups; of messages, at most one of each kind.
Holds(c, timed, recorded, setUp) ==
  /\ \A st \in IterationStages : c.timings[st].count = timed
  /\ \A m \in IterationMessages : c.sizes[m].count <= timed
  /\ \A m \in SetupMessages : c.sizes[m].count = 0 /\ c.setupSizes[m].count <= setUp
  /\ Certain => c.counts["detections"] = recorded

TallyInv(s) ==
  /\ wpc[s] \in {"idle", "create", "setup"} => tally[s] = Collector!Fresh
  /\ Stale = {} => tally[s].counts["detections"] = 0
  /\ Healthy(s) => Holds(tally[s], collectors[s].timings, collectors[s].outcomes, 1)

------------------------------------------------------------------------------
(* The main thread, and the workers together. *)

\* The merged collector holds the slots before the cursor, and the report is of it.
MergedInv ==
  /\ mpc \in {"merge", "returned"} =>
       /\ cursor \in 1 .. plan.effective
       /\ Holds(mergedTally, SlotBegin(plan, cursor), SlotBegin(plan, cursor), cursor)
       /\ Stale = {} => mergedTally.counts["detections"] = 0
  /\ mpc = "returned" =>
       /\ cursor = plan.effective
       /\ report = Collector!FillPdp(mergedTally, config.iterations)

\* What happens in a run and is counted twice: by the history and by a collector.
Happenings == {"detections"} \cup MessageKinds

\* How often it happened.
Total(k) == IF k = "detections" THEN strikes ELSE sent[k]

\* How often a collector says so.
Entry(c, k) == IF k = "detections" THEN c.counts[k]
               ELSE IF k \in SetupMessages THEN c.setupSizes[k].count ELSE c.sizes[k].count

\* A function that sums the entries of the workers below its argument.
SumsEntries(sum, k) ==
  /\ sum[0] = 0
  /\ \A s \in Workers : sum[s + 1] = sum[s] + Entry(tally[s], k)

(***************************************************************************)
(* What happened is what all workers counted: the recorded challenges that *)
(* met a damaged block are the detections, the messages left behind those  *)
(* measured.  The plan's slots make up all of it, and the slots merged so  *)
(* far what the merged collector holds.                                    *)
(***************************************************************************)
TotalInv(k) ==
  /\ Total(k) \in Nat
  /\ mpc \in {"create", "plan", "validate"} => Total(k) = 0
  /\ \E sum \in [ 0 .. MaxWorkers -> 0 .. Total(k) ] :
       /\ SumsEntries(sum, k)
       /\ \A i \in plan.effective .. MaxWorkers : sum[i] = Total(k)
       /\ mpc \in {"merge", "returned"} => Entry(mergedTally, k) = sum[cursor]

TotalsInv == \A k \in Happenings : TotalInv(k)

AInv ==
  /\ AuditTypes
  /\ \A s \in Workers : FileInv(s) /\ VerdictInv(s) /\ TallyInv(s)
  /\ MergedInv
  /\ TotalsInv
==============================================================================
