-------------------------- MODULE IdentityVerifyInv ---------------------------
(***************************************************************************)
(* The inductive invariant of IdentityVerify: which kinds of sample are    *)
(* left to make, how the traffic of an iteration follows from the samples  *)
(* there are, how its outcomes follow from those verified so far, and how  *)
(* the collector follows from the iterations recorded.                     *)
(***************************************************************************)
EXTENDS IdentityVerify

SampleType ==
  [ signatures   : Seq([ key : Int, message : {"signed", "altered"} ]),
    userIds      : Seq(Nat),
    message      : {"signed", "altered"},
    shouldAccept : BOOLEAN ]

MetricType == [ total : Nat, count : Nat, average : Nat \X Nat ]

TallyType ==
  [ counts               : [ Collector!Counters -> Nat ],
    finalBlocks          : Int,
    setupTimings         : [ Stages -> MetricType ],
    setupSizes           : [ Messages -> MetricType ],
    setupTimingsRecorded : BOOLEAN,
    setupSizesRecorded   : BOOLEAN,
    timings              : [ Stages -> MetricType ],
    sizes                : [ Messages -> MetricType ],
    memoryPeak           : Nat ]

IdentityTypes ==
  /\ config \in [ users : UserCounts, samples : SampleCounts, shares : NegativeShares ]
  /\ algorithm \in [ online : BOOLEAN, sound : BOOLEAN ]
  /\ pc \in {"setup", "loop", "generate", "verify", "record", "compute", "returned", "failed"}
  /\ iteration \in 0 .. Iterations
  /\ users \in Nat /\ forgerKey \in BOOLEAN
  /\ quota \in [ Kinds -> Nat ]
  /\ samples \in Seq(SampleType)
  /\ pending \subseteq 1 .. Len(samples)
  /\ last \in [ Outcomes -> Nat ]
  /\ lastTimings \in [ Stages -> MetricType ] /\ lastSizes \in [ Messages -> MetricType ]
  /\ collector \in TallyType
  /\ constructed \in [ BOOLEAN -> Nat ] /\ abandoned \in Nat

------------------------------------------------------------------------------
(* An iteration. *)

InIteration == pc \in {"generate", "verify", "record"}

\* An iteration begun is one of those to be made.
PlaceInv == InIteration => iteration < Iterations

\* The keys are those of the configuration while a worker is at work.
KeysInv == InIteration \/ pc = "loop" => users = config.users

Left(q) == q["positive"] + q["forgery"] + q["tampered"] + q["impersonation"]

\* What was made, given up and is still to make is what was planned; kinds that need a
\* second user are not made without one.
QuotaInv ==
  InIteration =>
    /\ Len(samples) + abandoned + Left(quota) = Left(InitialQuota)
    /\ \A k \in {"forgery", "impersonation"} : quota[k] > 0 => config.users >= 2
    /\ pc # "generate" => \A k \in Kinds : quota[k] = 0

\* The samples that have an outcome, and those of one label.
Done == (1 .. Len(samples)) \ pending
DoneWith(label) == { i \in Done : samples[i].shouldAccept = label }

SigningInv ==
  InIteration =>
    /\ lastTimings["sign"].count = config.users * (Len(samples) + abandoned)
    /\ lastSizes["signing"].count = lastTimings["sign"].count - abandoned
    /\ lastSizes["verification"].count = lastTimings["aggregateVerify"].count

\* Each sample taken so far was aggregated once and has one outcome, on its label's side.
OutcomeInv ==
  /\ pc = "generate" => last = NoOutcomes /\ lastTimings["aggregate"].count = 0
  /\ pc \in {"verify", "record"} =>
       /\ lastTimings["aggregate"].count = Cardinality(Done)
       /\ last["trueAccept"] + last["falseReject"] = Cardinality(DoneWith(TRUE))
       /\ last["falseAccept"] + last["trueReject"] = Cardinality(DoneWith(FALSE))
  /\ pc = "record" => pending = {}

------------------------------------------------------------------------------
(* The collector and the report. *)

CountInv ==
  LET counted == collector.counts
  IN  /\ counted["trueAccepts"] + counted["falseRejects"] = constructed[TRUE]
      /\ counted["falseAccepts"] + counted["trueRejects"] = constructed[FALSE]
      /\ counted["samples"] = constructed[TRUE] + constructed[FALSE]

SoundInv ==
  algorithm.sound /\ config.users > 0 =>
    /\ last["falseAccept"] = 0 /\ last["falseReject"] = 0
    /\ collector.counts["falseAccepts"] = 0 /\ collector.counts["falseRejects"] = 0

ReportInv ==
  pc = "returned" => report.identity = Collector!FillIdentity(collector, Iterations)

IdentityInv ==
  /\ IdentityTypes
  /\ PlaceInv /\ KeysInv /\ QuotaInv /\ SigningInv /\ OutcomeInv
  /\ LabelsTrue
  /\ CountInv /\ SoundInv /\ ReportInv
==============================================================================
