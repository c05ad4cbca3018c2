-------------------------- MODULE MetricsCollector ---------------------------
(***************************************************************************)
(* The MetricsCollector class (metrics_collector.h) as values and the      *)
(* operators on them: what each recorder adds, how two collectors merge,   *)
(* what the result fillers report.                                         *)
(*                                                                         *)
(* A timing or message metric is its total, its count and the average the  *)
(* code stores beside them.  An average is kept as the fraction it was     *)
(* computed from, so an average that was not recomputed can be told.       *)
(***************************************************************************)
EXTENDS Integers

CONSTANTS
  Stages,     \* fields of StageTimings
  Messages    \* fields of MessageSizes; "tags" is the one some helpers leave out

\* A division the code guards: 0 when there is nothing to divide by.
Fraction(n, d) == IF d > 0 THEN <<n, d>> ELSE <<0, 1>>

NoMetric == [ total |-> 0, count |-> 0, average |-> <<0, 1>> ]

\* A metric as a scenario hands it over, its average already computed.
Measured(total, count) == [ total |-> total, count |-> count, average |-> Fraction(total, count) ]

NoTimings == [ s \in Stages |-> NoMetric ]
NoSizes   == [ m \in Messages |-> NoMetric ]

Normalize(metric) == [ metric EXCEPT !.average = Fraction(metric.total, metric.count) ]

\* Mutated form of Add: the average of the receiver is left as it was.
AddKeepsAverage(metric, sample) ==
  [ metric EXCEPT !.total = @ + sample.total, !.count = @ + sample.count ]

Add(metric, sample) ==
  Normalize([ metric EXCEPT !.total = @ + sample.total, !.count = @ + sample.count ])

NormalizeTimings(timings) == [ s \in Stages |-> Normalize(timings[s]) ]

\* The tags metric is not among those normalize(MessageSizes&) recomputes.
NormalizeSizes(sizes) ==
  [ m \in Messages |-> IF m = "tags" THEN sizes[m] ELSE Normalize(sizes[m]) ]

AddTimings(timings, sample) == [ s \in Stages |-> Add(timings[s], sample[s]) ]
AddSizes(sizes, sample)     == [ m \in Messages |-> Add(sizes[m], sample[m]) ]

------------------------------------------------------------------------------
(* The collector. *)

Counters == { "iterations", "detections",
              "succeeded", "failed",
              "samples", "trueAccepts", "falseAccepts", "trueRejects", "falseRejects" }

Fresh == [ counts                |-> [ k \in Counters |-> 0 ],
           finalBlocks           |-> 0,
           setupTimings          |-> NoTimings,
           setupSizes            |-> NoSizes,
           setupTimingsRecorded  |-> FALSE,
           setupSizesRecorded    |-> FALSE,
           timings               |-> NoTimings,
           sizes                 |-> NoSizes,
           memoryPeak            |-> 0 ]

Increment(c, names) ==
  [ c EXCEPT !.counts = [ k \in Counters |-> c.counts[k] + (IF k \in names THEN 1 ELSE 0) ] ]

RecordOutcome(c, detected) ==
  Increment(c, IF detected THEN {"iterations", "detections"} ELSE {"iterations"})

RecordMaintenanceOutcome(c, succeeded) ==
  Increment(c, IF succeeded THEN {"succeeded"} ELSE {"failed"})

RecordIdentityOutcome(c, accepted, groundTruth) ==
  Increment(c, {"samples",
    CASE   accepted /\   groundTruth -> "trueAccepts"
      []   accepted /\ ~ groundTruth -> "falseAccepts"
      [] ~ accepted /\ ~ groundTruth -> "trueRejects"
      [] ~ accepted /\   groundTruth -> "falseRejects" })

\* The latest count replaces the one before.
RecordWorkerFinalBlockCount(c, blocks) == [ c EXCEPT !.finalBlocks = blocks ]

RecordSetupTimings(c, timings) ==
  IF c.setupTimingsRecorded THEN c
  ELSE [ c EXCEPT !.setupTimings = NormalizeTimings(timings),
                  !.setupTimingsRecorded = TRUE ]

\* Mutated form of RecordSetupMessageSizes: a later record replaces the first.
RecordSetupMessageSizesLast(c, sizes) ==
  [ c EXCEPT !.setupSizes = NormalizeSizes(sizes), !.setupSizesRecorded = TRUE ]

RecordSetupMessageSizes(c, sizes) ==
  IF c.setupSizesRecorded THEN c
  ELSE [ c EXCEPT !.setupSizes = NormalizeSizes(sizes),
                  !.setupSizesRecorded = TRUE ]

RecordTimings(c, timings) == [ c EXCEPT !.timings = AddTimings(c.timings, timings) ]

\* Messages of an iteration are added, the tags of the setup phase excepted.
RecordMessageSizes(c, sizes) ==
  [ c EXCEPT !.sizes = [ AddSizes(c.sizes, sizes) EXCEPT !["tags"] = c.sizes["tags"] ] ]

SetMemoryPeak(c, bytes) == [ c EXCEPT !.memoryPeak = bytes ]

Reset(c) ==
  [ c EXCEPT !.counts = [ k \in Counters |-> 0 ],
             !.setupTimings = NoTimings, !.timings = NoTimings,
             !.setupSizes = NoSizes, !.sizes = NoSizes,
             !.setupTimingsRecorded = FALSE, !.setupSizesRecorded = FALSE,
             !.memoryPeak = 0, !.finalBlocks = 0 ]

\* Mutated form of MergeFrom: one outcome counter is forgotten.
MergeFromForgetsRejects(c, other) ==
  [ c EXCEPT !.counts = [ k \in Counters |-> IF k = "falseRejects" THEN c.counts[k]
                                             ELSE c.counts[k] + other.counts[k] ],
             !.timings = AddTimings(c.timings, other.timings),
             !.sizes = AddSizes(c.sizes, other.sizes) ]

\* Mutated form of MergeFrom: the receiver keeps its own setup record.
MergeFromKeepsSetup(c, other) ==
  [ c EXCEPT !.counts = [ k \in Counters |-> c.counts[k] + other.counts[k] ],
             !.finalBlocks = @ + other.finalBlocks,
             !.timings = AddTimings(c.timings, other.timings),
             !.sizes = AddSizes(c.sizes, other.sizes) ]

(***************************************************************************)
(* Everything is summed, the setup metrics and the final block counts      *)
(* included; the flags are joined; the memory peak is the higher one.      *)
(***************************************************************************)
MergeFrom(c, other) ==
  [ counts               |-> [ k \in Counters |-> c.counts[k] + other.counts[k] ],
    finalBlocks          |-> c.finalBlocks + other.finalBlocks,
    setupTimings         |-> AddTimings(c.setupTimings, other.setupTimings),
    setupSizes           |-> AddSizes(c.setupSizes, other.setupSizes),
    setupTimingsRecorded |-> c.setupTimingsRecorded \/ other.setupTimingsRecorded,
    setupSizesRecorded   |-> c.setupSizesRecorded \/ other.setupSizesRecorded,
    timings              |-> AddTimings(c.timings, other.timings),
    sizes                |-> AddSizes(c.sizes, other.sizes),
    memoryPeak           |-> IF c.memoryPeak >= other.memoryPeak
                             THEN c.memoryPeak ELSE other.memoryPeak ]

------------------------------------------------------------------------------
(* The result fillers. *)

FillCommon(c, iterations) ==
  [ iterations |-> iterations, setupTimings |-> c.setupTimings, timings |-> c.timings,
    setupSizes |-> c.setupSizes, sizes |-> c.sizes, memoryPeak |-> c.memoryPeak ]

FillPdp(c, iterations) ==
  [ common         |-> FillCommon(c, iterations),
    detections     |-> c.counts["detections"],
    confidenceRate |-> Fraction(c.counts["detections"], c.counts["iterations"]) ]

FillMaintenance(c, iterations) ==
  [ common      |-> FillCommon(c, iterations),
    succeeded   |-> c.counts["succeeded"],
    failed      |-> c.counts["failed"],
    finalBlocks |-> c.finalBlocks ]

\* The per-iteration averages divide by the configured number of iterations.
FillIdentity(c, iterations) ==
  [ common       |-> FillCommon(c, iterations),
    samples      |-> c.counts["samples"],
    accuracyRate |-> Fraction(c.counts["trueAccepts"] + c.counts["trueRejects"],
                              c.counts["samples"]),
    averages     |-> [ k \in {"samples", "trueAccepts", "falseAccepts", "trueRejects",
                              "falseRejects"} |-> Fraction(c.counts[k], iterations) ] ]
==============================================================================
