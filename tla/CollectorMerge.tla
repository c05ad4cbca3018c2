--------------------------- MODULE CollectorMerge ----------------------------
(***************************************************************************)
(* The life of a run's collectors: worker-local collectors record their    *)
(* worker's setup and iterations in any interleaving, the main thread      *)
(* merges them in slot order and fills a result, and a collector can be    *)
(* reset.  Beside them runs a history: one collector that records every    *)
(* iteration of every worker itself, and the records each worker made.     *)
(***************************************************************************)
EXTENDS MetricsCollector, Sequences, FiniteSetsExt, Functions

CONSTANTS
  NumWorkers,   \* collectors merged
  MaxRounds     \* iterations per worker

ASSUME MergeAssumption == NumWorkers \in Nat \ {0} /\ MaxRounds \in Nat

Workers == 1 .. NumWorkers

VARIABLES
  kind,         \* the scenario: which outcome recorder an iteration uses
  collectors,   \* the worker-local collectors
  rounds,       \* iterations recorded per worker
  phase,        \* "collect", "merge", "reported", "reset"
  cursor,       \* merge loop index
  merged,       \* the collector the others are merged into
  result,       \* the filled result, once there is one
  whole,        \* history: one collector that recorded every iteration
  setups,       \* history: setup records made, per worker, in order
  latest,       \* history: last block count recorded, per worker
  agreed        \* history: identity samples accepted exactly when they should be

vars == <<kind, collectors, rounds, phase, cursor, merged, result, whole, setups, latest, agreed>>

Init ==
  /\ kind \in {"pdp", "identity", "maintenance"}
  /\ collectors = [ w \in Workers |-> Fresh ]
  /\ rounds = [ w \in Workers |-> 0 ]
  /\ phase = "collect" /\ cursor = 0
  /\ merged = Fresh /\ whole = Fresh
  /\ result = <<>>
  /\ setups = [ w \in Workers |-> <<>> ]
  /\ latest = [ w \in Workers |-> 0 ]
  /\ agreed = 0

------------------------------------------------------------------------------
(* What a scenario hands over: every stage measured alike, the tags        *)
(* message in the setup phase only.                                        *)
Timed(total, count) == [ s \in Stages |-> Measured(total, count) ]
SetupMessages(bytes) == [ m \in Messages |-> Measured(bytes, 1) ]
IterationMessages(bytes) ==
  [ m \in Messages |-> IF m = "tags" THEN NoMetric ELSE Measured(bytes, 1) ]

\* A setup is recorded, at a cost of its own; a second record is ignored.
SetupDone(w) ==
  /\ phase = "collect" /\ rounds[w] = 0 /\ Len(setups[w]) < 2
  /\ LET cost == w + 3 * Len(setups[w])
     IN  /\ collectors' = [ collectors EXCEPT
              ![w] = RecordSetupMessageSizes(RecordSetupTimings(@, Timed(cost, 1)),
                                             SetupMessages(cost)) ]
         /\ setups' = [ setups EXCEPT ![w] = Append(@, cost) ]
  /\ UNCHANGED <<kind, rounds, phase, cursor, merged, result, whole, latest, agreed>>

\* The scenario's recordIteration: one outcome of the kind of the run.
Outcomes == CASE kind = "pdp"         -> [ detected : BOOLEAN ]
              [] kind = "identity"    -> [ accepted : BOOLEAN, groundTruth : BOOLEAN ]
              [] kind = "maintenance" -> [ succeeded : BOOLEAN, blocks : {1, 3} ]

Outcome(c, o) ==
  CASE kind = "pdp"         -> RecordOutcome(c, o.detected)
    [] kind = "identity"    -> RecordIdentityOutcome(c, o.accepted, o.groundTruth)
    [] kind = "maintenance" ->
         RecordWorkerFinalBlockCount(RecordMaintenanceOutcome(c, o.succeeded), o.blocks)

\* One iteration: its timings (none or two timed calls), its messages, its outcome.
Iteration(w) ==
  /\ phase = "collect" /\ rounds[w] < MaxRounds
  /\ \E calls \in {0, 2}, o \in Outcomes :
       LET Recorded(c) ==
             Outcome(RecordMessageSizes(RecordTimings(c, Timed(3 * calls, calls)),
                                        IterationMessages(4)), o)
       IN  /\ collectors' = [ collectors EXCEPT ![w] = Recorded(@) ]
           /\ whole' = Recorded(whole)
           /\ latest' = [ latest EXCEPT ![w] = IF kind = "maintenance" THEN o.blocks ELSE 0 ]
           /\ agreed' = IF kind = "identity" /\ o.accepted = o.groundTruth
                        THEN agreed + 1 ELSE agreed
  /\ rounds' = [ rounds EXCEPT ![w] = @ + 1 ]
  /\ UNCHANGED <<kind, phase, cursor, merged, result, setups>>

\* A peak is measured on a worker's collector.
PeakMeasured(w) ==
  /\ phase = "collect" /\ rounds[w] = 0 /\ collectors[w].memoryPeak = 0
  /\ collectors' = [ collectors EXCEPT ![w] = SetMemoryPeak(@, 10 + w) ]
  /\ UNCHANGED <<kind, rounds, phase, cursor, merged, result, whole, setups, latest, agreed>>

StartMerge ==
  /\ phase = "collect"
  /\ phase' = "merge"
  /\ merged' = collectors[1]
  /\ cursor' = 2
  /\ UNCHANGED <<kind, collectors, rounds, result, whole, setups, latest, agreed>>

MergeNext ==
  /\ phase = "merge" /\ cursor <= NumWorkers
  /\ merged' = MergeFrom(merged, collectors[cursor])
  /\ cursor' = cursor + 1
  /\ UNCHANGED <<kind, collectors, rounds, phase, result, whole, setups, latest, agreed>>

TotalRounds == SumFunction(rounds)

Report ==
  /\ phase = "merge" /\ cursor > NumWorkers
  /\ phase' = "reported"
  /\ result' = CASE kind = "pdp"         -> FillPdp(merged, TotalRounds)
                 [] kind = "identity"    -> FillIdentity(merged, TotalRounds)
                 [] kind = "maintenance" -> FillMaintenance(merged, TotalRounds)
  /\ UNCHANGED <<kind, collectors, rounds, cursor, merged, whole, setups, latest, agreed>>

ResetMerged ==
  /\ phase = "reported"
  /\ phase' = "reset"
  /\ merged' = Reset(merged)
  /\ UNCHANGED <<kind, collectors, rounds, cursor, result, whole, setups, latest, agreed>>

Next == \/ \E w \in Workers : SetupDone(w) \/ Iteration(w) \/ PeakMeasured(w)
        \/ StartMerge \/ MergeNext \/ Report \/ ResetMerged

Spec == Init /\ [][Next]_vars

------------------------------------------------------------------------------
(* Properties. *)

Metrics(c) == { c.timings[s] : s \in Stages } \cup { c.setupTimings[s] : s \in Stages }
                \cup { c.sizes[m] : m \in Messages } \cup { c.setupSizes[m] : m \in Messages }

AllCollectors == { collectors[w] : w \in Workers } \cup {merged}

(***************************************************************************)
(* Splitting a run over workers does not change what is measured: merged,  *)
(* the workers' counters, iteration timings and message sizes are those    *)
(* one collector would hold had it recorded every iteration.  The values a *)
(* worker overwrites are combined over the workers, never over time: the   *)
(* final block count is the sum of the last counts, the memory peak the    *)
(* highest one (recordWorkerFinalBlockCount, setMemoryPeak, mergeFrom).    *)
(***************************************************************************)
MergeIsWholeRun ==
  phase = "reported" =>
    /\ merged.counts = whole.counts
    /\ merged.timings = whole.timings
    /\ merged.sizes = whole.sizes
    /\ merged.finalBlocks = SumFunction(latest)
    /\ merged.memoryPeak = Max({ collectors[w].memoryPeak : w \in Workers })

(***************************************************************************)
(* Each worker contributes its first setup record and nothing else, a      *)
(* worker without one contributes nothing, and the recorded flags tell     *)
(* whether anybody had one (recordSetupTimings, mergeFrom).                *)
(***************************************************************************)
SetupSpansWorkers ==
  LET recorders == { w \in Workers : setups[w] # <<>> }
      total     == MapThenSumSet(LAMBDA w : setups[w][1], recorders)
      Spans(m)  == m.total = total /\ m.count = Cardinality(recorders)
  IN  phase = "reported" =>
        /\ \A s \in Stages : Spans(merged.setupTimings[s])
        /\ \A m \in Messages : Spans(merged.setupSizes[m])
        /\ merged.setupTimingsRecorded = (recorders # {})
        /\ merged.setupSizesRecorded = (recorders # {})

\* The rates a result reports are rates of the samples there were.
RatesMatchOutcomes ==
  CASE kind = "pdp" ->
         /\ result.detections <= TotalRounds
         /\ result.confidenceRate = Fraction(result.detections, TotalRounds)
    [] kind = "identity" ->
         /\ result.samples = TotalRounds
         /\ result.accuracyRate = Fraction(agreed, TotalRounds)
    [] kind = "maintenance" ->
         result.succeeded + result.failed = TotalRounds

(***************************************************************************)
(* No quotient is stale or undefined.  At every moment a stored average is *)
(* that of the total and the count beside it, zero where nothing was       *)
(* counted, the tags metric that normalize skips included; and a reported  *)
(* rate is that of the outcomes: an identity sample counts as accurate     *)
(* exactly when the verifier agreed with the ground truth, a PDP detection *)
(* is one of the iterations, every maintenance call a success or a failure *)
(* (normalize, averagePerIteration, the fill*Result functions).            *)
(***************************************************************************)
AveragesCurrent ==
  /\ \A c \in AllCollectors : \A m \in Metrics(c) :
       m.average = IF m.count = 0 THEN <<0, 1>> ELSE <<m.total, m.count>>
  /\ phase = "reported" => RatesMatchOutcomes
==============================================================================
