-------------------------- MODULE CollectorMergeInv ---------------------------
(***************************************************************************)
(* The inductive invariant of CollectorMerge: at every moment the history  *)
(* collector holds the sums of the workers' collectors, and while the main *)
(* thread merges, the merged collector holds the sums of those merged so   *)
(* far.                                                                    *)
(***************************************************************************)
EXTENDS CollectorMerge

------------------------------------------------------------------------------
(* Types. *)

MetricType == [ total : Nat, count : Nat, average : Nat \X Nat ]

CollectorType ==
  [ counts               : [ Counters -> Nat ],
    finalBlocks          : Nat,
    setupTimings         : [ Stages -> MetricType ],
    setupSizes           : [ Messages -> MetricType ],
    setupTimingsRecorded : BOOLEAN,
    setupSizesRecorded   : BOOLEAN,
    timings              : [ Stages -> MetricType ],
    sizes                : [ Messages -> MetricType ],
    memoryPeak           : Nat ]

\* The average beside a total and a count is theirs.
Current(m) == m = Measured(m.total, m.count)

\* A collector none of whose averages is stale.
Sound(c) ==
  /\ c \in CollectorType
  /\ \A s \in Stages : Current(c.timings[s]) /\ Current(c.setupTimings[s])
  /\ \A m \in Messages : Current(c.sizes[m]) /\ Current(c.setupSizes[m])

CollectorTypeOK ==
  /\ kind \in {"pdp", "identity", "maintenance"}
  /\ collectors \in [ Workers -> CollectorType ]
  /\ \A w \in Workers : Sound(collectors[w])
  /\ Sound(merged) /\ Sound(whole)
  /\ rounds \in [ Workers -> Nat ]
  /\ setups \in [ Workers -> Seq(Nat) ]
  /\ latest \in [ Workers -> Nat ]
  /\ agreed \in Nat
  /\ \/ phase = "collect"
     \/ phase = "merge" /\ cursor \in 2 .. NumWorkers + 1
     \/ phase = "reported" /\ cursor = NumWorkers + 1
     \/ phase = "reset"

------------------------------------------------------------------------------
(* Columns: one field of every worker's collector. *)

Counter(k)      == [ w \in Workers |-> collectors[w].counts[k] ]
Timing(s)       == [ w \in Workers |-> collectors[w].timings[s] ]
Size(m)         == [ w \in Workers |-> collectors[w].sizes[m] ]
SetupTiming(s)  == [ w \in Workers |-> collectors[w].setupTimings[s] ]
SetupSize(m)    == [ w \in Workers |-> collectors[w].setupSizes[m] ]
FinalBlocks     == [ w \in Workers |-> collectors[w].finalBlocks ]

Totals(column) == [ w \in Workers |-> column[w].total ]
Counts(column) == [ w \in Workers |-> column[w].count ]

\* The metric of a column over some workers.
Combined(column, S) ==
  Measured(SumFunctionOnSet(Totals(column), S), SumFunctionOnSet(Counts(column), S))

------------------------------------------------------------------------------
(* The invariant. *)

\* The collector of the whole run holds what all workers' collectors sum to.
WholeInv ==
  /\ \A k \in Counters : whole.counts[k] = SumFunctionOnSet(Counter(k), Workers)
  /\ \A s \in Stages : whole.timings[s] = Combined(Timing(s), Workers)
  /\ \A m \in Messages : whole.sizes[m] = Combined(Size(m), Workers)

\* The collector c holds what the collectors of the workers in S sum to.
HoldsSums(c, S) ==
  /\ \A k \in Counters : c.counts[k] = SumFunctionOnSet(Counter(k), S)
  /\ \A s \in Stages : /\ c.timings[s] = Combined(Timing(s), S)
                       /\ c.setupTimings[s] = Combined(SetupTiming(s), S)
  /\ \A m \in Messages : /\ c.sizes[m] = Combined(Size(m), S)
                         /\ c.setupSizes[m] = Combined(SetupSize(m), S)
  /\ c.finalBlocks = SumFunctionOnSet(FinalBlocks, S)

\* The collector c joins the flags of the workers in S and has their highest peak.
HoldsExtremes(c, S) ==
  /\ c.setupTimingsRecorded = (\E w \in S : collectors[w].setupTimingsRecorded)
  /\ c.setupSizesRecorded = (\E w \in S : collectors[w].setupSizesRecorded)
  /\ \E w \in S : c.memoryPeak = collectors[w].memoryPeak
  /\ \A w \in S : c.memoryPeak >= collectors[w].memoryPeak

MergedInv ==
  phase \in {"merge", "reported"} =>
    HoldsSums(merged, 1 .. cursor - 1) /\ HoldsExtremes(merged, 1 .. cursor - 1)

\* The setup metric of a worker that made these setup records: the first of them.
FirstSetup(records) == IF records = <<>> THEN NoMetric ELSE Measured(records[1], 1)

SetupInv ==
  \A w \in Workers :
    /\ collectors[w].setupTimingsRecorded = (setups[w] # <<>>)
    /\ collectors[w].setupSizesRecorded = (setups[w] # <<>>)
    /\ \A s \in Stages : collectors[w].setupTimings[s] = FirstSetup(setups[w])
    /\ \A m \in Messages : collectors[w].setupSizes[m] = FirstSetup(setups[w])

\* The last block count of a worker; the scenarios without blocks record none.
LatestInv ==
  \A w \in Workers : /\ collectors[w].finalBlocks = latest[w]
                     /\ kind # "maintenance" => latest[w] = 0

\* Every iteration is one outcome of the run's kind.
OutcomesInv ==
  /\ kind = "pdp" => /\ whole.counts["iterations"] = TotalRounds
                     /\ whole.counts["detections"] <= TotalRounds
  /\ kind = "identity" =>
       /\ whole.counts["samples"] = TotalRounds
       /\ whole.counts["trueAccepts"] + whole.counts["trueRejects"] = agreed
  /\ kind = "maintenance" =>
       whole.counts["succeeded"] + whole.counts["failed"] = TotalRounds

ResultInv ==
  phase = "reported" =>
    /\ kind = "pdp" => result = FillPdp(merged, TotalRounds)
    /\ kind = "identity" => result = FillIdentity(merged, TotalRounds)
    /\ kind = "maintenance" => result = FillMaintenance(merged, TotalRounds)

MergeInv ==
  /\ CollectorTypeOK
  /\ WholeInv
  /\ MergedInv
  /\ SetupInv
  /\ LatestInv
  /\ OutcomesInv
  /\ ResultInv
==============================================================================
