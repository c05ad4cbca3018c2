------------------------------ MODULE SweepAppInv -----------------------------
(***************************************************************************)
(* The inductive invariants of SweepApp: what the results so far are       *)
(* results of, what the current run has come to where main stands, what    *)
(* has been shown of a sweep that is complete; and what the configurations *)
(* were made of.                                                           *)
(***************************************************************************)
EXTENDS SweepApp

ResultType == [ family : {"pdp", "identity"}, total : Nat, iterations : Nat ]

PcTypeOK ==
  /\ pc \in {"scan", "load", "select", "sweep", "next", "report", "json", "ended"}
  /\ exit \in {"none", "0", "1", "killed"}
  /\ exit = "none" <=> pc # "ended"

\* A strategy expands into configurations of its own family.
ConfigsInv ==
  /\ Len(configs) \in Nat
  /\ configs # <<>> => Len(configs) > 0 /\ command.computation \in ComputationTypes
  /\ \A i \in 1 .. Len(configs) :
       /\ configs[i].family = ReportFamily(command.computation)
       /\ configs[i].total \in Nat

\* The i-th result is that of the i-th configuration, with all iterations.
ResultsInv ==
  /\ results \in Seq(ResultType)
  /\ Len(results) <= Len(configs)
  /\ \A i \in 1 .. Len(results) :
       results[i] = [ family     |-> command.executable,
                      total      |-> configs[i].total,
                      iterations |-> command.iterations ]
  /\ results # <<>> => ReportFamily(command.computation) = command.executable

\* A configuration of another class lets no worker of its run succeed.
RunInv ==
  /\ iterations = command.iterations
  /\ running \subseteq started
  /\ outcome = "returned" => reported = command.iterations
  /\ pc \in {"scan", "load", "select", "sweep"} => outcome = "pending"
  /\ pc \in {"next", "report", "json"} => outcome = "returned"
  /\ ReportFamily(command.computation) # command.executable => started \ running \subseteq failed

\* Where main stands, as far as its options and its sweep have to allow it.
PlaceInv ==
  /\ pc \in {"scan", "load", "select"} => configs = <<>>
  /\ configs = <<>> => results = <<>>
  /\ pc \in {"load", "select", "sweep", "next", "report", "json"} => ~ command.help
  /\ pc \in {"select", "sweep", "next", "report", "json"} => ~ command.list
  /\ pc \in {"sweep", "next", "report", "json"} => configs # <<>>
  /\ pc = "sweep" => Len(results) < Len(configs)
  /\ pc \in {"next", "report", "json"} => results # <<>>
  /\ pc \in {"report", "json"} => Len(results) = Len(configs)

\* Every configuration was run and its run returned.
Complete == configs # <<>> /\ Len(results) = Len(configs) /\ outcome = "returned"

ConsoleShown == Complete /\ console = Console(command.computation, results)

JsonShown ==
  /\ ConsoleShown /\ command.json
  /\ json.state \in {"written", "cut"} /\ json.text = Json(command.computation, results)

ShownInv ==
  /\ console = NotPrinted \/ (ConsoleShown /\ pc \in {"json", "ended"} /\ exit # "killed")
  /\ json = Untouched \/ (JsonShown /\ pc = "ended" /\ exit = "0")
  /\ pc = "json" => ConsoleShown /\ command.json
  /\ exit = "0" => \/ command.help \/ command.list
                   \/ ConsoleShown /\ IF command.json THEN JsonShown ELSE json = Untouched

SweepInv ==
  /\ command \in Commands
  /\ PcTypeOK
  /\ ConfigsInv
  /\ ResultsInv
  /\ RunInv
  /\ PlaceInv
  /\ ShownInv

\* The configurations are what the strategy makes of the command line, whose axis an inverse
\* search has given a challenge size for each point.
ExpandedInv ==
  configs # <<>> =>
    \E size \in SizesFor(command.axis.points, command.targetPositive) :
      configs = Expand(command, size)
==============================================================================
