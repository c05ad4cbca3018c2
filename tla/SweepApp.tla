------------------------------- MODULE SweepApp ------------------------------
(***************************************************************************)
(* The two sweep executables, from the command line to the exit code:      *)
(* pdp_audit_benchmark_main.cpp and identity_verify_benchmark_main.cpp.    *)
(* Both read the common options, load the algorithm library, choose the    *)
(* algorithm, let a computation strategy expand the command line into      *)
(* configurations, run these one after the other and print the report.     *)
(*                                                                         *)
(* A run is what BenchmarkRun promises of BenchmarkRunner::runSingle; that *)
(* the runner keeps the promise is RunnerImplementsRun.  Its scenario is   *)
(* the executable's, whatever strategy made the configuration.             *)
(***************************************************************************)
EXTENDS Expansion, BenchmarkReports, FiniteSets

CONSTANTS
  Commands,      \* command lines, as CommandType
  NameLengths,   \* lengths of an algorithm's name
  Workers,       \* threads a run may start
  Modulus        \* 2^w, w the width of size_t

AxisType   == [ given : BOOLEAN, accepted : BOOLEAN, points : Seq(Nat) ]
SingleType == [ set : BOOLEAN, value : Nat ]
RatioType  == Nat \X (Nat \ {0})

CommandType ==
  [ executable : {"pdp", "identity"},
    help : BOOLEAN, list : BOOLEAN, json : BOOLEAN,
    algorithm : BOOLEAN,                           \* --algorithm is given
    computation : ComputationTypes \cup {"unknown"},
    iterations : Nat, threadsValid : BOOLEAN,
    total : Nat, t : SingleType, tAxis : AxisType, r : SingleType, rAxis : AxisType,
    axis : AxisType,                               \* --n-* or --user-*
    corruptedRatio : RatioType, sampleRatio : RatioType, targetPositive : BOOLEAN,
    ratioSum : RatioType, sweep : BOOLEAN, users : Nat ]

\* An accepted axis has a point (AcceptedHasPoints of SweepAxis).
ASSUME SweepAppAssumption ==
  /\ Commands \subseteq CommandType
  /\ \A c \in Commands : \A axis \in {c.tAxis, c.rAxis, c.axis} :
       axis.accepted => axis.points # <<>>
  /\ NameLengths \subseteq Nat
  /\ Modulus \in Nat /\ \A n \in NameLengths : n + 60 < Modulus

VARIABLES
  command,    \* argv
  library,    \* what the hot loader found
  pc,
  configs,    \* the expanded configurations
  results,    \* the results so far
  console,    \* what the report printed
  json,       \* the file of --json
  exit,       \* exit code, "killed" for a signal, "none" while running
  iterations, started, running, failed, outcome, reported   \* the current run

Run == INSTANCE BenchmarkRun WITH IterationCounts <- { c.iterations : c \in Commands }

appVars == <<command, library, pc, configs, results, console, json, exit>>
runVars == <<iterations, started, running, failed, outcome, reported>>
vars    == <<appVars, runVars>>

\* What is loaded: how many algorithms; whether the named one, or the only one, is among
\* them, resolves to an object, and how long its name is.
Libraries == [ count : 0 .. 2, known : BOOLEAN, resolves : BOOLEAN, nameLength : NameLengths ]

NotLoaded == [ count |-> 0, known |-> FALSE, resolves |-> FALSE, nameLength |-> 0 ]
Untouched == [ state |-> "untouched", text |-> Json("PdpDirect", <<>>) ]

Init ==
  /\ command \in Commands
  /\ library = NotLoaded
  /\ pc = "scan" /\ exit = "none"
  /\ configs = <<>> /\ results = <<>>
  /\ console = NotPrinted /\ json = Untouched
  /\ iterations = command.iterations
  /\ started = {} /\ running = {} /\ failed = {}
  /\ outcome = "pending" /\ reported = 0

------------------------------------------------------------------------------
GoTo(next) == pc' = next /\ exit' = exit
Exit(code) == pc' = "ended" /\ exit' = code

\* --help is answered while the options are scanned, before anything is touched.
Scan ==
  /\ pc = "scan"
  /\ IF command.help THEN Exit("0") ELSE GoTo("load")
  /\ UNCHANGED <<command, library, configs, results, console, json, runVars>>

\* The directory is created, with a warning if that fails, loaded and watched.  The
\* loader is dropped at the end of its block: the library does not change afterwards.
LoadLibrary ==
  /\ pc = "load"
  /\ library' \in Libraries
  /\ IF command.list THEN Exit("0") ELSE GoTo("select")
  /\ UNCHANGED <<command, configs, results, console, json, runVars>>

\* There is no try block: an exception of the loader ends the process.
LoadThrows ==
  /\ pc = "load"
  /\ Exit("killed")
  /\ UNCHANGED <<command, library, configs, results, console, json, runVars>>

\* A named algorithm has to be loaded; without a name there has to be just one.
Selected == IF command.algorithm THEN library.known ELSE library.count = 1

\* Only the PDP executable asks for the object behind the name.
Resolved == command.executable = "pdp" => library.resolves

\* The factory builds every known computation for either executable.
Buildable == command.computation \in ComputationTypes

Refuse ==
  /\ pc = "select"
  /\ ~ Selected \/ ~ Resolved \/ ~ Buildable
  /\ Exit("1")
  /\ UNCHANGED <<command, library, configs, results, console, json, runVars>>

ExpandConfigs ==
  /\ pc = "select" /\ Selected /\ Resolved /\ Buildable
  /\ \E size \in SizesFor(command.axis.points, command.targetPositive) :
       configs' = Expand(command, size)
  /\ IF configs' = <<>> THEN Exit("1") ELSE GoTo("sweep")
  /\ UNCHANGED <<command, library, results, console, json, runVars>>

------------------------------------------------------------------------------
(* The sweep: one run after the other. *)

Current == configs[Len(results) + 1]

\* The scenario casts its configuration to its own class, first thing in setup.
WrongClass == Current.family # command.executable

\* Identity setup uses the algorithm it looks up without asking whether there is one.
NoObject == command.executable = "identity" /\ ~ library.resolves

Sweeping == pc = "sweep" /\ UNCHANGED appVars

WorkerStarts == Sweeping /\ \E w \in Workers : Run!Start(w)

\* Mutated form of WorkerEnds: setup takes any configuration.
WorkerEndsUncast ==
  /\ Sweeping /\ (WrongClass \/ ~ NoObject)
  /\ \E w \in Workers : Run!Finish(w)

\* A worker that gets past its setup succeeds or fails; one with a configuration of
\* another class fails.
WorkerEnds ==
  /\ Sweeping /\ (WrongClass \/ ~ NoObject)
  /\ \E w \in Workers : Run!Finish(w) /\ (WrongClass => w \in failed')

\* The null pointer is dereferenced.
WorkerCrashes ==
  /\ pc = "sweep" /\ running # {} /\ NoObject /\ ~ WrongClass
  /\ Exit("killed")
  /\ UNCHANGED <<command, library, configs, results, console, json, runVars>>

\* The strategy's run returns the runner's result; the next configuration's run begins.
RunReturns ==
  /\ pc = "sweep"
  /\ Run!Return
  /\ results' = Append(results,
       [ family |-> command.executable, total |-> Current.total, iterations |-> reported' ])
  /\ GoTo("next")
  /\ UNCHANGED <<command, library, configs, console, json>>

\* Mutated form of NextConfig: after a run that failed, the sweep so far is reported.
NextConfigAnyway ==
  \/ /\ pc = "next" /\ Len(results) < Len(configs)
     /\ started' = {} /\ running' = {} /\ failed' = {}
     /\ outcome' = "pending" /\ reported' = 0 /\ iterations' = command.iterations
     /\ GoTo("sweep")
     /\ UNCHANGED <<command, library, configs, results, console, json>>
  \/ /\ pc = "sweep" /\ Run!Throw
     /\ GoTo("report")
     /\ UNCHANGED <<command, library, configs, results, console, json>>

\* Mutated form of NextConfig: the finished run is not cleared away.
NextConfigKeepsRun ==
  /\ pc = "next" /\ Len(results) < Len(configs)
  /\ GoTo("sweep")
  /\ UNCHANGED <<command, library, configs, results, console, json, runVars>>

NextConfig ==
  /\ pc = "next" /\ Len(results) < Len(configs)
  /\ started' = {} /\ running' = {} /\ failed' = {}
  /\ outcome' = "pending" /\ reported' = 0 /\ iterations' = command.iterations
  /\ GoTo("sweep")
  /\ UNCHANGED <<command, library, configs, results, console, json>>

EndSweep ==
  /\ pc = "next" /\ Len(results) = Len(configs)
  /\ GoTo("report")
  /\ UNCHANGED <<command, library, configs, results, console, json, runVars>>

\* The loop over the configurations has no try block either.
RunThrows ==
  /\ pc = "sweep"
  /\ Run!Throw
  /\ Exit("killed")
  /\ UNCHANGED <<command, library, configs, results, console, json>>

------------------------------------------------------------------------------
(* The report. *)

Pad == PadLen(command.computation, library.nameLength, Modulus)

\* Turns of a loop that a process lives to see the end of.
Patience == 60

\* toConsole, which has to build the banner first.
PrintReport ==
  /\ pc = "report" /\ Pad <= Patience
  /\ console' = Console(command.computation, results)
  /\ IF command.json THEN GoTo("json") ELSE Exit("0")
  /\ UNCHANGED <<command, library, configs, results, json, runVars>>

\* The name is longer than its room: the padding loop has close to 2^w turns.
PadOn ==
  /\ pc = "report" /\ Pad > Patience
  /\ UNCHANGED vars

\* The stream is not asked whether it could write: a full disk cuts the text unnoticed.
WriteJson ==
  /\ pc = "json"
  /\ \E state \in {"written", "cut"} :
       json' = [ state |-> state, text |-> Json(command.computation, results) ]
  /\ Exit("0")
  /\ UNCHANGED <<command, library, configs, results, console, runVars>>

JsonNotOpened ==
  /\ pc = "json"
  /\ Exit("1")
  /\ UNCHANGED <<command, library, configs, results, console, json, runVars>>

Ended == pc = "ended"

Done == Ended /\ UNCHANGED vars

Next ==
  \/ Scan \/ LoadLibrary \/ LoadThrows \/ Refuse \/ ExpandConfigs
  \/ WorkerStarts \/ WorkerEnds \/ WorkerCrashes
  \/ RunReturns \/ NextConfig \/ EndSweep \/ RunThrows
  \/ PrintReport \/ PadOn \/ WriteJson \/ JsonNotOpened
  \/ Done

(***************************************************************************)
(* The process runs on, and a run ends: the runner promises it             *)
(* (Terminates), and here each of its steps uses up a worker.              *)
(***************************************************************************)
Spec == Init /\ [][Next]_vars /\ WF_vars(Next)

------------------------------------------------------------------------------
(* Properties. *)

(***************************************************************************)
(* Exit code 0 of a sweep means that the whole of it was delivered: each   *)
(* configuration was run once, in order, with all its iterations; the      *)
(* console shows a block for each and a row for each, but for the rows of  *)
(* empty files in the tables that divide by the size; the file of --json   *)
(* has an element for each, unless the disk cut it.                        *)
(***************************************************************************)
ExitZeroDelivers ==
  exit = "0" /\ ~ command.help /\ ~ command.list =>
    /\ configs # <<>> /\ Len(results) = Len(configs)
    /\ \A i \in 1 .. Len(configs) :
         /\ results[i].total = configs[i].total
         /\ results[i].iterations = command.iterations
         /\ i \in console.blocks
         /\ i \notin console.rows =>
              configs[i].total = 0 /\ command.computation \in {"PdpFixedRatio", "PdpInverseConfidence"}
    /\ command.json <=> json.state # "untouched"
    /\ json.state = "written" => json.text.elements = 1 .. Len(configs)

(***************************************************************************)
(* A sweep that fails shows nothing: neither the console nor the JSON file *)
(* has anything of a sweep one of whose runs threw, however late, although *)
(* the results of the earlier ones were complete.  A computation made for  *)
(* the other executable, which the factory builds all the same, never gets *)
(* past its first run.                                                     *)
(***************************************************************************)
NothingFromFailedSweep ==
  /\ console # NotPrinted \/ json # Untouched =>
       /\ exit # "killed" /\ outcome = "returned"
       /\ Len(results) = Len(configs)
  /\ ReportFamily(command.computation) # command.executable =>
       results = <<>> /\ (exit = "0" => command.help \/ command.list)

(***************************************************************************)
(* What was printed can be read: the elements of the JSON list are         *)
(* separated by single commas with none at the end, and no number of the   *)
(* report is the quotient 0/0, whether a configuration has no iteration or *)
(* its file no block.                                                      *)
(***************************************************************************)
ReportReadable ==
  /\ json.text.commas = { i \in json.text.elements : \E j \in json.text.elements : j > i }
  /\ "nan" \notin json.text.texts \cup console.texts
  /\ console.kind # "Unknown"

Occurrences(x, seq) == Cardinality({ i \in 1 .. Len(seq) : seq[i] = x })

Measures(total, corrupted, sample) ==
  Cardinality({ k \in 1 .. Len(configs) :
                  /\ configs[k].total = total
                  /\ configs[k].corrupted = corrupted /\ configs[k].sample = sample })

\* Every pair of points is measured as often as the two axes name it, and nothing else is.
CoversPairs(ts, rs) ==
  /\ Len(configs) = Len(ts) * Len(rs)
  /\ \A i \in 1 .. Len(ts), j \in 1 .. Len(rs) :
       Measures(command.total, ts[i], rs[j]) = Occurrences(ts[i], ts) * Occurrences(rs[j], rs)

\* Every point is measured once, with challenges its file can answer.
CoversFiles(ns) ==
  /\ Len(configs) = Len(ns)
  /\ \A i \in 1 .. Len(ns) :
       /\ configs[i].total = ns[i]
       /\ configs[i].corrupted <= ns[i] /\ configs[i].sample <= ns[i]
       /\ ns[i] > 0 => configs[i].corrupted > 0

CoversUsers(ns) ==
  /\ \A k \in 1 .. Len(configs) : configs[k].users > 1
  /\ \A i \in 1 .. Len(ns) : ns[i] > 1 =>
       Occurrences(IdentityConfig(ns[i]), configs) = Occurrences(ns[i], ns)

(***************************************************************************)
(* What is measured is what the axes say, each point or pair of points as  *)
(* often as it was asked for; a list or range that was refused is never    *)
(* replaced by a default.  A single value counts where its axis is absent, *)
(* the axis where both are there.                                          *)
(***************************************************************************)
ConfigsCoverAxes ==
  configs # <<>> =>
    CASE command.computation = "PdpDirect" ->
           /\ command.tAxis.given => command.tAxis.accepted
           /\ command.rAxis.given => command.rAxis.accepted
           /\ CoversPairs(IF command.tAxis.given \/ ~ command.t.set
                            THEN command.tAxis.points ELSE <<command.t.value>>,
                          IF command.rAxis.given \/ ~ command.r.set
                            THEN command.rAxis.points ELSE <<command.r.value>>)
      [] command.computation \in {"PdpFixedRatio", "PdpInverseConfidence"} ->
           command.axis.accepted /\ CoversFiles(command.axis.points)
      [] command.computation = "IdentityVerify" ->
           command.sweep => command.axis.accepted /\ CoversUsers(command.axis.points)

\* The name fits the banner of the report.
NameFits == library.nameLength <= Room(command.computation)

(***************************************************************************)
(* The executable ends, by exit or by signal, on every path; the one thing *)
(* that keeps it is a name longer than its room in the banner.             *)
(***************************************************************************)
MainEnds == <>(Ended \/ (pc = "report" /\ ~ NameFits))

(***************************************************************************)
(* A report that is asked for its console text gives one                   *)
(* (benchmark_report.h:49-51, "Human-readable console output").            *)
(***************************************************************************)
ConsoleReturns == pc = "report" ~> console # NotPrinted
==============================================================================
