--------------------------- MODULE MaintenanceApp ----------------------------
(***************************************************************************)
(* The maintenance executable, from its options to its exit code           *)
(* (dynamic_maintenance_benchmark_main.cpp), around the run of             *)
(* DynamicMaintenance.  Everything main does is in one try block, and an   *)
(* exception (a std::exception, as all of this code's are) ends in exit    *)
(* code 1.                                                                 *)
(***************************************************************************)
EXTENDS DynamicMaintenance

VARIABLES
  argv,      \* the command line: "help", "invalid" or "valid"
  apc,       \* where main is
  watching,  \* the hot loader watches the strategy directory
  printed,   \* the console report was printed
  json,      \* --json: "none", "opened", "refused"
  code       \* exit code

appVars == <<argv, apc, watching, printed, json, code>>

InitApp ==
  /\ InitMaintenance
  /\ argv \in {"help", "invalid", "valid"}
  /\ apc = "options" /\ watching = FALSE
  /\ printed = FALSE /\ json = "none" /\ code = "none"

ExitWith(c) == apc' = "ended" /\ code' = c
Proceed(to) == apc' = to /\ UNCHANGED code

\* --help ends the scan, so does an option that is unknown, lacks its value or has a bad one.
ScanOptions ==
  /\ apc = "options"
  /\ IF argv = "help" THEN ExitWith("0")
     ELSE IF argv = "invalid" \/ config.iterations = 0 \/ initialBlocks = 0 THEN ExitWith("1")
     ELSE Proceed("load")
  /\ UNCHANGED <<allVars, argv, watching, printed, json>>

LoadStrategies ==
  /\ apc = "load"
  /\ watching' = TRUE
  /\ Proceed("check")
  /\ UNCHANGED <<allVars, argv, printed, json>>

\* The directory cannot be created, or the loader throws.
LoadFails ==
  /\ apc = "load"
  /\ ExitWith("1")
  /\ UNCHANGED <<allVars, argv, watching, printed, json>>

\* The name has to resolve to a dynamic strategy, now: setup looks it up again.
CheckStrategy ==
  /\ apc = "check"
  /\ IF strategy = "dynamic" THEN Proceed("run") ELSE ExitWith("1")
  /\ UNCHANGED <<allVars, argv, watching, printed, json>>

ReloadedBeforeRun ==
  /\ apc = "check"
  /\ StrategyReloaded
  /\ UNCHANGED appVars

\* runSingle, with the library changing under it.
RunSingle ==
  /\ apc = "run"
  /\ NextMaintenance
  /\ UNCHANGED appVars

\* The catch block: the loader is destroyed while it watches.
RunFails ==
  /\ apc = "run" /\ mpc = "thrown"
  /\ ExitWith("1")
  /\ UNCHANGED <<allVars, argv, watching, printed, json>>

PrintConsole ==
  /\ apc = "run" /\ mpc = "returned"
  /\ printed' = TRUE
  /\ Proceed("json")
  /\ UNCHANGED <<allVars, argv, watching, json>>

\* Without --json there is no file; otherwise it opens or main gives up.
WriteReport ==
  /\ apc = "json"
  /\ \/ json' = "none" /\ Proceed("stop")
     \/ json' = "opened" /\ Proceed("stop")
     \/ json' = "refused" /\ ExitWith("1")
  /\ UNCHANGED <<allVars, argv, watching, printed>>

\* Mutated form of StopWatching: a run is rejected only if none of its calls succeeded.
StopWatchingIfAllFailed ==
  /\ apc = "stop"
  /\ watching' = FALSE
  /\ ExitWith(IF report.succeeded = 0 THEN "2" ELSE "0")
  /\ UNCHANGED <<allVars, argv, printed, json>>

StopWatching ==
  /\ apc = "stop"
  /\ watching' = FALSE
  /\ ExitWith(IF report.failed > 0 THEN "2" ELSE "0")
  /\ UNCHANGED <<allVars, argv, printed, json>>

AppDone == apc = "ended" /\ UNCHANGED <<allVars, appVars>>

NextApp ==
  \/ ScanOptions \/ LoadStrategies \/ LoadFails
  \/ CheckStrategy \/ ReloadedBeforeRun
  \/ RunSingle \/ RunFails
  \/ PrintConsole \/ WriteReport \/ StopWatching
  \/ AppDone

SpecApp == InitApp /\ [][NextApp]_<<allVars, appVars>>

------------------------------------------------------------------------------
(* Properties. *)

(***************************************************************************)
(* The exit code tells what happened, whatever order workers fail in:      *)
(* 0 a printed run all of whose calls succeeded, 2 a printed run with a    *)
(* rejected call, 1 that there is no result, or no file for it.  No worker *)
(* runs when the process exits, and after 0 or 2 nothing is watched.       *)
(* (dynamic_maintenance_benchmark_main.cpp:25-27.)                         *)
(***************************************************************************)
ExitCodeTells ==
  /\ code = "0" /\ argv # "help" =>
       /\ mpc = "returned" /\ report.succeeded = config.iterations /\ report.failed = 0
       /\ printed /\ json # "refused" /\ ~ watching
  /\ code = "2" => mpc = "returned" /\ report.failed > 0 /\ printed /\ ~ watching
  /\ code = "1" => (mpc = "returned" => json = "refused")
  /\ code # "none" => \A s \in Workers : wpc[s] \in {"idle", "done"}
==============================================================================
