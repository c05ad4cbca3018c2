---------------------------- MODULE BenchmarkRun -----------------------------
(***************************************************************************)
(* What BenchmarkRunner::runSingle promises its caller, without saying how *)
(* (benchmark_runner.h, doc of runSingle): a run starts each worker at     *)
(* most once, never ends while a worker is running, and ends in one of two *)
(* ways: it returns a result that accounts for every configured iteration, *)
(* which needs every worker to have succeeded, or it throws and there is   *)
(* no result at all.                                                       *)
(***************************************************************************)
EXTENDS Integers

CONSTANTS Workers, IterationCounts

VARIABLES
  iterations,   \* iterations the run was asked for
  started,      \* workers started so far
  running,      \* workers started and not yet finished
  failed,       \* workers that finished with a failure
  outcome,      \* "pending", "returned" or "thrown"
  reported      \* iterations the returned result accounts for

vars == <<iterations, started, running, failed, outcome, reported>>

Init == /\ iterations \in IterationCounts
        /\ started = {} /\ running = {} /\ failed = {}
        /\ outcome = "pending"
        /\ reported = 0

Start(w) == /\ outcome = "pending"
            /\ w \notin started
            /\ started' = started \cup {w}
            /\ running' = running \cup {w}
            /\ UNCHANGED <<iterations, failed, outcome, reported>>

Finish(w) == /\ w \in running
             /\ running' = running \ {w}
             /\ failed' \in {failed, failed \cup {w}}
             /\ UNCHANGED <<iterations, started, outcome, reported>>

Return == /\ outcome = "pending"
          /\ running = {} /\ failed = {} /\ started # {}
          /\ outcome' = "returned"
          /\ reported' = iterations
          /\ UNCHANGED <<iterations, started, running, failed>>

Throw == /\ outcome = "pending"
         /\ running = {}
         /\ outcome' = "thrown"
         /\ UNCHANGED <<iterations, started, running, failed, reported>>

Next == \/ \E w \in Workers : Start(w) \/ Finish(w)
        \/ Return
        \/ Throw

\* The part of the promise that a step can break.
SafeSpec == Init /\ [][Next]_vars

\* A run does not go on for ever.
Spec == SafeSpec /\ WF_vars(Next)
==============================================================================
