-------------------------- MODULE MCBenchmarkRunner --------------------------
(***************************************************************************)
(* Small instances of the runner and of its inductive invariant: serial,   *)
(* balanced and uneven splits, more threads than iterations, and the empty *)
(* run.                                                                    *)
(***************************************************************************)
EXTENDS BenchmarkRunnerInv
==============================================================================
