------------------------- MODULE BenchmarkRunnerInv --------------------------
(***************************************************************************)
(* The inductive invariant of BenchmarkRunner: what is true of every       *)
(* worker at each point of its lifecycle, and of the workers together at   *)
(* each point of the main thread.                                          *)
(***************************************************************************)
EXTENDS BenchmarkRunner

\* A worker that has not reached its loop: it has recorded no iteration.
NothingRecorded(s) ==
  collectors[s].timings = 0 /\ collectors[s].outcomes = 0

\* A worker that has not set its scenario up.
NotSetUp(s) == setups[s] = 0 /\ teardowns[s] = 0 /\ failures[s] = "none"

\* A worker between setup and teardown whose iterations all succeeded so far.
Working(s) == setups[s] = 1 /\ teardowns[s] = 0 /\ failures[s] = "none"

\* A worker whose whole slot is recorded.
SlotRecorded(s) ==
  /\ failures[s] = "none"
  /\ setups[s] = 1 /\ teardowns[s] = 1
  /\ collectors[s].timings = SlotCount(plan, s)
  /\ collectors[s].outcomes = SlotCount(plan, s)

\* A worker that failed: its scenario, if there was one, was torn down.
Failed(s) == failures[s] # "none" /\ setups[s] <= teardowns[s]

(***************************************************************************)
(* At every point of a lifecycle the collector holds exactly the           *)
(* iterations the loop variable says were run.                             *)
(***************************************************************************)
WorkerInv(s) ==
  /\ wpc[s] \in {"idle", "create", "setup"} => NotSetUp(s) /\ NothingRecorded(s)
  /\ wpc[s] = "prepare" => Working(s) /\ NothingRecorded(s)
  /\ wpc[s] = "loop" =>
       /\ Working(s)
       /\ SlotBegin(plan, s) <= next[s] /\ next[s] <= SlotEnd(s)
       /\ collectors[s].timings = next[s] - SlotBegin(plan, s)
       /\ collectors[s].outcomes = next[s] - SlotBegin(plan, s)
  /\ wpc[s] = "record" =>
       /\ Working(s)
       /\ SlotBegin(plan, s) <= next[s] /\ next[s] < SlotEnd(s)
       /\ collectors[s].timings = next[s] + 1 - SlotBegin(plan, s)
       /\ collectors[s].outcomes = next[s] - SlotBegin(plan, s)
  /\ wpc[s] = "cleanup" =>
       /\ caught[s] # "none" /\ failures[s] = "none"
       /\ setups[s] = 1 /\ teardowns[s] <= 1
  /\ wpc[s] = "done" => SlotRecorded(s) \/ Failed(s)

\* The workers that were started are those of the slots in a set; the others idle.
Started(S) == \A s \in Workers : wpc[s] # "idle" <=> s \in S

AllDone(S) == \A s \in S : wpc[s] = "done"

NoFailure(S) == \A s \in S : failures[s] = "none"

\* What the main thread knows about the workers at each point of runSingle.
MainInv ==
  /\ mpc \in {"create", "plan", "validate"} => Started({}) /\ pool = 0
  /\ mpc = "spawn" =>
       /\ cursor \in 1 .. plan.effective /\ pool = cursor - 1
       /\ Started(1 .. cursor - 1)
  /\ mpc = "abort" =>
       /\ thrown = [ by |-> "main", slot |-> 0, step |-> "spawn" ]
       /\ pool < plan.effective
       /\ cursor \in 1 .. pool + 1
       /\ Started(1 .. pool) /\ AllDone(1 .. cursor - 1)
  /\ mpc = "worker0" => Started(Slots(plan))
  /\ mpc = "join" =>
       /\ cursor \in 1 .. plan.effective
       /\ Started(Slots(plan)) /\ AllDone(0 .. cursor - 1)
  /\ mpc = "scan" =>
       /\ cursor \in 0 .. plan.effective
       /\ Started(Slots(plan)) /\ AllDone(Slots(plan)) /\ NoFailure(0 .. cursor - 1)
  /\ mpc = "merge" =>
       /\ cursor \in 1 .. plan.effective
       /\ Started(Slots(plan)) /\ AllDone(Slots(plan)) /\ NoFailure(Slots(plan))
       /\ merged.timings = SlotBegin(plan, cursor)
       /\ merged.outcomes = SlotBegin(plan, cursor)
  /\ mpc = "returned" =>
       /\ Started(Slots(plan)) /\ AllDone(Slots(plan)) /\ NoFailure(Slots(plan))
       /\ result.timings = config.iterations
       /\ result.outcomes = config.iterations
  /\ mpc = "thrown" => \A s \in Workers : wpc[s] \in {"idle", "done"}

\* From the plan on, the plan is one of this configuration.
PlanInv ==
  mpc \notin {"create", "plan", "thrown"} => plan.iterations = config.iterations

\* The exceptions the caller may see, and what they say about the workers.
ThrownInv ==
  /\ mpc \notin {"abort", "thrown"} => thrown = None
  /\ mpc = "thrown" /\ thrown.by = "main" /\ thrown.step \in {"create", "probe", "validate"}
       => Started({})
  /\ mpc = "thrown" /\ thrown.by = "worker" =>
       /\ failures[thrown.slot] = thrown.step /\ thrown.step # "none"
       /\ NoFailure(0 .. thrown.slot - 1)

(***************************************************************************)
(* The collectors hold what the loop variables say was run, and the main   *)
(* thread knows of the workers what its place in runSingle lets it assume: *)
(* who is started, who is done, whose failure was looked for, and how many *)
(* iterations the merged collector holds.                                  *)
(***************************************************************************)
IInv ==
  /\ TypeOK
  /\ PlanInv
  /\ \A s \in Workers : WorkerInv(s)
  /\ MainInv
  /\ ThrownInv
==============================================================================
