------------------------------- MODULE RunPlan -------------------------------
(***************************************************************************)
(* BenchmarkRunPlan (benchmark_types.h): how one run's iterations are      *)
(* split over worker slots.  A plan is a record with the fields of the     *)
(* class; slot s covers SlotBegin(p, s) .. SlotBegin(p, s) + SlotCount - 1. *)
(* The runner schedules from the plan, and a scenario's validateRun reads  *)
(* the same plan, so the split formula exists once.                        *)
(***************************************************************************)
EXTENDS Integers

CONSTANT HardwareConcurrency   \* what std::thread::hardware_concurrency() answers; 0 = unknown

ASSUME HardwareAssumption == HardwareConcurrency \in Nat

Smaller(a, b) == IF a <= b THEN a ELSE b
Larger(a, b)  == IF a >= b THEN a ELSE b

(***************************************************************************)
(* A request of 0 stands for the hardware's own concurrency, or 1 when the *)
(* hardware does not say.                                                  *)
(***************************************************************************)
ResolveThreadRequest(requested) ==
  IF requested = 0 THEN Larger(HardwareConcurrency, 1) ELSE requested

Balanced(iterations, requested) ==
  LET resolved  == ResolveThreadRequest(requested)
      effective == Smaller(resolved, Larger(iterations, 1))
  IN  [ iterations |-> iterations,
        requested  |-> resolved,
        effective  |-> effective,
        base       |-> iterations \div effective,
        remainder  |-> iterations % effective ]

(***************************************************************************)
(* The downgrade keeps the resolved request and gives slot 0 everything.   *)
(***************************************************************************)
AsSingleWorker(plan) ==
  [ iterations |-> plan.iterations, requested |-> plan.requested,
    effective |-> 1, base |-> plan.iterations, remainder |-> 0 ]

\* Mutated form of SlotBegin: the longer first slots are forgotten.
SlotBeginNoRemainder(plan, slot) == slot * plan.base

SlotBegin(plan, slot) == slot * plan.base + Smaller(slot, plan.remainder)

SlotCount(plan, slot) == plan.base + (IF slot < plan.remainder THEN 1 ELSE 0)

LargestSlotCount(plan) == plan.base + (IF plan.remainder > 0 THEN 1 ELSE 0)

------------------------------------------------------------------------------
Slots(plan) == 0 .. plan.effective - 1

SlotIterations(plan, slot) ==
  SlotBegin(plan, slot) .. SlotBegin(plan, slot) + SlotCount(plan, slot) - 1

PlanType ==
  [ iterations : Nat, requested : Nat \ {0}, effective : Nat \ {0},
    base : Nat, remainder : Nat ]

(***************************************************************************)
(* What every plan the runner may hold satisfies: the division identity.   *)
(***************************************************************************)
WellFormed(plan) ==
  /\ plan \in PlanType
  /\ plan.iterations = plan.effective * plan.base + plan.remainder
  /\ plan.remainder < plan.effective
  /\ plan.effective <= plan.requested

(***************************************************************************)
(* The split partitions the iterations: every iteration index belongs to   *)
(* exactly one slot, and no slot reaches past the last iteration.          *)
(* (BenchmarkRunPlan::slotBegin/slotCount, "contiguous across slots".)     *)
(***************************************************************************)
Partition(plan) ==
  /\ \A i \in 0 .. plan.iterations - 1 :
       \E s \in Slots(plan) : i \in SlotIterations(plan, s)
  /\ \A s \in Slots(plan) : SlotIterations(plan, s) \subseteq 0 .. plan.iterations - 1
  /\ \A s, t \in Slots(plan) :
       s # t => SlotIterations(plan, s) \cap SlotIterations(plan, t) = {}

(***************************************************************************)
(* LargestSlotCount bounds every slot and is reached by slot 0, so a       *)
(* capacity check against it is neither too weak nor too strict.           *)
(***************************************************************************)
TightLargest(plan) ==
  /\ \A s \in Slots(plan) : SlotCount(plan, s) <= LargestSlotCount(plan)
  /\ SlotCount(plan, 0) = LargestSlotCount(plan)
==============================================================================
