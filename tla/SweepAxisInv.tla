----------------------------- MODULE SweepAxisInv -----------------------------
(***************************************************************************)
(* The inductive invariant of SweepAxis: what the loop of resolveSeq keeps *)
(* from one point to the next.  Its loop variable v and the points it has  *)
(* appended are tied to each other, to the options, and, once the loop is  *)
(* left, to the condition that left it.                                    *)
(***************************************************************************)
EXTENDS SweepAxis

AxisTypeOK ==
  /\ input \in Inputs
  /\ pc \in {"resolve", "rejected", "generate", "resolved", "fixed ratio", "users"}
  /\ spec \in {"explicit", "linear", "geometric"}
  /\ v \in Nat \X (Nat \ {0})
  /\ points \in Seq(Nat)

\* Points that were not generated: the default list, or one that is not empty.
ListInv ==
  /\ spec = "explicit"
  /\ pc # "generate"
  /\ Len(points) > 0

\* The loop has a first point to append, and appends maxPoints at most.
LoopInv ==
  /\ pc \notin {"resolve", "rejected"}
  /\ input.start.value <= input.end.value
  /\ Len(points) <= MaxPoints
  /\ points = <<>> => pc = "generate" /\ v = <<input.start.value, 1>>

\* Without a wrap, v is the term of the progression that follows the points.
LinearInv ==
  /\ spec = "linear"
  /\ input.step.value > 0
  /\ pc # "generate" => ~ More
  /\ NoWrap =>
       /\ v = <<input.start.value + Len(points) * input.step.value, 1>>
       /\ \A i \in 1 .. Len(points) : points[i] = input.start.value + (i - 1) * input.step.value

\* The point v rounds to is above all the points there are.
GeometricInv ==
  /\ spec = "geometric"
  /\ Len(points) > 0 => points[1] = input.start.value
  /\ \A i \in 1 .. Len(points) : InRange(points[i])
  /\ \A i \in 1 .. Len(points) - 1 : points[i] < points[i + 1]
  /\ pc = "generate" /\ Len(points) > 0 => points[Len(points)] < Round(v)

\* The configurations of PdpFixedRatioStrategy are those of the points.
SharesInv ==
  pc = "fixed ratio" =>
    \E corrupted, sample \in Shares :
      configs = [ i \in 1 .. Len(points) |-> FixedRatioConfig(points[i], corrupted, sample) ]

AxisInv ==
  /\ AxisTypeOK
  /\ ListInv \/ (LoopInv /\ (LinearInv \/ GeometricInv))
  /\ SharesInv
==============================================================================
