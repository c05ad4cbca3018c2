------------------------------ MODULE SweepAxis ------------------------------
(***************************************************************************)
(* One axis of a parameter sweep: resolveAxis decides which of the three   *)
(* sources on the command line gives its points                            *)
(* (benchmark_computation_strategy.cpp), resolveSeq generates them         *)
(* (benchmark_config.h), and the strategies derive a configuration from    *)
(* each point.                                                             *)
(*                                                                         *)
(* Numbers are size_t: sums wrap at 2^w, here at the constant Modulus.     *)
(* The geometric generator's double is an exact fraction, which is what    *)
(* a double is for the small values and dyadic ratios of an instance.      *)
(* A product with a ratio is cut to an integer as the code's cast does.    *)
(***************************************************************************)
EXTENDS Expansion

CONSTANTS
  Modulus,     \* 2^w, w the width of size_t
  Numbers,     \* values of a numeric option
  Growths,     \* values of a ratio option, as fractions
  Lists,       \* values of a list option: its numbers, none if it does not parse
  MaxPoints,   \* SeqSpec::maxPoints
  Shares       \* corrupted and sample ratios of a strategy, as fractions

ASSUME SweepAssumption ==
  /\ Modulus \in Nat \ {0} /\ Numbers \subseteq 0 .. Modulus - 1
  /\ Growths \subseteq Nat \X (Nat \ {0})
  /\ Lists \subseteq Seq(0 .. Modulus - 1)
  /\ MaxPoints \in Nat \ {0}
  /\ Shares \subseteq Nat \X (Nat \ {0})

\* An option of the axis: given with a value, or not given.
Given(values)    == [ set : {TRUE}, value : values ]
NotGiven(value)  == [ set |-> FALSE, value |-> value ]
Option(values, default) == Given(values) \cup {NotGiven(default)}

Inputs == [ csv   : Option(Lists, <<>>),
            start : Option(Numbers, 0),
            end   : Option(Numbers, 0),
            step  : Option(Numbers, 0),
            ratio : Option(Growths, <<2, 1>>) ]

\* The list a strategy falls back to, shortened.
DefaultPoints == <<1, 5, 10>>

VARIABLES
  input,    \* the AxisInput
  pc,
  spec,     \* the SeqSpec's generator
  v,        \* the loop variable of resolveSeq, a fraction
  points,   \* explicitOut, then the list resolveSeq builds
  configs   \* the configurations derived from the points

vars == <<input, pc, spec, v, points, configs>>

InitAxis ==
  /\ input \in Inputs
  /\ pc = "resolve" /\ spec = "explicit" /\ v = <<0, 1>>
  /\ points = DefaultPoints /\ configs = <<>>

------------------------------------------------------------------------------
(* resolveAxis. *)

Linear    == input.start.set /\ input.step.set
Geometric == input.start.set /\ input.ratio.set
Sources   == { s \in {"csv", "linear", "geometric"} :
                 \/ s = "csv" /\ input.csv.set
                 \/ s = "linear" /\ Linear
                 \/ s = "geometric" /\ Geometric }

\* Options that name two sources, or half of one.
Incomplete ==
  \/ \E s, t \in Sources : s # t
  \/ input.start.set /\ ~ (input.step.set \/ input.ratio.set)
  \/ (input.step.set \/ input.ratio.set) /\ ~ input.start.set
  \/ ~ input.end.set /\ (Linear \/ Geometric)

\* Mutated form of Illegal: an empty range is left to resolveSeq.
IllegalStepOnly ==
  \/ input.csv.set /\ input.csv.value = <<>>
  \/ ~ input.csv.set /\ Linear    /\ input.step.value = 0
  \/ ~ input.csv.set /\ Geometric /\ input.ratio.value[1] <= input.ratio.value[2]

\* One source, with values that give no sequence.
Illegal ==
  \/ input.csv.set /\ input.csv.value = <<>>
  \/ ~ input.csv.set /\ Linear    /\ input.step.value = 0
  \/ ~ input.csv.set /\ Geometric /\ input.ratio.value[1] <= input.ratio.value[2]
  \/ ~ input.csv.set /\ (Linear \/ Geometric) /\ input.end.value < input.start.value

Reject ==
  /\ pc = "resolve"
  /\ Incomplete \/ Illegal
  /\ pc' = "rejected"
  /\ UNCHANGED <<input, spec, v, points, configs>>

\* A list, or the strategy's default: the points are there already.
TakeList ==
  /\ pc = "resolve" /\ ~ Incomplete /\ ~ Illegal /\ ~ Linear /\ ~ Geometric
  /\ points' = IF input.csv.set THEN input.csv.value ELSE points
  /\ pc' = "resolved"
  /\ UNCHANGED <<input, spec, v, configs>>

------------------------------------------------------------------------------
(* resolveSeq. *)

\* What resolveSeq refuses to generate, though resolveAxis let it pass.
Degenerate(gen) ==
  \/ gen = "linear" /\ input.step.value = 0
  \/ gen = "geometric" /\ input.ratio.value[1] <= input.ratio.value[2]
  \/ input.end.value < input.start.value

StartGenerator ==
  /\ pc = "resolve" /\ ~ Incomplete /\ ~ Illegal /\ (Linear \/ Geometric)
  /\ spec' = IF Linear THEN "linear" ELSE "geometric"
  /\ v' = <<input.start.value, 1>>
  /\ points' = <<>>
  /\ pc' = IF Degenerate(spec') THEN "resolved" ELSE "generate"
  /\ UNCHANGED <<input, configs>>

\* llround: to the nearest integer, halves upwards.
Round(x) == (2 * x[1] + x[2]) \div (2 * x[2])

Times(x, y) == <<x[1] * y[1], x[2] * y[2]>>

\* Mutated form of More: the upper end is left out.
MoreBelowEnd == v[1] < input.end.value * v[2] /\ Len(points) < MaxPoints

More == v[1] <= input.end.value * v[2] /\ Len(points) < MaxPoints

LinearPoint ==
  /\ pc = "generate" /\ spec = "linear" /\ More
  /\ points' = Append(points, v[1])
  /\ v' = <<(v[1] + input.step.value) % Modulus, 1>>
  /\ UNCHANGED <<input, pc, spec, configs>>

\* Mutated form of GeometricPoint: a point that rounds to the one before is repeated.
GeometricPointRepeats ==
  /\ pc = "generate" /\ spec = "geometric" /\ More
  /\ points' = Append(points, Round(v))
  /\ v' = Times(v, input.ratio.value)
  /\ UNCHANGED <<input, pc, spec, configs>>

\* The loop is left at the first point that rounds to the one before.
GeometricPoint ==
  /\ pc = "generate" /\ spec = "geometric" /\ More
  /\ points' = Append(points, Round(v))
  /\ IF Round(Times(v, input.ratio.value)) <= Round(v)
     THEN pc' = "resolved" /\ UNCHANGED v
     ELSE v' = Times(v, input.ratio.value) /\ UNCHANGED pc
  /\ UNCHANGED <<input, spec, configs>>

EndGenerator ==
  /\ pc = "generate" /\ ~ More
  /\ pc' = "resolved"
  /\ UNCHANGED <<input, spec, v, points, configs>>

------------------------------------------------------------------------------
(* Configurations of the points. *)

DeriveFixedRatio ==
  /\ pc = "resolved"
  /\ \E corrupted, sample \in Shares :
       configs' = [ i \in 1 .. Len(points) |-> FixedRatioConfig(points[i], corrupted, sample) ]
  /\ pc' = "fixed ratio"
  /\ UNCHANGED <<input, spec, v, points>>

\* IdentityVerifyStrategy: points with fewer than two users are skipped.
DeriveUsers ==
  /\ pc = "resolved"
  /\ configs' = PointsWithUsers(points)
  /\ pc' = "users"
  /\ UNCHANGED <<input, spec, v, points>>

NextAxis ==
  \/ Reject \/ TakeList
  \/ StartGenerator \/ LinearPoint \/ GeometricPoint \/ EndGenerator
  \/ DeriveFixedRatio \/ DeriveUsers

SpecAxis == InitAxis /\ [][NextAxis]_vars

------------------------------------------------------------------------------
(* Properties. *)

Accepted   == pc \in {"resolved", "fixed ratio", "users"}
Generated(gen) == pc = "resolved" /\ spec = gen
InRange(n) == input.start.value <= n /\ n <= input.end.value

\* The sum the loop computes past its last point fits into size_t.
NoWrap == input.end.value + input.step.value < Modulus

\* The arithmetic progression of the axis, found by listing it.
Progression == { n \in 0 .. Modulus - 1 :
                   InRange(n) /\ (n - input.start.value) % input.step.value = 0 }

(***************************************************************************)
(* A linear axis is the arithmetic progression from start to end, both     *)
(* included, in order, up to its first maxPoints members, as long as the   *)
(* loop's last sum does not wrap (SweepGen::Linear).                       *)
(***************************************************************************)
LinearIsProgression ==
  Generated("linear") /\ NoWrap =>
    /\ \A i \in 1 .. Len(points) : points[i] = input.start.value + (i - 1) * input.step.value
    /\ \A n \in Progression :
         \/ \E i \in 1 .. Len(points) : points[i] = n
         \/ Len(points) = MaxPoints /\ n > points[MaxPoints]

(***************************************************************************)
(* A geometric axis begins at start, stays within the range although every *)
(* point is rounded, and never measures a point twice.                     *)
(***************************************************************************)
GeometricIncreases ==
  Generated("geometric") =>
    /\ points[1] = input.start.value
    /\ \A i \in 1 .. Len(points) : InRange(points[i])
    /\ \A i \in 1 .. Len(points) - 1 : points[i] < points[i + 1]

\* A geometric axis goes on to its end ("v = start, start*ratio, ... <= end").
GeometricReachesEnd ==
  Generated("geometric") /\ input.start.value > 0 /\ Len(points) < MaxPoints =>
    points[Len(points)] * input.ratio.value[1] > (input.end.value - 1) * input.ratio.value[2]

(***************************************************************************)
(* Options resolveAxis accepts give an axis with a point at least: the     *)
(* executable blames an empty sweep on the ranges ("No parameter           *)
(* combinations produced"), and resolveAxis has checked those.             *)
(***************************************************************************)
AcceptedHasPoints == Accepted => Len(points) > 0

(***************************************************************************)
(* Each configuration of a file with a block can be audited: it corrupts   *)
(* at least one block, challenges at least one, neither more than it has,  *)
(* however small the file and large the share.                             *)
(***************************************************************************)
ConfigsAuditable ==
  pc = "fixed ratio" =>
    \A i \in 1 .. Len(configs) :
      configs[i].total > 0 =>
        /\ configs[i].corrupted \in 1 .. configs[i].total
        /\ configs[i].sample \in 1 .. configs[i].total
==============================================================================
