--------------------------- MODULE SweepAxisProofs ---------------------------
(***************************************************************************)
(* Theorems about one axis of a sweep, for a size_t of any width, options  *)
(* of any value and any maxPoints: a linear axis is the progression it     *)
(* stands for, a geometric one increases within its range, an accepted one *)
(* is not empty, and PdpFixedRatioStrategy makes configurations of it that *)
(* can be audited.                                                         *)
(***************************************************************************)
EXTENDS SweepAxisInv, SequenceTheorems, TLAPS

------------------------------------------------------------------------------
(* Whole numbers, their products and their rounding. *)

\* A product with a positive number keeps the order.
LEMMA ProductOrder ==
  ASSUME NEW a \in Int, NEW b \in Int, NEW c \in Nat \ {0}
  PROVE  a * c < b * c <=> a < b
<1>1. CASE a < b
  <2>1. PICK d \in Nat \ {0} : b = a + d
    <3>1. b - a \in Nat \ {0} /\ b = a + (b - a)
      BY <1>1
    <3> QED
      BY <3>1
  <2>2. b * c = a * c + d * c /\ d * c > 0
    BY <2>1
  <2> QED
    BY <1>1, <2>2
<1>2. CASE b <= a
  <2>1. PICK d \in Nat : a = b + d
    <3>1. a - b \in Nat /\ a = b + (a - b)
      BY <1>2
    <3> QED
      BY <3>1
  <2>2. a * c = b * c + d * c /\ d * c >= 0
    BY <2>1
  <2> QED
    BY <1>2, <2>2
<1> QED
  BY <1>1, <1>2

\* What a quotient is, as a product and a remainder.
LEMMA Quotient ==
  ASSUME NEW a \in Nat, NEW b \in Nat \ {0}
  PROVE  /\ a \div b \in Nat /\ a % b \in 0 .. b - 1
         /\ a = b * (a \div b) + (a % b)
  BY SMT

\* A number below the modulus does not wrap.
LEMMA NoWrapBelow ==
  ASSUME NEW a \in Nat, NEW m \in Nat \ {0}, a < m
  PROVE  a % m = a
<1>1. /\ a \div m \in Nat /\ a % m \in 0 .. m - 1
      /\ a = m * (a \div m) + (a % m)
  BY Quotient
<1>2. CASE a \div m = 0
  <2>1. m * 0 = 0
    OBVIOUS
  <2> QED
    BY <1>1, <1>2, <2>1
<1>3. CASE a \div m > 0
  <2>1. PICK d \in Nat : a \div m = d + 1
    <3>1. (a \div m) - 1 \in Nat /\ a \div m = ((a \div m) - 1) + 1
      BY <1>1, <1>3
    <3> QED
      BY <3>1
  <2>2. m * (d + 1) = m * d + m /\ m * d \in Nat
    BY <2>1
  <2> QED
    BY <1>1, <2>1, <2>2
<1> QED
  BY <1>1, <1>2, <1>3

\* The next term of a progression.
LEMMA NextTerm ==
  ASSUME NEW first \in Nat, NEW k \in Nat, NEW c \in Nat
  PROVE  /\ first + k * c \in Nat
         /\ first + (k + 1) * c = (first + k * c) + c
<1>1. k * c \in Nat /\ (k + 1) * c = k * c + c
  BY SMT
<1> QED
  BY <1>1

\* Rounding gives a whole number.
LEMMA RoundNat ==
  ASSUME NEW x \in Nat \X (Nat \ {0})
  PROVE  Round(x) \in Nat
<1>1. 2 * x[1] + x[2] \in Nat /\ 2 * x[2] \in Nat \ {0}
  OBVIOUS
<1> QED
  BY <1>1, Quotient DEF Round

\* A number that is at most a whole one does not round beyond it.
LEMMA RoundAtMost ==
  ASSUME NEW x \in Nat \X (Nat \ {0}), NEW n \in Nat, x[1] <= n * x[2]
  PROVE  Round(x) <= n
<1>1. x[1] \in Nat /\ x[2] \in Nat \ {0}
  OBVIOUS
<1> DEFINE a == 2 * x[1] + x[2]
           b == 2 * x[2]
           q == a \div b
<1>2. a \in Nat /\ b \in Nat \ {0}
  BY <1>1
<1>3. q \in Nat /\ b * q <= a
  <2> HIDE DEF a, b
  <2>1. q \in Nat /\ a % b \in 0 .. b - 1 /\ a = b * q + (a % b)
    BY <1>2, Quotient DEF q
  <2>2. b * q \in Int
    BY <1>2, <2>1
  <2> QED
    BY <1>2, <2>1, <2>2
<1>4. a < b * (n + 1)
  <2> DEFINE m == n * x[2]
  <2>1. m \in Nat /\ b * (n + 1) = 2 * m + 2 * x[2] /\ x[1] <= m
    BY <1>1
  <2> HIDE DEF m
  <2> QED
    BY <1>1, <2>1
<1>5. q * b < (n + 1) * b
  <2> HIDE DEF a, b, q
  <2>1. b * q = q * b /\ b * (n + 1) = (n + 1) * b /\ b * q \in Int /\ b * (n + 1) \in Int
    BY <1>2, <1>3
  <2> QED
    BY <1>2, <1>3, <1>4, <2>1
<1>6. q < n + 1
  <2> HIDE DEF a, b, q
  <2> QED
    BY <1>2, <1>3, <1>5, ProductOrder
<1>7. Round(x) = q
  BY DEF Round
<1> QED
  <2> HIDE DEF q
  <2> QED
    BY <1>3, <1>6, <1>7

\* A whole number rounds to itself.
LEMMA RoundWhole ==
  ASSUME NEW n \in Nat
  PROVE  Round(<<n, 1>>) = n
  BY DEF Round

\* A product of fractions is a fraction.
LEMMA TimesFraction ==
  ASSUME NEW x \in Nat \X (Nat \ {0}), NEW y \in Nat \X (Nat \ {0})
  PROVE  Times(x, y) \in Nat \X (Nat \ {0})
<1>1. x[1] \in Nat /\ x[2] \in Nat \ {0} /\ y[1] \in Nat /\ y[2] \in Nat \ {0}
  OBVIOUS
<1>2. x[1] * y[1] \in Nat /\ x[2] * y[2] \in Nat
  BY <1>1
<1>3. x[2] * y[2] # 0
  BY <1>1
<1> QED
  BY <1>2, <1>3 DEF Times

------------------------------------------------------------------------------
(* The parts of the invariant. *)

\* A sequence that is not empty has a length.
LEMMA NotEmpty ==
  ASSUME NEW s \in Seq(Nat), s # <<>>
  PROVE  Len(s) > 0
  BY EmptySeq

\* What the options of an axis are, given or not.
LEMMA OptionTypes ==
  ASSUME AxisTypeOK
  PROVE  /\ input.start.value \in 0 .. Modulus - 1
         /\ input.end.value \in 0 .. Modulus - 1
         /\ input.step.value \in 0 .. Modulus - 1
         /\ input.ratio.value \in Nat \X (Nat \ {0})
         /\ input.csv.value \in Seq(Nat)
         /\ {input.csv.set, input.start.set, input.end.set, input.step.set, input.ratio.set}
              \subseteq BOOLEAN
<1>1. /\ input.csv \in Option(Lists, <<>>)
      /\ input.start \in Option(Numbers, 0) /\ input.end \in Option(Numbers, 0)
      /\ input.step \in Option(Numbers, 0) /\ input.ratio \in Option(Growths, <<2, 1>>)
  BY DEF AxisTypeOK, Inputs
<1>2. 0 \in 0 .. Modulus - 1 /\ <<2, 1>> \in Nat \X (Nat \ {0}) /\ <<>> \in Seq(Nat)
  BY SweepAssumption
<1>3. ASSUME NEW values, NEW default, NEW range,
             values \subseteq range, default \in range,
             NEW o \in Option(values, default)
      PROVE  o.set \in BOOLEAN /\ o.value \in range
  <2>1. CASE o \in Given(values)
    BY <1>3, <2>1 DEF Given
  <2>2. CASE o = NotGiven(default)
    BY <1>3, <2>2 DEF NotGiven
  <2> QED
    BY <1>3, <2>1, <2>2 DEF Option
<1>4. Lists \subseteq Seq(Nat)
  <2>1. 0 .. Modulus - 1 \subseteq Nat
    BY SweepAssumption
  <2>2. \A s \in Seq(0 .. Modulus - 1) : s \in Seq(Nat)
    BY <2>1, SeqMonotonic
  <2> QED
    BY <2>2, SweepAssumption
<1>5. Numbers \subseteq 0 .. Modulus - 1 /\ Growths \subseteq Nat \X (Nat \ {0})
  BY SweepAssumption
<1>6. input.csv.set \in BOOLEAN /\ input.csv.value \in Seq(Nat)
  BY <1>1, <1>2, <1>3, <1>4
<1>7. input.ratio.set \in BOOLEAN /\ input.ratio.value \in Nat \X (Nat \ {0})
  <2> DEFINE fractions == Nat \X (Nat \ {0})
  <2>1. Growths \subseteq fractions /\ <<2, 1>> \in fractions
    BY <1>2, <1>5
  <2> HIDE DEF fractions
  <2>2. input.ratio.set \in BOOLEAN /\ input.ratio.value \in fractions
    BY <1>1, <1>3, <2>1
  <2> QED
    BY <2>2 DEF fractions
<1>8. /\ input.start.set \in BOOLEAN /\ input.start.value \in 0 .. Modulus - 1
      /\ input.end.set \in BOOLEAN /\ input.end.value \in 0 .. Modulus - 1
      /\ input.step.set \in BOOLEAN /\ input.step.value \in 0 .. Modulus - 1
  BY <1>1, <1>2, <1>3, <1>5
<1> QED
  BY <1>6, <1>7, <1>8

\* The first pass of the loop is never refused.
LEMMA FirstPoint ==
  ASSUME AxisTypeOK, input.start.value <= input.end.value,
         points = <<>>, v = <<input.start.value, 1>>
  PROVE  More
<1>1. v[1] = input.start.value /\ v[2] = 1 /\ Len(points) = 0
  OBVIOUS
<1> QED
  BY <1>1, OptionTypes, SweepAssumption DEF More

\* A loop that ends by its condition leaves a point at least.
LEMMA LoopLeavesPoints ==
  ASSUME AxisTypeOK, LoopInv, ~ More
  PROVE  Len(points) > 0
<1>1. Len(points) \in Nat /\ (Len(points) = 0 => points = <<>>)
  BY EmptySeq, LenProperties DEF AxisTypeOK
<1> QED
  BY <1>1, FirstPoint DEF LoopInv

------------------------------------------------------------------------------
(* The steps. *)

\* Where the options come from the command line, nothing has been generated.
LEMMA AxisInit == InitAxis => AxisInv
<1> SUFFICES ASSUME InitAxis PROVE AxisInv
  OBVIOUS
<1>1. points \in Seq(Nat) /\ Len(points) = 3
  BY DEF InitAxis, DefaultPoints
<1>2. v \in Nat \X (Nat \ {0})
  BY DEF InitAxis
<1> QED
  BY <1>1, <1>2 DEF InitAxis, AxisInv, AxisTypeOK, ListInv, SharesInv

\* A list that was accepted is not empty.
LEMMA TakeListStep ==
  ASSUME AxisInv, TakeList
  PROVE  AxisInv'
<1> USE DEF AxisInv, TakeList
<1>1. input.csv.value \in Seq(Nat) /\ input.csv.set \in BOOLEAN
  BY OptionTypes
<1>2. ListInv
  BY DEF LoopInv
<1>3. AxisTypeOK'
  BY <1>1 DEF AxisTypeOK
<1>4. Len(points') > 0
  <2>1. CASE input.csv.set
    <3>1. points' = input.csv.value /\ input.csv.value # <<>>
      BY <2>1 DEF Illegal
    <3>2. \A s \in Seq(Nat) : s # <<>> => Len(s) > 0
      OBVIOUS
    <3> QED
      BY <1>1, <3>1, <3>2
  <2>2. CASE ~ input.csv.set
    BY <1>2, <2>2 DEF ListInv
  <2> QED
    BY <2>1, <2>2
<1> QED
  BY <1>2, <1>3, <1>4 DEF ListInv, SharesInv

\* A generator that resolveAxis let pass is not degenerate: its loop begins.
LEMMA StartGeneratorStep ==
  ASSUME AxisInv, StartGenerator
  PROVE  AxisInv'
<1> USE DEF AxisInv, StartGenerator
<1>1. ListInv
  BY DEF LoopInv
<1>2. ~ input.csv.set
  BY DEF Incomplete, Sources
<1>3. input.start.value <= input.end.value
  BY <1>2, OptionTypes DEF Illegal
<1>4. /\ spec' = "linear" => input.step.value > 0
      /\ spec' = "geometric" => input.ratio.value[1] > input.ratio.value[2]
  BY <1>2, OptionTypes DEF Illegal
<1>5. pc' = "generate"
  BY <1>3, <1>4, OptionTypes DEF Degenerate
<1>6. AxisTypeOK'
  BY <1>5, OptionTypes DEF AxisTypeOK
<1>7. Len(points') = 0 /\ v'[1] = input.start.value /\ v'[2] = 1
  OBVIOUS
<1>8. LoopInv'
  BY <1>3, <1>5, <1>7, SweepAssumption DEF LoopInv
<1>9. CASE spec' = "linear"
  <2>1. 0 * input.step.value = 0
    BY OptionTypes
  <2> QED
    BY <1>4, <1>5, <1>6, <1>7, <1>8, <1>9, <2>1, OptionTypes DEF LinearInv, SharesInv
<1>10. CASE spec' = "geometric"
  BY <1>5, <1>6, <1>7, <1>8, <1>10 DEF GeometricInv, SharesInv
<1> QED
  BY <1>9, <1>10

\* Appending a number adds it behind the points there are.
LEMMA AppendedPoint ==
  ASSUME NEW s \in Seq(Nat), NEW n \in Nat
  PROVE  /\ Append(s, n) \in Seq(Nat)
         /\ Len(s) \in Nat /\ Len(Append(s, n)) = Len(s) + 1
         /\ Append(s, n) # <<>>
         /\ Append(s, n)[Len(s) + 1] = n
         /\ \A i \in 1 .. Len(s) : Append(s, n)[i] = s[i]
  BY LenProperties, EmptySeq

\* A linear point is the next term; without a wrap the one after it is the next sum.
LEMMA LinearPointStep ==
  ASSUME AxisInv, LinearPoint
  PROVE  AxisInv'
<1> USE DEF AxisInv, LinearPoint
<1>1. LoopInv /\ LinearInv
  BY DEF ListInv, GeometricInv
<1>2. v[1] \in Nat /\ points \in Seq(Nat)
  BY DEF AxisTypeOK
<1>3. /\ input.start.value \in Nat /\ input.end.value \in Nat
      /\ input.step.value \in Nat /\ Modulus \in Nat \ {0}
  BY OptionTypes, SweepAssumption
<1>4. (v[1] + input.step.value) % Modulus \in Nat
  BY <1>2, <1>3
<1>5. AxisTypeOK'
  BY <1>2, <1>4, AppendedPoint DEF AxisTypeOK
<1>6. LoopInv'
  <2>1. Len(points) < MaxPoints
    BY DEF More
  <2> QED
    BY <1>1, <1>2, <2>1, AppendedPoint, SweepAssumption DEF LoopInv
<1>7. LinearInv'
  <2>1. ASSUME NoWrap
        PROVE  /\ v' = <<input.start.value + Len(points') * input.step.value, 1>>
               /\ \A i \in 1 .. Len(points') :
                    points'[i] = input.start.value + (i - 1) * input.step.value
    <3> DEFINE k == Len(points)
               at(i) == input.start.value + i * input.step.value
    <3>1. k \in Nat /\ v[1] = at(k) /\ v[2] = 1
      BY <1>1, <1>2, <2>1, LenProperties DEF LinearInv
    <3>2. at(k) \in Nat /\ at(k + 1) = at(k) + input.step.value
      BY <1>3, <3>1, NextTerm, Zenon
    <3>3. v[1] <= input.end.value
      BY <1>2, <1>3, <3>1 DEF More
    <3>4. v[1] + input.step.value < Modulus
      BY <1>2, <1>3, <2>1, <3>3 DEF NoWrap
    <3>5. (v[1] + input.step.value) % Modulus = v[1] + input.step.value
      <4>1. v[1] + input.step.value \in Nat
        BY <1>2, <1>3
      <4> QED
        BY <1>3, <3>4, <4>1, NoWrapBelow, Zenon
    <3>6. v' = <<at(k + 1), 1>>
      BY <3>1, <3>2, <3>5
    <3>7. ASSUME NEW i \in 1 .. k + 1
          PROVE  points'[i] = at(i - 1)
      <4>1. CASE i = k + 1
        <5>1. points'[k + 1] = v[1] /\ (k + 1) - 1 = k
          BY <1>2, <3>1, AppendedPoint
        <5> QED
          BY <3>1, <4>1, <5>1
      <4>2. CASE i \in 1 .. k
        <5>1. points'[i] = points[i]
          BY <1>2, <4>2, AppendedPoint
        <5> QED
          BY <1>1, <2>1, <4>2, <5>1 DEF LinearInv
      <4> QED
        BY <3>1, <4>1, <4>2
    <3>8. Len(points') = k + 1
      BY <1>2, AppendedPoint
    <3> QED
      BY <3>6, <3>7, <3>8
  <2> QED
    BY <1>1, <2>1 DEF LinearInv, NoWrap
<1> QED
  BY <1>5, <1>6, <1>7 DEF SharesInv

\* A geometric point is in the range and above the one before, or the loop is left.
LEMMA GeometricPointStep ==
  ASSUME AxisInv, GeometricPoint
  PROVE  AxisInv'
<1> USE DEF AxisInv, GeometricPoint
<1>1. LoopInv /\ GeometricInv
  BY DEF ListInv, LinearInv
<1>2. v \in Nat \X (Nat \ {0}) /\ points \in Seq(Nat) /\ Len(points) \in Nat
  BY LenProperties DEF AxisTypeOK
<1>3. /\ input.start.value \in Nat /\ input.end.value \in Nat
      /\ input.ratio.value \in Nat \X (Nat \ {0})
  BY OptionTypes, SweepAssumption
<1> DEFINE k == Len(points)
           n == Round(v)
           after == Times(v, input.ratio.value)
<1>4. n \in Nat /\ after \in Nat \X (Nat \ {0}) /\ Round(after) \in Nat
  <2>1. after \in Nat \X (Nat \ {0})
    BY <1>2, <1>3, TimesFraction
  <2> QED
    BY <1>2, <2>1, RoundNat
<1>5. AxisTypeOK'
  <2>1. points' \in Seq(Nat)
    BY <1>2, <1>4, AppendedPoint
  <2>2. v' = v \/ v' = after
    OBVIOUS
  <2> HIDE DEF after
  <2> QED
    BY <1>4, <2>1, <2>2 DEF AxisTypeOK
<1>6. /\ points' # <<>> /\ Len(points') = k + 1
      /\ points'[k + 1] = n /\ \A i \in 1 .. k : points'[i] = points[i]
  BY <1>2, <1>4, AppendedPoint
<1>7. LoopInv'
  BY <1>1, <1>2, <1>6, SweepAssumption DEF LoopInv, More
<1>8. k = 0 => n = input.start.value
  <2>1. ASSUME k = 0 PROVE v = <<input.start.value, 1>>
    BY <1>1, <1>2, <2>1, EmptySeq DEF LoopInv
  <2> QED
    BY <1>3, <2>1, RoundWhole
<1>9. k > 0 => points[k] < n /\ InRange(points[k])
  BY <1>1, <1>2 DEF GeometricInv
<1>10. InRange(n)
  <2>1. n <= input.end.value
    BY <1>2, <1>3, RoundAtMost DEF More
  <2>2. input.start.value <= n
    <3>1. \A i \in 1 .. k : points[i] \in Nat
      BY <1>2, ElementOfSeq
    <3> HIDE DEF n
    <3> QED
      BY <1>2, <1>3, <1>4, <1>8, <1>9, <3>1 DEF InRange
  <2> QED
    BY <2>1, <2>2 DEF InRange
<1>11. GeometricInv'
  <2> HIDE DEF n, after
  <2>1. points'[1] = input.start.value
    BY <1>1, <1>2, <1>6, <1>8 DEF GeometricInv
  <2>2. ASSUME NEW i \in 1 .. k + 1 PROVE InRange(points'[i])
    BY <1>1, <1>2, <1>6, <1>10 DEF GeometricInv
  <2>3. ASSUME NEW i \in 1 .. k PROVE points'[i] < points'[i + 1]
    <3>1. CASE i = k
      BY <1>2, <1>6, <1>9, <3>1
    <3>2. CASE i < k
      BY <1>1, <1>2, <1>6, <3>2 DEF GeometricInv
    <3> QED
      BY <1>2, <3>1, <3>2
  <2>4. pc' = "generate" => n < Round(after) /\ v' = after
    BY <1>4 DEF n, after
  <2>5. /\ spec' = "geometric" /\ Len(points') > 0 => points'[1] = input'.start.value
        /\ \A i \in 1 .. Len(points') : InRange(points[i])'
    BY <1>1, <1>6, <2>1, <2>2 DEF GeometricInv, InRange
  <2>6. \A i \in 1 .. Len(points') - 1 : points'[i] < points'[i + 1]
    BY <1>2, <1>6, <2>3
  <2>7. pc' = "generate" => points'[Len(points')] < Round(v')
    BY <1>6, <2>4
  <2> QED
    BY <2>5, <2>6, <2>7 DEF GeometricInv
<1> QED
  BY <1>5, <1>7, <1>11 DEF SharesInv

\* The loop is left by its condition, with a point at least.
LEMMA EndGeneratorStep ==
  ASSUME AxisInv, EndGenerator
  PROVE  AxisInv'
<1> USE DEF AxisInv, EndGenerator
<1>1. LoopInv /\ Len(points) > 0
  BY LoopLeavesPoints DEF ListInv
<1>2. AxisTypeOK' /\ SharesInv'
  BY DEF AxisTypeOK, SharesInv
<1>3. LoopInv'
  BY <1>1 DEF LoopInv
<1>4. CASE LinearInv
  BY <1>2, <1>3, <1>4 DEF LinearInv, More, NoWrap
<1>5. CASE GeometricInv
  BY <1>2, <1>3, <1>5 DEF GeometricInv, InRange
<1> QED
  BY <1>1, <1>4, <1>5 DEF ListInv

\* Deriving configurations leaves the axis as it is.
LEMMA DeriveStep ==
  ASSUME AxisInv, DeriveFixedRatio \/ DeriveUsers
  PROVE  AxisInv'
<1> USE DEF AxisInv
<1>1. /\ pc = "resolved" /\ pc' \in {"fixed ratio", "users"}
      /\ UNCHANGED <<input, spec, v, points>>
  BY DEF DeriveFixedRatio, DeriveUsers
<1>2. AxisTypeOK'
  BY <1>1 DEF AxisTypeOK
<1>3. SharesInv'
  <2>1. CASE DeriveFixedRatio
    <3>1. PICK corrupted \in Shares, sample \in Shares :
            configs' = [ i \in 1 .. Len(points) |-> FixedRatioConfig(points[i], corrupted, sample) ]
      BY <2>1 DEF DeriveFixedRatio
    <3>2. configs' = [ i \in 1 .. Len(points') |-> FixedRatioConfig(points'[i], corrupted, sample) ]
      BY <1>1, <3>1
    <3> QED
      BY <3>2, Zenon DEF SharesInv
  <2>2. CASE DeriveUsers
    BY <2>2 DEF SharesInv, DeriveUsers
  <2> QED
    BY <2>1, <2>2
<1>4. CASE ListInv
  BY <1>1, <1>2, <1>3, <1>4 DEF ListInv
<1>5. CASE LoopInv /\ LinearInv
  BY <1>1, <1>2, <1>3, <1>5 DEF LoopInv, LinearInv, More, NoWrap
<1>6. CASE LoopInv /\ GeometricInv
  BY <1>1, <1>2, <1>3, <1>6 DEF LoopInv, GeometricInv, InRange
<1> QED
  BY <1>4, <1>5, <1>6

\* Options that are refused give no axis.
LEMMA RejectStep ==
  ASSUME AxisInv, Reject
  PROVE  AxisInv'
<1> USE DEF AxisInv, Reject
<1>1. ListInv
  BY DEF LoopInv
<1> QED
  BY <1>1 DEF AxisTypeOK, ListInv, SharesInv

(***************************************************************************)
(* In every reachable state the points there are and the loop variable     *)
(* that gives the next one fit the options of the axis.                    *)
(***************************************************************************)
THEOREM AxisInvariant == SpecAxis => []AxisInv
<1>1. AxisInv /\ [NextAxis]_vars => AxisInv'
  <2> SUFFICES ASSUME AxisInv, [NextAxis]_vars PROVE AxisInv'
    OBVIOUS
  <2>1. CASE NextAxis
    BY <2>1, RejectStep, TakeListStep, StartGeneratorStep, LinearPointStep,
       GeometricPointStep, EndGeneratorStep, DeriveStep DEF NextAxis
  <2>2. CASE UNCHANGED vars
    <3>1. UNCHANGED <<input, pc, spec, v, points, configs>>
      BY <2>2 DEF vars
    <3>2. AxisTypeOK' /\ (ListInv' <=> ListInv) /\ (LoopInv' <=> LoopInv)
      BY <3>1 DEF AxisInv, AxisTypeOK, ListInv, LoopInv
    <3>3. (LinearInv' <=> LinearInv) /\ (GeometricInv' <=> GeometricInv)
      BY <3>1 DEF LinearInv, GeometricInv, More, NoWrap, InRange
    <3>4. SharesInv'
      BY <3>1, Zenon DEF AxisInv, SharesInv
    <3> QED
      BY <3>2, <3>3, <3>4 DEF AxisInv
  <2> QED
    BY <2>1, <2>2
<1> QED
  BY AxisInit, <1>1, PTL DEF SpecAxis

------------------------------------------------------------------------------
(* What a user of the axis relies on. *)

(***************************************************************************)
(* Options resolveAxis accepts give an axis with a point at least, also    *)
(* where the generator's sums wrap.                                        *)
(***************************************************************************)
THEOREM AcceptedAxisHasPoints == SpecAxis => []AcceptedHasPoints
<1>1. AxisInv => AcceptedHasPoints
  <2> SUFFICES ASSUME AxisInv, Accepted PROVE Len(points) > 0
    BY DEF AcceptedHasPoints
  <2>1. CASE ListInv
    BY <2>1 DEF ListInv
  <2>2. CASE LoopInv
    <3>1. points # <<>>
      BY <2>2 DEF LoopInv, Accepted
    <3>2. points \in Seq(Nat)
      BY DEF AxisInv, AxisTypeOK
    <3> QED
      BY <3>1, <3>2, NotEmpty
  <2> QED
    BY <2>1, <2>2 DEF AxisInv
<1> QED
  BY <1>1, AxisInvariant, PTL

(***************************************************************************)
(* A geometric axis begins at start, stays within its range although every *)
(* point is rounded, and increases.                                        *)
(***************************************************************************)
THEOREM GeometricAxisIncreases == SpecAxis => []GeometricIncreases
<1>1. AxisInv => GeometricIncreases
  <2> SUFFICES ASSUME AxisInv, Generated("geometric") PROVE GeometricIncreases
    BY DEF GeometricIncreases
  <2>1. LoopInv /\ GeometricInv
    BY DEF AxisInv, Generated, ListInv, LinearInv
  <2>2. Len(points) > 0
    <3>1. points # <<>>
      BY <2>1 DEF LoopInv, Generated
    <3>2. points \in Seq(Nat)
      BY DEF AxisInv, AxisTypeOK
    <3> QED
      BY <3>1, <3>2, NotEmpty
  <2> QED
    BY <2>1, <2>2 DEF GeometricInv, GeometricIncreases
<1> QED
  BY <1>1, AxisInvariant, PTL

(***************************************************************************)
(* A linear axis is the arithmetic progression of its options, as far as   *)
(* maxPoints lets it, if the last sum of the loop fits into size_t.        *)
(***************************************************************************)
THEOREM LinearAxisIsProgression == SpecAxis => []LinearIsProgression
<1>1. AxisInv => LinearIsProgression
  <2> SUFFICES ASSUME AxisInv, Generated("linear"), NoWrap PROVE LinearIsProgression
    BY DEF LinearIsProgression
  <2>1. LoopInv /\ LinearInv /\ ~ More
    BY DEF AxisInv, Generated, ListInv, LinearInv, GeometricInv
  <2> DEFINE first == input.start.value
             last  == input.end.value
             step  == input.step.value
             k     == Len(points)
  <2>2. /\ first \in Nat /\ last \in Nat /\ step \in Nat \ {0} /\ k \in Nat
        /\ MaxPoints \in Nat \ {0} /\ Modulus \in Nat \ {0} /\ k <= MaxPoints
    <3>1. AxisTypeOK
      BY DEF AxisInv
    <3>2. k \in Nat
      BY <3>1, LenProperties DEF AxisTypeOK
    <3>3. first \in Nat /\ last \in Nat /\ step \in Nat
      BY <3>1, OptionTypes, SweepAssumption
    <3> QED
      BY <2>1, <3>2, <3>3, SweepAssumption DEF LinearInv, LoopInv
  <2>3. \A i \in 1 .. k : points[i] = first + (i - 1) * step
    BY <2>1 DEF LinearInv
  <2>4. first + k * step > last \/ k = MaxPoints
    <3>1. v[1] = first + k * step /\ v[2] = 1
      BY <2>1 DEF LinearInv
    <3>2. last * v[2] = last /\ v[1] \in Int
      BY <2>2, <3>1
    <3> QED
      BY <2>1, <2>2, <3>1, <3>2 DEF More
  <2>5. ASSUME NEW n \in Progression
        PROVE  \/ \E i \in 1 .. k : points[i] = n
               \/ k = MaxPoints /\ n > points[MaxPoints]
    <3>1. n \in Nat /\ first <= n /\ n <= last /\ (n - first) % step = 0
      BY <2>2 DEF Progression, InRange
    <3> HIDE DEF first, last, step, k
    <3>2. PICK q \in Nat : n = first + q * step
      <4> DEFINE gap == n - first
      <4>1. gap \in Nat /\ n = first + gap /\ gap % step = 0
        BY <2>2, <3>1
      <4>2. gap \div step \in Nat /\ gap = step * (gap \div step) + (gap % step)
        BY <2>2, <4>1, Quotient
      <4> HIDE DEF gap
      <4>3. gap = (gap \div step) * step
        BY <2>2, <4>1, <4>2
      <4> QED
        BY <4>1, <4>2, <4>3
    <3>3. CASE q < k
      <4>1. q + 1 \in 1 .. k /\ (q + 1) - 1 = q
        BY <2>2, <3>2, <3>3
      <4>2. points[q + 1] = n
        BY <2>3, <3>2, <4>1
      <4> QED
        BY <4>1, <4>2
    <3>4. CASE k <= q
      <4>1. k * step \in Nat /\ q * step \in Nat /\ ~ (q * step < k * step)
        BY <2>2, <3>2, <3>4, ProductOrder
      <4>2. k = MaxPoints
        BY <2>2, <2>4, <3>1, <3>2, <4>1
      <4>3. points[k] = first + (k - 1) * step
        BY <2>2, <2>3, <4>2
      <4>4. (k - 1) * step < q * step
        BY <2>2, <3>2, <3>4, ProductOrder
      <4>5. (k - 1) * step \in Int
        BY <2>2
      <4> QED
        BY <2>2, <3>2, <4>1, <4>2, <4>3, <4>4, <4>5
    <3> QED
      BY <2>2, <3>2, <3>3, <3>4
  <2> QED
    BY <2>3, <2>5 DEF LinearIsProgression
<1> QED
  BY <1>1, AxisInvariant, PTL

\* A share of a file with a block is some of its blocks.
LEMMA ShareAuditable ==
  ASSUME NEW n \in Nat \ {0}, NEW ratio \in Nat \X (Nat \ {0})
  PROVE  AtMost(Atleast1(Share(n, ratio)), n) \in 1 .. n
<1>1. n * ratio[1] \in Nat /\ ratio[2] \in Nat \ {0}
  OBVIOUS
<1>2. Share(n, ratio) \in Nat
  BY <1>1, Quotient DEF Share
<1> QED
  BY <1>2 DEF AtMost, Atleast1

\* The configuration of a file with a block can be audited.
LEMMA ConfigAuditable ==
  ASSUME NEW n \in Nat, NEW corrupted \in Nat \X (Nat \ {0}), NEW sample \in Nat \X (Nat \ {0}),
         FixedRatioConfig(n, corrupted, sample).total > 0
  PROVE  /\ FixedRatioConfig(n, corrupted, sample).corrupted
              \in 1 .. FixedRatioConfig(n, corrupted, sample).total
         /\ FixedRatioConfig(n, corrupted, sample).sample
              \in 1 .. FixedRatioConfig(n, corrupted, sample).total
<1> DEFINE config == FixedRatioConfig(n, corrupted, sample)
           t == AtMost(Atleast1(Share(n, corrupted)), n)
           r == AtMost(Atleast1(Share(n, sample)), n)
<1>1. config.total = n /\ config.corrupted = t /\ config.sample = r
  BY DEF FixedRatioConfig, PdpConfig
<1>2. n > 0
  BY <1>1
<1>3. t \in 1 .. n /\ r \in 1 .. n
  BY <1>2, ShareAuditable
<1> QED
  BY <1>1, <1>3

\* A sequence's length is that of the range it is defined on.
LEMMA LengthOfMap ==
  ASSUME NEW S, NEW k \in Nat, NEW s \in [ 1 .. k -> S ]
  PROVE  Len(s) = k
<1>1. s \in Seq(S)
  BY SeqDef
<1>2. Len(s) \in Nat /\ DOMAIN s = 1 .. Len(s)
  BY <1>1, LenProperties
<1>3. 1 .. Len(s) = 1 .. k
  BY <1>2
<1>4. CASE k < Len(s)
  <2>1. Len(s) \in 1 .. Len(s) /\ Len(s) \notin 1 .. k
    BY <1>2, <1>4
  <2> QED
    BY <1>3, <2>1
<1>5. CASE Len(s) < k
  <2>1. k \in 1 .. k /\ k \notin 1 .. Len(s)
    BY <1>2, <1>5
  <2> QED
    BY <1>3, <2>1
<1> QED
  BY <1>2, <1>4, <1>5

(***************************************************************************)
(* Every configuration PdpFixedRatioStrategy derives for a file with a     *)
(* block corrupts and challenges some of its blocks, never more than all.  *)
(***************************************************************************)
THEOREM DerivedConfigsAuditable == SpecAxis => []ConfigsAuditable
<1>1. AxisInv => ConfigsAuditable
  <2> SUFFICES ASSUME AxisInv, pc = "fixed ratio", NEW i \in 1 .. Len(configs),
                      configs[i].total > 0
               PROVE  /\ configs[i].corrupted \in 1 .. configs[i].total
                      /\ configs[i].sample \in 1 .. configs[i].total
    BY DEF ConfigsAuditable
  <2>1. PICK corrupted \in Shares, sample \in Shares :
          configs = [ j \in 1 .. Len(points) |-> FixedRatioConfig(points[j], corrupted, sample) ]
    BY DEF AxisInv, SharesInv
  <2>2. corrupted \in Nat \X (Nat \ {0}) /\ sample \in Nat \X (Nat \ {0})
    BY SweepAssumption
  <2>3. Len(points) \in Nat /\ \A j \in 1 .. Len(points) : points[j] \in Nat
    BY LenProperties, ElementOfSeq DEF AxisInv, AxisTypeOK
  <2>4. Len(configs) = Len(points)
    <3> DEFINE k == Len(points)
               all == { FixedRatioConfig(points[j], corrupted, sample) : j \in 1 .. k }
    <3>1. configs \in [ 1 .. k -> all ]
      BY <2>1
    <3> QED
      BY <2>3, <3>1, LengthOfMap, Zenon
  <2>5. configs[i] = FixedRatioConfig(points[i], corrupted, sample) /\ points[i] \in Nat
    BY <2>1, <2>3, <2>4, Zenon
  <2> QED
    BY <2>2, <2>5, ConfigAuditable, Zenon
<1> QED
  BY <1>1, AxisInvariant, PTL
==============================================================================
