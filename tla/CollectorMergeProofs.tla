------------------------- MODULE CollectorMergeProofs -------------------------
(***************************************************************************)
(* Theorems about the life of a run's collectors, for any number of        *)
(* workers, any iterations per worker and any stages and messages: merged, *)
(* the collectors hold what one collector would have recorded, every       *)
(* worker's first setup counts once, and no average is stale.              *)
(***************************************************************************)
EXTENDS CollectorMergeInv, FiniteSetTheorems, SequenceTheorems, WellFoundedInduction, TLAPS

------------------------------------------------------------------------------
(* Induction. *)

\* Induction over the natural numbers, for a set.
LEMMA SetInduction ==
  ASSUME NEW S, 0 \in S, \A n \in Nat : n \in S => n + 1 \in S
  PROVE  Nat \subseteq S
<1> SUFFICES ASSUME Nat \ S # {} PROVE FALSE
  OBVIOUS
<1> DEFINE below == { pair \in Nat \X Nat : pair[1] < pair[2] }
<1>1. PICK least \in Nat \ S : \A y \in Nat \ S : <<y, least>> \notin below
  <2>1. IsWellFoundedOn(below, Nat)
    BY NatLessThanWellFounded DEF OpToRel
  <2> HIDE DEF below
  <2> QED
    BY <2>1, WFMin, Zenon
<1>2. least - 1 \in Nat /\ (least - 1) + 1 = least
  BY <1>1
<1>3. least - 1 \notin S
  BY <1>1, <1>2
<1>4. <<least - 1, least>> \in Nat \X Nat /\ least - 1 < least
  BY <1>2
<1> QED
  BY <1>1, <1>2, <1>3, <1>4

\* Induction over the finite subsets of a set, by their cardinality.
LEMMA SubsetInduction ==
  ASSUME NEW S, IsFiniteSet(S), NEW good,
         \A T \in SUBSET S :
           (\A U \in SUBSET S : Cardinality(U) < Cardinality(T) => U \in good) => T \in good
  PROVE  SUBSET S \subseteq good
<1> DEFINE reached == { n \in Nat : \A T \in SUBSET S : Cardinality(T) <= n => T \in good }
<1>1. \A T \in SUBSET S : Cardinality(T) \in Nat
  BY FS_Subset, FS_CardinalityType
<1>2. 0 \in reached
  BY <1>1
<1>3. ASSUME NEW n \in Nat, n \in reached PROVE n + 1 \in reached
  <2>1. ASSUME NEW T \in SUBSET S, Cardinality(T) <= n + 1 PROVE T \in good
    <3>1. \A U \in SUBSET S : Cardinality(U) < Cardinality(T) => Cardinality(U) <= n
      BY <1>1, <2>1
    <3> QED
      BY <1>3, <3>1
  <2> QED
    BY <2>1
<1> HIDE DEF reached
<1>4. Nat \subseteq reached
  BY <1>2, <1>3, SetInduction
<1> QED
  BY <1>1, <1>4 DEF reached

------------------------------------------------------------------------------
(* Sums over finite sets. *)

\* sum is the function SumFunctionOnSet defines by recursion on the subsets of S.
IsSum(sum, f, S) ==
  sum = [ s \in SUBSET S |->
            IF s = {} THEN 0
            ELSE f[CHOOSE x \in s : TRUE] + sum[s \ { CHOOSE x \in s : TRUE }] ]

\* The sum of the community module is such a function's value.
LEMMA SumByRecursion ==
  ASSUME NEW f, NEW S
  PROVE  SumFunctionOnSet(f, S) = (CHOOSE sum : IsSum(sum, f, S))[S]
  BY DEF SumFunctionOnSet, FoldFunctionOnSet, MapThenFoldSet, IsSum

\* A chosen element of a set, and the set without it.
LEMMA ChosenElement ==
  ASSUME NEW S, IsFiniteSet(S), NEW T \in SUBSET S, T # {}
  PROVE  /\ (CHOOSE x \in T : TRUE) \in T
         /\ \A y \in T : /\ T \ {y} \in SUBSET S
                         /\ Cardinality(T \ {y}) \in Nat
                         /\ Cardinality(T) = Cardinality(T \ {y}) + 1
                         /\ Cardinality(T \ {y}) < Cardinality(T)
<1>1. (CHOOSE x \in T : TRUE) \in T
  OBVIOUS
<1>2. ASSUME NEW y \in T
      PROVE  /\ T \ {y} \in SUBSET S
             /\ Cardinality(T \ {y}) \in Nat
             /\ Cardinality(T) = Cardinality(T \ {y}) + 1
             /\ Cardinality(T \ {y}) < Cardinality(T)
  <2>1. IsFiniteSet(T)
    BY FS_Subset
  <2>2. Cardinality(T) \in Nat /\ Cardinality(T \ {y}) = Cardinality(T) - 1
    BY <2>1, FS_RemoveElement, FS_CardinalityType
  <2>3. IsFiniteSet(T \ {y}) /\ Cardinality(T \ {y}) \in Nat
    BY <2>1, FS_RemoveElement, FS_CardinalityType
  <2> QED
    BY <2>2, <2>3
<1> QED
  BY <1>1, <1>2

\* What the recursion says of one subset.
LEMMA SumUnfold ==
  ASSUME NEW sum, NEW f, NEW S, IsSum(sum, f, S), NEW T \in SUBSET S
  PROVE  sum[T] = IF T = {} THEN 0
                  ELSE f[CHOOSE x \in T : TRUE] + sum[T \ { CHOOSE x \in T : TRUE }]
  BY Zenon DEF IsSum

\* There is a function the recursion defines.
LEMMA SumExists ==
  ASSUME NEW f, NEW S, IsFiniteSet(S)
  PROVE  \E sum : IsSum(sum, f, S)
<1> DEFINE small(n)     == { T \in SUBSET S : Cardinality(T) <= n }
           step(sum, T) == IF T = {} THEN 0
                           ELSE f[CHOOSE x \in T : TRUE] + sum[T \ { CHOOSE x \in T : TRUE }]
           upTo(sum, n) == sum = [ T \in small(n) |-> step(sum, T) ]
           reached      == { n \in Nat : \E sum : upTo(sum, n) }
<1>1. \A T \in SUBSET S : Cardinality(T) \in Nat /\ (Cardinality(T) = 0 <=> T = {})
  BY FS_Subset, FS_CardinalityType, FS_EmptySet
<1>2. 0 \in reached
  <2> DEFINE none == [ T \in small(0) |-> 0 ]
  <2>1. \A T \in small(0) : T = {}
    BY <1>1
  <2>2. \A T \in small(0) : step(none, T) = 0
    BY <2>1, Zenon
  <2>3. upTo(none, 0)
    BY <2>2
  <2> QED
    BY <2>3
<1>3. ASSUME NEW n \in Nat, n \in reached PROVE n + 1 \in reached
  <2>1. PICK sum : upTo(sum, n)
    BY <1>3
  <2> DEFINE more == [ T \in small(n + 1) |-> step(sum, T) ]
  <2>2. ASSUME NEW T \in small(n) PROVE more[T] = sum[T] /\ T \in small(n + 1)
    <3>1. T \in small(n + 1)
      BY <1>1
    <3>2. sum[T] = step(sum, T)
      <4> HIDE DEF small, step
      <4> QED
        BY <2>1, Zenon
    <3> HIDE DEF small, step
    <3> QED
      BY <3>1, <3>2, Zenon
  <2>3. ASSUME NEW T \in small(n + 1) PROVE step(more, T) = step(sum, T)
    <3>1. CASE T = {}
      BY <3>1
    <3>2. CASE T # {}
      <4> DEFINE x == CHOOSE x \in T : TRUE
      <4>1. T \ {x} \in SUBSET S /\ Cardinality(T \ {x}) < Cardinality(T)
        BY <3>2, ChosenElement
      <4>2. T \ {x} \in small(n)
        BY <1>1, <4>1
      <4>3. more[T \ {x}] = sum[T \ {x}]
        <5> HIDE DEF x, more, small
        <5> QED
          BY <2>2, <4>2
      <4> HIDE DEF more
      <4> QED
        BY <3>2, <4>3, Zenon
    <3> QED
      BY <3>1, <3>2
  <2>4. upTo(more, n + 1)
    <3>1. \A T \in small(n + 1) : step(more, T) = step(sum, T)
      BY <2>3
    <3> HIDE DEF small, step
    <3> QED
      BY <3>1
  <2> HIDE DEF upTo, more
  <2> QED
    BY <2>4
<1>4. PICK sum : upTo(sum, Cardinality(S))
  <2> HIDE DEF reached
  <2>1. Cardinality(S) \in Nat /\ Nat \subseteq reached
    BY <1>1, <1>2, <1>3, SetInduction
  <2> QED
    BY <2>1 DEF reached
<1>5. small(Cardinality(S)) = SUBSET S
  BY FS_Subset
<1>6. sum = [ T \in SUBSET S |-> step(sum, T) ]
  <2> HIDE DEF small, step
  <2> QED
    BY <1>4, <1>5
<1> QED
  BY <1>6, Zenon DEF IsSum

\* Its values are naturals, whatever the element that is taken out.
LEMMA SumValues ==
  ASSUME NEW f, NEW S, IsFiniteSet(S), \A x \in S : f[x] \in Nat,
         NEW sum, IsSum(sum, f, S)
  PROVE  \A T \in SUBSET S : /\ sum[T] \in Nat
                             /\ \A y \in T : sum[T] = sum[T \ {y}] + f[y]
<1> DEFINE Good(T) == sum[T] \in Nat /\ \A y \in T : sum[T] = sum[T \ {y}] + f[y]
           good    == { T \in SUBSET S : Good(T) }
<1>1. ASSUME NEW T \in SUBSET S,
             \A U \in SUBSET S : Cardinality(U) < Cardinality(T) => U \in good
      PROVE  T \in good
  <2>1. CASE T = {}
    <3>1. sum[T] = 0
      BY <2>1, SumUnfold, Zenon
    <3> QED
      BY <2>1, <3>1
  <2>2. CASE T # {}
    <3> DEFINE x == CHOOSE x \in T : TRUE
    <3>1. x \in T /\ x \in S
      BY <2>2
    <3>2. sum[T] = f[x] + sum[T \ {x}]
      BY <2>2, SumUnfold, Zenon
    <3> HIDE DEF x
    <3>3. \A y \in T : T \ {y} \in good
      BY <1>1, <2>2, ChosenElement
    <3>4. sum[T] \in Nat
      BY <3>1, <3>2, <3>3
    <3>5. ASSUME NEW y \in T, y # x PROVE sum[T] = sum[T \ {y}] + f[y]
      <4>1. sum[T \ {x}] = sum[(T \ {x}) \ {y}] + f[y]
        BY <3>1, <3>3, <3>5
      <4>2. sum[T \ {y}] = sum[(T \ {y}) \ {x}] + f[x]
        BY <3>1, <3>3, <3>5
      <4>3. (T \ {x}) \ {y} = (T \ {y}) \ {x}
        OBVIOUS
      <4>4. (T \ {x}) \ {y} \in good
        <5>1. Cardinality((T \ {x}) \ {y}) < Cardinality(T)
          <6>1. Cardinality(T \ {x}) \in Nat /\ Cardinality(T) = Cardinality(T \ {x}) + 1
            BY <2>2, <3>1, ChosenElement
          <6>2. T \ {x} \in SUBSET S /\ T \ {x} # {} /\ y \in T \ {x}
            BY <3>5
          <6>3. /\ Cardinality((T \ {x}) \ {y}) \in Nat
                /\ Cardinality((T \ {x}) \ {y}) < Cardinality(T \ {x})
            BY <6>2, ChosenElement
          <6> QED
            BY <6>1, <6>3
        <5> QED
          BY <1>1, <5>1
      <4>5. f[x] \in Nat /\ f[y] \in Nat /\ sum[(T \ {x}) \ {y}] \in Nat
        BY <3>1, <4>4
      <4> DEFINE rest == sum[(T \ {x}) \ {y}]
      <4>6. sum[T] = f[x] + (rest + f[y])
        BY <3>2, <4>1, Zenon
      <4>7. sum[T \ {y}] = rest + f[x]
        BY <4>2, <4>3, Zenon
      <4>8. \A a, b, c \in Nat : a + (c + b) = (c + a) + b
        OBVIOUS
      <4>9. rest \in Nat
        BY <4>5
      <4> HIDE DEF rest
      <4>10. f[x] + (rest + f[y]) = (rest + f[x]) + f[y]
        BY <4>5, <4>8, <4>9, Zenon
      <4> QED
        BY <4>6, <4>7, <4>10, Zenon
    <3>6. sum[T] = sum[T \ {x}] + f[x]
      <4>1. f[x] \in Nat /\ sum[T \ {x}] \in Nat
        BY <3>1, <3>3
      <4>2. \A a, b \in Nat : a + b = b + a
        OBVIOUS
      <4> QED
        BY <3>2, <4>1, <4>2, Zenon
    <3> QED
      BY <3>4, <3>5, <3>6
  <2> QED
    BY <2>1, <2>2
<1> HIDE DEF good, Good
<1>2. SUBSET S \subseteq good
  BY <1>1, SubsetInduction
<1> QED
  BY <1>2 DEF good, Good

\* Two such functions agree on the sets their summands agree on.
LEMMA SumsAgree ==
  ASSUME NEW f, NEW S, NEW sum, IsSum(sum, f, S),
         NEW g, NEW R, NEW sumR, IsSum(sumR, g, R),
         NEW A, A \subseteq S, A \subseteq R, IsFiniteSet(A),
         \A x \in A : f[x] = g[x]
  PROVE  sum[A] = sumR[A]
<1> DEFINE good == { T \in SUBSET A : sum[T] = sumR[T] }
<1>1. ASSUME NEW T \in SUBSET A,
             \A U \in SUBSET A : Cardinality(U) < Cardinality(T) => U \in good
      PROVE  T \in good
  <2> DEFINE x == CHOOSE x \in T : TRUE
  <2> T \in SUBSET S /\ T \in SUBSET R
    OBVIOUS
  <2>1. CASE T = {}
    <3>1. sum[T] = 0 /\ sumR[T] = 0
      BY <2>1, SumUnfold, Zenon
    <3> QED
      BY <3>1
  <2>2. CASE T # {}
    <3>1. x \in T /\ x \in A
      BY <2>2
    <3>2. T \ {x} \in good
      BY <1>1, <2>2, <3>1, ChosenElement
    <3>3. sum[T] = f[x] + sum[T \ {x}]
      <4>1. T \in SUBSET S
        OBVIOUS
      <4>2. sum[T] = IF T = {} THEN 0 ELSE f[x] + sum[T \ {x}]
        BY <4>1, SumUnfold
      <4> QED
        BY <2>2, <4>2, Zenon
    <3>4. sumR[T] = g[x] + sumR[T \ {x}]
      <4>1. T \in SUBSET R
        OBVIOUS
      <4>2. sumR[T] = IF T = {} THEN 0 ELSE g[x] + sumR[T \ {x}]
        BY <4>1, SumUnfold
      <4> QED
        BY <2>2, <4>2, Zenon
    <3> HIDE DEF x
    <3> QED
      BY <3>1, <3>2, <3>3, <3>4
  <2> QED
    BY <2>1, <2>2
<1> HIDE DEF good
<1>2. SUBSET A \subseteq good
  BY <1>1, SubsetInduction
<1> QED
  BY <1>2 DEF good

\* The sum's recursive function exists, and its value at the whole set is the sum.
LEMMA SumFunctionIsSum ==
  ASSUME NEW f, NEW S, IsFiniteSet(S)
  PROVE  \E sum : IsSum(sum, f, S) /\ SumFunctionOnSet(f, S) = sum[S]
<1> DEFINE sum == CHOOSE sum : IsSum(sum, f, S)
<1>1. IsSum(sum, f, S)
  BY SumExists
<1>2. SumFunctionOnSet(f, S) = sum[S]
  BY SumByRecursion
<1> HIDE DEF sum
<1> QED
  BY <1>1, <1>2

\* A sum of naturals is a natural, and nothing sums to zero.
LEMMA SumNat ==
  ASSUME NEW f, NEW S, IsFiniteSet(S), \A x \in S : f[x] \in Nat
  PROVE  SumFunctionOnSet(f, S) \in Nat /\ (S = {} => SumFunctionOnSet(f, S) = 0)
<1>1. PICK sum : IsSum(sum, f, S) /\ SumFunctionOnSet(f, S) = sum[S]
  BY SumFunctionIsSum
<1>2. sum[S] \in Nat
  BY <1>1, SumValues
<1>3. S = {} => sum[S] = 0
  BY <1>1, SumUnfold, Zenon
<1> QED
  BY <1>1, <1>2, <1>3

\* A sum depends on its summands only.
LEMMA SumCongruent ==
  ASSUME NEW f, NEW g, NEW S, IsFiniteSet(S), \A x \in S : f[x] = g[x]
  PROVE  SumFunctionOnSet(f, S) = SumFunctionOnSet(g, S)
<1>1. PICK sum : IsSum(sum, f, S) /\ SumFunctionOnSet(f, S) = sum[S]
  BY SumFunctionIsSum
<1>2. PICK sumG : IsSum(sumG, g, S) /\ SumFunctionOnSet(g, S) = sumG[S]
  BY SumFunctionIsSum
<1>3. sum[S] = sumG[S]
  BY <1>1, <1>2, SumsAgree
<1> QED
  BY <1>1, <1>2, <1>3

\* Taking one element out of a sum.
LEMMA SumRemove ==
  ASSUME NEW f, NEW S, IsFiniteSet(S), \A x \in S : f[x] \in Nat, NEW y \in S
  PROVE  SumFunctionOnSet(f, S) = SumFunctionOnSet(f, S \ {y}) + f[y]
<1>1. PICK sum : IsSum(sum, f, S) /\ SumFunctionOnSet(f, S) = sum[S]
  BY SumFunctionIsSum
<1>2. IsFiniteSet(S \ {y})
  BY FS_RemoveElement
<1>3. PICK rest : IsSum(rest, f, S \ {y}) /\ SumFunctionOnSet(f, S \ {y}) = rest[S \ {y}]
  BY <1>2, SumFunctionIsSum
<1>4. sum[S \ {y}] = rest[S \ {y}]
  BY <1>1, <1>2, <1>3, SumsAgree
<1>5. sum[S] = sum[S \ {y}] + f[y]
  BY <1>1, SumValues
<1> QED
  BY <1>1, <1>3, <1>4, <1>5

\* Putting one element into a sum.
LEMMA SumInsert ==
  ASSUME NEW f, NEW S, IsFiniteSet(S), NEW y, y \notin S, \A x \in S \cup {y} : f[x] \in Nat
  PROVE  SumFunctionOnSet(f, S \cup {y}) = SumFunctionOnSet(f, S) + f[y]
<1>1. IsFiniteSet(S \cup {y})
  BY FS_AddElement
<1>2. (S \cup {y}) \ {y} = S
  OBVIOUS
<1> QED
  BY <1>1, <1>2, SumRemove

\* One summand grows, and the sum by as much.
LEMMA SumGrows ==
  ASSUME NEW f, NEW g, NEW S, IsFiniteSet(S), NEW u \in S, NEW d \in Nat,
         \A x \in S : f[x] \in Nat, g[u] = f[u] + d, \A x \in S : x # u => g[x] = f[x]
  PROVE  SumFunctionOnSet(g, S) = SumFunctionOnSet(f, S) + d
<1> DEFINE rest == SumFunctionOnSet(f, S \ {u})
<1>1. \A x \in S : g[x] \in Nat
  OBVIOUS
<1>2. IsFiniteSet(S \ {u})
  BY FS_RemoveElement
<1>3. SumFunctionOnSet(f, S) = rest + f[u]
  BY SumRemove
<1>4. SumFunctionOnSet(g, S) = SumFunctionOnSet(g, S \ {u}) + g[u]
  BY <1>1, SumRemove
<1>5. SumFunctionOnSet(g, S \ {u}) = rest
  BY <1>2, SumCongruent
<1>6. rest \in Nat /\ f[u] \in Nat
  BY <1>2, SumNat
<1> HIDE DEF rest
<1> QED
  BY <1>3, <1>4, <1>5, <1>6

\* Summands that are zero may be left out.
LEMMA SumOfSupport ==
  ASSUME NEW f, NEW S, IsFiniteSet(S), NEW R, R \subseteq S,
         \A x \in S : f[x] \in Nat, \A x \in S \ R : f[x] = 0
  PROVE  SumFunctionOnSet(f, S) = SumFunctionOnSet(f, R)
<1> DEFINE Total(T) == SumFunctionOnSet(f, T)
           good     == { T \in SUBSET S : Total(T) = Total(T \cap R) }
<1>1. \A T \in SUBSET S : /\ IsFiniteSet(T)
                          /\ Total(T) \in Nat
                          /\ \A y \in T : Total(T) = Total(T \ {y}) + f[y]
  <2> TAKE T \in SUBSET S
  <2>1. IsFiniteSet(T) /\ \A x \in T : f[x] \in Nat
    BY FS_Subset
  <2>2. Total(T) \in Nat
    BY <2>1, SumNat
  <2>3. \A y \in T : Total(T) = Total(T \ {y}) + f[y]
    BY <2>1, SumRemove
  <2> QED
    BY <2>1, <2>2, <2>3
<1> HIDE DEF Total
<1>2. ASSUME NEW T \in SUBSET S,
             \A U \in SUBSET S : Cardinality(U) < Cardinality(T) => U \in good
      PROVE  T \in good
  <2>1. CASE T = {}
    <3>1. T \cap R = T
      BY <2>1
    <3> QED
      BY <3>1
  <2>2. CASE T # {}
    <3>1. PICK y : y \in T
      BY <2>2
    <3>2. T \ {y} \in good
      BY <1>2, <2>2, <3>1, ChosenElement
    <3>3. Total(T) = Total((T \ {y}) \cap R) + f[y]
      BY <1>1, <3>1, <3>2
    <3>4. CASE y \in R
      <4>1. (T \ {y}) \cap R = (T \cap R) \ {y} /\ y \in T \cap R
        BY <3>1, <3>4
      <4>2. Total(T \cap R) = Total((T \cap R) \ {y}) + f[y]
        BY <1>1, <4>1
      <4> QED
        BY <3>3, <4>1, <4>2
    <3>5. CASE y \notin R
      <4>1. (T \ {y}) \cap R = T \cap R /\ f[y] = 0
        BY <3>1, <3>5
      <4>2. Total(T \cap R) \in Nat
        BY <1>1
      <4> QED
        BY <3>3, <4>1, <4>2
    <3> QED
      BY <3>4, <3>5
  <2> QED
    BY <2>1, <2>2
<1> HIDE DEF good
<1>3. S \in good
  BY <1>2, SubsetInduction
<1>4. S \cap R = R
  OBVIOUS
<1> QED
  BY <1>3, <1>4 DEF good, Total

\* A sum of ones counts.
LEMMA SumOfOnes ==
  ASSUME NEW f, NEW S, IsFiniteSet(S), \A x \in S : f[x] = 1
  PROVE  SumFunctionOnSet(f, S) = Cardinality(S)
<1> DEFINE good == { T \in SUBSET S : SumFunctionOnSet(f, T) = Cardinality(T) }
<1>1. ASSUME NEW T \in SUBSET S,
             \A U \in SUBSET S : Cardinality(U) < Cardinality(T) => U \in good
      PROVE  T \in good
  <2>1. IsFiniteSet(T) /\ \A x \in T : f[x] \in Nat
    BY FS_Subset
  <2>2. CASE T = {}
    BY <2>1, <2>2, SumNat, FS_EmptySet
  <2>3. CASE T # {}
    <3>1. PICK y : y \in T
      BY <2>3
    <3>2. T \ {y} \in good /\ Cardinality(T) = Cardinality(T \ {y}) + 1
      BY <1>1, <2>3, <3>1, ChosenElement
    <3>3. SumFunctionOnSet(f, T) = SumFunctionOnSet(f, T \ {y}) + f[y] /\ f[y] = 1
      BY <2>1, <3>1, SumRemove
    <3> QED
      BY <3>2, <3>3
  <2> QED
    BY <2>2, <2>3
<1> HIDE DEF good
<1>2. S \in good
  BY <1>1, SubsetInduction
<1> QED
  BY <1>2 DEF good

------------------------------------------------------------------------------
(* Metrics. *)

\* A metric is what its total and its count make it.
LEMMA MeasuredMetric ==
  ASSUME NEW t \in Nat, NEW n \in Nat
  PROVE  /\ Measured(t, n) \in MetricType
         /\ Measured(t, n).total = t /\ Measured(t, n).count = n
         /\ Current(Measured(t, n))
         /\ Normalize(Measured(t, n)) = Measured(t, n)
<1>1. Fraction(t, n) \in Nat \X Nat
  BY DEF Fraction
<1>2. /\ Measured(t, n) \in MetricType
      /\ Measured(t, n).total = t /\ Measured(t, n).count = n
  BY <1>1 DEF Measured, MetricType
<1>3. Current(Measured(t, n))
  BY <1>2, Zenon DEF Current
<1>4. Normalize(Measured(t, n)) = Measured(t, n)
  BY <1>1 DEF Normalize, Measured
<1> QED
  BY <1>2, <1>3, <1>4

\* The metric of a scenario with nothing measured.
LEMMA NoMetricMeasured == NoMetric = Measured(0, 0)
  BY DEF NoMetric, Measured, Fraction

\* Adding a sample adds totals and counts and recomputes the average.
LEMMA AddMeasures ==
  ASSUME NEW m \in MetricType, NEW sample \in MetricType
  PROVE  /\ Add(m, sample) = Measured(m.total + sample.total, m.count + sample.count)
         /\ Add(m, sample) \in MetricType /\ Current(Add(m, sample))
         /\ Add(m, sample).total = m.total + sample.total
         /\ Add(m, sample).count = m.count + sample.count
<1>1. /\ m.total \in Nat /\ m.count \in Nat /\ sample.total \in Nat /\ sample.count \in Nat
      /\ m = [ total |-> m.total, count |-> m.count, average |-> m.average ]
  BY DEF MetricType
<1> DEFINE t == m.total + sample.total
           n == m.count + sample.count
<1>2. t \in Nat /\ n \in Nat
  BY <1>1
<1>3. Add(m, sample) = Measured(t, n)
  <2> DEFINE summed == [ m EXCEPT !.total = @ + sample.total, !.count = @ + sample.count ]
  <2>1. summed = [ total |-> t, count |-> n, average |-> m.average ]
    <3> HIDE DEF t, n
    <3>1. summed = [ m EXCEPT !.total = t, !.count = n ]
      BY DEF t, n
    <3> HIDE DEF summed
    <3>2. /\ summed \in MetricType
          /\ summed.total = t /\ summed.count = n /\ summed.average = m.average
      BY <1>2, <3>1 DEF MetricType
    <3> QED
      BY <3>2 DEF MetricType
  <2> HIDE DEF summed, t, n
  <2>2. Normalize(summed) = Measured(t, n)
    BY <2>1 DEF Normalize, Measured
  <2> QED
    BY <2>2 DEF Add, summed
<1> HIDE DEF t, n
<1>4. /\ Measured(t, n) \in MetricType /\ Current(Measured(t, n))
      /\ Measured(t, n).total = t /\ Measured(t, n).count = n
  BY <1>2, MeasuredMetric
<1> QED
  BY <1>3, <1>4 DEF t, n

\* A metric whose average is current is its total and its count.
LEMMA CurrentMetric ==
  ASSUME NEW m \in MetricType, Current(m)
  PROVE  m.average = IF m.count = 0 THEN <<0, 1>> ELSE <<m.total, m.count>>
<1>1. m.average = Fraction(m.total, m.count)
  BY DEF Current, Measured, MetricType
<1> QED
  BY <1>1 DEF Fraction, MetricType

\* There are finitely many workers.
LEMMA WorkersFinite == \A S \in SUBSET Workers : IsFiniteSet(S)
<1>1. IsFiniteSet(Workers)
  <2>1. 1 \in Int /\ NumWorkers \in Int
    BY MergeAssumption
  <2> QED
    BY <2>1, FS_Interval, Zenon DEF Workers
<1> QED
  BY <1>1, FS_Subset

Columns == [ Workers -> MetricType ]

\* Totals and counts of a column are naturals; so its metric over some workers is one.
LEMMA CombinedMetric ==
  ASSUME NEW column \in Columns, NEW S \in SUBSET Workers
  PROVE  /\ IsFiniteSet(S)
         /\ \A w \in S : Totals(column)[w] = column[w].total /\ Counts(column)[w] = column[w].count
         /\ \A w \in S : Totals(column)[w] \in Nat /\ Counts(column)[w] \in Nat
         /\ SumFunctionOnSet(Totals(column), S) \in Nat
         /\ SumFunctionOnSet(Counts(column), S) \in Nat
         /\ Combined(column, S) \in MetricType
         /\ Combined(column, S).total = SumFunctionOnSet(Totals(column), S)
         /\ Combined(column, S).count = SumFunctionOnSet(Counts(column), S)
<1>1. IsFiniteSet(S)
  BY WorkersFinite
<1>2. \A w \in S : Totals(column)[w] = column[w].total /\ Counts(column)[w] = column[w].count
  BY DEF Totals, Counts
<1>3. \A w \in S : column[w].total \in Nat /\ column[w].count \in Nat
  BY DEF Columns, MetricType
<1>4. \A w \in S : Totals(column)[w] \in Nat /\ Counts(column)[w] \in Nat
  BY <1>2, <1>3
<1>5. SumFunctionOnSet(Totals(column), S) \in Nat
  BY <1>1, <1>4, SumNat
<1>6. SumFunctionOnSet(Counts(column), S) \in Nat
  BY <1>1, <1>4, SumNat
<1> QED
  BY <1>1, <1>2, <1>4, <1>5, <1>6, MeasuredMetric DEF Combined

\* The metric over one worker is that worker's.
LEMMA CombinedOne ==
  ASSUME NEW column \in Columns, NEW w \in Workers, Current(column[w])
  PROVE  Combined(column, {w}) = column[w]
<1>1. IsFiniteSet({}) /\ {} \cup {w} = {w}
  BY FS_EmptySet
<1>2. /\ Totals(column)[w] = column[w].total /\ Counts(column)[w] = column[w].count
      /\ Totals(column)[w] \in Nat /\ Counts(column)[w] \in Nat
  BY CombinedMetric
<1>3. /\ SumFunctionOnSet(Totals(column), {}) = 0
      /\ SumFunctionOnSet(Counts(column), {}) = 0
  BY <1>1, SumNat
<1>4. SumFunctionOnSet(Totals(column), {w}) = 0 + Totals(column)[w]
  BY <1>1, <1>2, <1>3, SumInsert
<1>5. SumFunctionOnSet(Counts(column), {w}) = 0 + Counts(column)[w]
  BY <1>1, <1>2, <1>3, SumInsert
<1>6. /\ SumFunctionOnSet(Totals(column), {w}) = column[w].total
      /\ SumFunctionOnSet(Counts(column), {w}) = column[w].count
  BY <1>2, <1>4, <1>5
<1> QED
  BY <1>6 DEF Combined, Current

\* One worker more adds its metric.
LEMMA CombinedInsert ==
  ASSUME NEW column \in Columns, NEW S \in SUBSET Workers, NEW w \in Workers \ S
  PROVE  Combined(column, S \cup {w}) = Add(Combined(column, S), column[w])
<1>1. /\ IsFiniteSet(S)
      /\ \A x \in S \cup {w} : Totals(column)[x] \in Nat /\ Counts(column)[x] \in Nat
      /\ Totals(column)[w] = column[w].total /\ Counts(column)[w] = column[w].count
  <2>1. S \cup {w} \in SUBSET Workers
    OBVIOUS
  <2> QED
    BY <2>1, CombinedMetric
<1>2. SumFunctionOnSet(Totals(column), S \cup {w})
        = SumFunctionOnSet(Totals(column), S) + column[w].total
  BY <1>1, SumInsert
<1>3. SumFunctionOnSet(Counts(column), S \cup {w})
        = SumFunctionOnSet(Counts(column), S) + column[w].count
  BY <1>1, SumInsert
<1>4. /\ Combined(column, S) \in MetricType /\ column[w] \in MetricType
      /\ Combined(column, S).total = SumFunctionOnSet(Totals(column), S)
      /\ Combined(column, S).count = SumFunctionOnSet(Counts(column), S)
  BY CombinedMetric DEF Columns
<1>5. Add(Combined(column, S), column[w])
        = Measured(Combined(column, S).total + column[w].total,
                   Combined(column, S).count + column[w].count)
  BY <1>4, AddMeasures
<1> QED
  BY <1>2, <1>3, <1>4, <1>5, Zenon DEF Combined

\* A worker's metric grows by a sample, and the metric of all workers too.
LEMMA CombinedGrows ==
  ASSUME NEW column \in Columns, NEW other \in Columns, NEW u \in Workers,
         NEW sample \in MetricType,
         other[u] = Add(column[u], sample),
         \A w \in Workers : w # u => other[w] = column[w]
  PROVE  Combined(other, Workers) = Add(Combined(column, Workers), sample)
<1>1. /\ column[u] \in MetricType /\ sample.total \in Nat /\ sample.count \in Nat
  BY DEF Columns, MetricType
<1>2. /\ other[u].total = column[u].total + sample.total
      /\ other[u].count = column[u].count + sample.count
  BY <1>1, AddMeasures
<1>3. /\ IsFiniteSet(Workers)
      /\ \A w \in Workers : Totals(column)[w] = column[w].total /\ Counts(column)[w] = column[w].count
      /\ \A w \in Workers : Totals(column)[w] \in Nat /\ Counts(column)[w] \in Nat
      /\ Combined(column, Workers) \in MetricType
      /\ Combined(column, Workers).total = SumFunctionOnSet(Totals(column), Workers)
      /\ Combined(column, Workers).count = SumFunctionOnSet(Counts(column), Workers)
  BY CombinedMetric
<1>4. \A w \in Workers : Totals(other)[w] = other[w].total /\ Counts(other)[w] = other[w].count
  BY CombinedMetric
<1>5. \A w \in Workers : w # u => /\ Totals(other)[w] = Totals(column)[w]
                                  /\ Counts(other)[w] = Counts(column)[w]
  BY <1>3, <1>4
<1>6. /\ Totals(other)[u] = Totals(column)[u] + sample.total
      /\ Counts(other)[u] = Counts(column)[u] + sample.count
  BY <1>2, <1>3, <1>4
<1>7. SumFunctionOnSet(Totals(other), Workers)
        = SumFunctionOnSet(Totals(column), Workers) + sample.total
  BY <1>1, <1>3, <1>5, <1>6, SumGrows
<1>8. SumFunctionOnSet(Counts(other), Workers)
        = SumFunctionOnSet(Counts(column), Workers) + sample.count
  BY <1>1, <1>3, <1>5, <1>6, SumGrows
<1>9. Add(Combined(column, Workers), sample)
        = Measured(Combined(column, Workers).total + sample.total,
                   Combined(column, Workers).count + sample.count)
  BY <1>3, AddMeasures
<1> QED
  BY <1>3, <1>7, <1>8, <1>9, Zenon DEF Combined

------------------------------------------------------------------------------
(* Collectors. *)

TimingsType == [ Stages -> MetricType ]
SizesType   == [ Messages -> MetricType ]

\* Metrics all of whose averages are current.
CurrentTimings(timings) == timings \in TimingsType /\ \A s \in Stages : Current(timings[s])
CurrentSizes(sizes) == sizes \in SizesType /\ \A m \in Messages : Current(sizes[m])

\* The fields of a collector.
LEMMA CollectorFields ==
  ASSUME NEW c \in CollectorType
  PROVE  /\ c.counts \in [ Counters -> Nat ] /\ c.finalBlocks \in Nat
         /\ c.setupTimings \in TimingsType /\ c.setupSizes \in SizesType
         /\ c.setupTimingsRecorded \in BOOLEAN /\ c.setupSizesRecorded \in BOOLEAN
         /\ c.timings \in TimingsType /\ c.sizes \in SizesType
         /\ c.memoryPeak \in Nat
  BY DEF CollectorType, TimingsType, SizesType

\* Soundness field by field.
LEMMA SoundFields ==
  ASSUME NEW c \in CollectorType
  PROVE  Sound(c) <=> /\ CurrentTimings(c.timings) /\ CurrentTimings(c.setupTimings)
                      /\ CurrentSizes(c.sizes) /\ CurrentSizes(c.setupSizes)
  BY CollectorFields DEF Sound, CurrentTimings, CurrentSizes

\* Nothing measured.
LEMMA NothingCurrent == CurrentTimings(NoTimings) /\ CurrentSizes(NoSizes)
<1>1. NoMetric \in MetricType /\ Current(NoMetric)
  BY NoMetricMeasured, MeasuredMetric
<1> HIDE DEF NoMetric
<1> QED
  BY <1>1 DEF CurrentTimings, CurrentSizes, TimingsType, SizesType, NoTimings, NoSizes

\* What a scenario hands over has current averages.
LEMMA HandedOver ==
  ASSUME NEW t \in Nat, NEW n \in Nat
  PROVE  /\ CurrentTimings(Timed(t, n)) /\ \A s \in Stages : Timed(t, n)[s] = Measured(t, n)
         /\ NormalizeTimings(Timed(t, n)) = Timed(t, n)
         /\ CurrentSizes(SetupMessages(t))
         /\ \A m \in Messages : SetupMessages(t)[m] = Measured(t, 1)
         /\ NormalizeSizes(SetupMessages(t)) = SetupMessages(t)
         /\ CurrentSizes(IterationMessages(t))
<1>1. /\ Measured(t, n) \in MetricType /\ Current(Measured(t, n))
      /\ Normalize(Measured(t, n)) = Measured(t, n)
  BY MeasuredMetric
<1>2. /\ Measured(t, 1) \in MetricType /\ Current(Measured(t, 1))
      /\ Normalize(Measured(t, 1)) = Measured(t, 1)
  BY MeasuredMetric
<1>3. NoMetric \in MetricType /\ Current(NoMetric)
  BY NoMetricMeasured, MeasuredMetric
<1>4. CurrentTimings(Timed(t, n)) /\ \A s \in Stages : Timed(t, n)[s] = Measured(t, n)
  BY <1>1 DEF CurrentTimings, TimingsType, Timed
<1>5. NormalizeTimings(Timed(t, n)) = Timed(t, n)
  BY <1>1 DEF NormalizeTimings, Timed
<1>6. /\ CurrentSizes(SetupMessages(t))
      /\ \A m \in Messages : SetupMessages(t)[m] = Measured(t, 1)
  BY <1>2 DEF CurrentSizes, SizesType, SetupMessages
<1>7. NormalizeSizes(SetupMessages(t)) = SetupMessages(t)
  BY <1>2 DEF NormalizeSizes, SetupMessages
<1>8. CurrentSizes(IterationMessages(t))
  BY <1>2, <1>3 DEF CurrentSizes, SizesType, IterationMessages
<1> QED
  BY <1>4, <1>5, <1>6, <1>7, <1>8

\* Adding metrics field by field recomputes every average.
LEMMA AddedCurrent ==
  /\ \A timings, sample \in TimingsType :
       /\ CurrentTimings(AddTimings(timings, sample))
       /\ \A s \in Stages : AddTimings(timings, sample)[s] = Add(timings[s], sample[s])
  /\ \A sizes, sample \in SizesType :
       /\ CurrentSizes(AddSizes(sizes, sample))
       /\ \A m \in Messages : AddSizes(sizes, sample)[m] = Add(sizes[m], sample[m])
<1>1. \A m, sample \in MetricType : Add(m, sample) \in MetricType /\ Current(Add(m, sample))
  BY AddMeasures
<1>2. ASSUME NEW timings \in TimingsType, NEW sample \in TimingsType
      PROVE  /\ CurrentTimings(AddTimings(timings, sample))
             /\ \A s \in Stages : AddTimings(timings, sample)[s] = Add(timings[s], sample[s])
  BY <1>1 DEF CurrentTimings, TimingsType, AddTimings
<1>3. ASSUME NEW sizes \in SizesType, NEW sample \in SizesType
      PROVE  /\ CurrentSizes(AddSizes(sizes, sample))
             /\ \A m \in Messages : AddSizes(sizes, sample)[m] = Add(sizes[m], sample[m])
  BY <1>1 DEF CurrentSizes, SizesType, AddSizes
<1> QED
  BY <1>2, <1>3

\* Adding nothing changes nothing when the average is current.
LEMMA AddNothing ==
  ASSUME NEW m \in MetricType, Current(m)
  PROVE  Add(m, NoMetric) = m
<1>1. NoMetric \in MetricType /\ NoMetric.total = 0 /\ NoMetric.count = 0
  BY NoMetricMeasured, MeasuredMetric
<1>2. Add(m, NoMetric) = Measured(m.total + 0, m.count + 0)
  BY <1>1, AddMeasures
<1>3. m.total + 0 = m.total /\ m.count + 0 = m.count
  BY DEF MetricType
<1> QED
  BY <1>2, <1>3, Zenon DEF Current

\* Two collectors with the same setup records and the same memory peak.
SameSetup(c, d) ==
  /\ d.setupTimings = c.setupTimings /\ d.setupSizes = c.setupSizes
  /\ d.setupTimingsRecorded = c.setupTimingsRecorded
  /\ d.setupSizesRecorded = c.setupSizesRecorded
  /\ d.memoryPeak = c.memoryPeak

\* A new collector holds nothing.
LEMMA FreshSound ==
  /\ Sound(Fresh)
  /\ \A k \in Counters : Fresh.counts[k] = 0
  /\ \A s \in Stages : Fresh.timings[s] = NoMetric /\ Fresh.setupTimings[s] = NoMetric
  /\ \A m \in Messages : Fresh.sizes[m] = NoMetric /\ Fresh.setupSizes[m] = NoMetric
  /\ Fresh.finalBlocks = 0 /\ Fresh.memoryPeak = 0
  /\ Fresh.setupTimingsRecorded = FALSE /\ Fresh.setupSizesRecorded = FALSE
<1>1. CurrentTimings(NoTimings) /\ CurrentSizes(NoSizes)
  BY NothingCurrent
<1>2. /\ \A s \in Stages : NoTimings[s] = NoMetric
      /\ \A m \in Messages : NoSizes[m] = NoMetric
  BY DEF NoTimings, NoSizes
<1> HIDE DEF NoMetric, NoTimings, NoSizes
<1>3. /\ Fresh.timings = NoTimings /\ Fresh.setupTimings = NoTimings
      /\ Fresh.sizes = NoSizes /\ Fresh.setupSizes = NoSizes
      /\ Fresh.finalBlocks = 0 /\ Fresh.memoryPeak = 0
      /\ Fresh.setupTimingsRecorded = FALSE /\ Fresh.setupSizesRecorded = FALSE
      /\ Fresh.counts = [ k \in Counters |-> 0 ]
  BY Zenon DEF Fresh
<1>4. Fresh \in CollectorType
  BY <1>1 DEF Fresh, CollectorType, CurrentTimings, CurrentSizes, TimingsType, SizesType
<1>5. \A k \in Counters : Fresh.counts[k] = 0
  BY <1>3
<1> QED
  BY <1>1, <1>2, <1>3, <1>4, <1>5, SoundFields, Zenon

\* Recording an iteration's timings.
LEMMA TimingsRecorded ==
  ASSUME NEW c, Sound(c), NEW sample \in TimingsType
  PROVE  LET d == RecordTimings(c, sample)
         IN  /\ Sound(d) /\ SameSetup(c, d)
             /\ d.counts = c.counts /\ d.finalBlocks = c.finalBlocks /\ d.sizes = c.sizes
             /\ \A s \in Stages : d.timings[s] = Add(c.timings[s], sample[s])
<1> DEFINE sum == AddTimings(c.timings, sample)
           d   == RecordTimings(c, sample)
<1>1. c \in CollectorType
  BY DEF Sound
<1>2. c.timings \in TimingsType
  BY <1>1, CollectorFields
<1>3. CurrentTimings(sum) /\ \A s \in Stages : sum[s] = Add(c.timings[s], sample[s])
  BY <1>2, AddedCurrent, Zenon
<1>4. d = [ c EXCEPT !.timings = sum ]
  BY DEF RecordTimings
<1>5. sum \in [ Stages -> MetricType ]
  BY <1>3 DEF CurrentTimings, TimingsType
<1> HIDE DEF sum, d
<1>6. /\ d \in CollectorType /\ SameSetup(c, d) /\ d.timings = sum
      /\ d.counts = c.counts /\ d.finalBlocks = c.finalBlocks /\ d.sizes = c.sizes
  BY <1>1, <1>4, <1>5 DEF CollectorType, SameSetup
<1>7. /\ CurrentTimings(c.setupTimings) /\ CurrentSizes(c.sizes) /\ CurrentSizes(c.setupSizes)
  BY <1>1, SoundFields, Zenon
<1>8. CurrentTimings(d.timings) /\ CurrentTimings(d.setupTimings)
      /\ CurrentSizes(d.sizes) /\ CurrentSizes(d.setupSizes)
  BY <1>3, <1>6, <1>7, Zenon DEF SameSetup
<1>9. Sound(d)
  BY <1>6, <1>8, SoundFields, Zenon
<1> QED
  BY <1>3, <1>6, <1>9 DEF d

\* Recording an iteration's messages; those of the setup phase are kept as they are.
LEMMA SizesRecorded ==
  ASSUME NEW c, Sound(c), NEW bytes \in Nat
  PROVE  LET d == RecordMessageSizes(c, IterationMessages(bytes))
         IN  /\ Sound(d) /\ SameSetup(c, d)
             /\ d.counts = c.counts /\ d.finalBlocks = c.finalBlocks /\ d.timings = c.timings
             /\ \A m \in Messages : d.sizes[m] = Add(c.sizes[m], IterationMessages(bytes)[m])
<1> DEFINE sample == IterationMessages(bytes)
           added  == AddSizes(c.sizes, sample)
           kept   == [ added EXCEPT !["tags"] = c.sizes["tags"] ]
           d      == RecordMessageSizes(c, sample)
<1>1. c \in CollectorType
  BY DEF Sound
<1>2. c.sizes \in SizesType /\ CurrentSizes(c.sizes)
  BY <1>1, CollectorFields, SoundFields, Zenon
<1>3. sample \in SizesType
  BY HandedOver DEF CurrentSizes
<1>4. CurrentSizes(added) /\ \A m \in Messages : added[m] = Add(c.sizes[m], sample[m])
  BY <1>2, <1>3, AddedCurrent, Zenon
<1>5. "tags" \in Messages => sample["tags"] = NoMetric
  BY DEF IterationMessages
<1>6. "tags" \in Messages => added["tags"] = c.sizes["tags"]
  <2> SUFFICES ASSUME "tags" \in Messages PROVE added["tags"] = c.sizes["tags"]
    OBVIOUS
  <2>1. added["tags"] = Add(c.sizes["tags"], NoMetric)
    BY <1>4, <1>5, Zenon
  <2>2. c.sizes["tags"] \in MetricType /\ Current(c.sizes["tags"])
    BY <1>2 DEF CurrentSizes, SizesType
  <2> QED
    BY <2>1, <2>2, AddNothing, Zenon
<1>7. kept = added
  <2> HIDE DEF added
  <2>1. added \in SizesType
    BY <1>4 DEF CurrentSizes
  <2> QED
    BY <1>6, <2>1 DEF SizesType
<1>8. d = [ c EXCEPT !.sizes = added ]
  BY <1>7, Zenon DEF RecordMessageSizes
<1>9. added \in [ Messages -> MetricType ]
  BY <1>4 DEF CurrentSizes, SizesType
<1> HIDE DEF sample, added, d
<1>10. /\ d \in CollectorType /\ SameSetup(c, d) /\ d.sizes = added
       /\ d.counts = c.counts /\ d.finalBlocks = c.finalBlocks /\ d.timings = c.timings
  BY <1>1, <1>8, <1>9 DEF CollectorType, SameSetup
<1>11. /\ CurrentTimings(c.setupTimings) /\ CurrentTimings(c.timings)
       /\ CurrentSizes(c.setupSizes)
  BY <1>1, SoundFields, Zenon
<1>12. CurrentTimings(d.timings) /\ CurrentTimings(d.setupTimings)
       /\ CurrentSizes(d.sizes) /\ CurrentSizes(d.setupSizes)
  BY <1>4, <1>10, <1>11, Zenon DEF SameSetup
<1>13. Sound(d)
  BY <1>10, <1>12, SoundFields, Zenon
<1> QED
  BY <1>4, <1>10, <1>13 DEF d, sample

\* Counting an outcome.
LEMMA OutcomeCounted ==
  ASSUME NEW c, Sound(c), NEW names
  PROVE  LET d == Increment(c, names)
         IN  /\ Sound(d) /\ SameSetup(c, d)
             /\ d.finalBlocks = c.finalBlocks /\ d.timings = c.timings /\ d.sizes = c.sizes
             /\ \A k \in Counters : d.counts[k] = c.counts[k] + (IF k \in names THEN 1 ELSE 0)
<1> DEFINE more == [ k \in Counters |-> c.counts[k] + (IF k \in names THEN 1 ELSE 0) ]
           d    == Increment(c, names)
<1>1. c \in CollectorType
  BY DEF Sound
<1>2. c.counts \in [ Counters -> Nat ]
  BY <1>1, CollectorFields
<1>3. more \in [ Counters -> Nat ]
  BY <1>2
<1>4. \A k \in Counters : more[k] = c.counts[k] + (IF k \in names THEN 1 ELSE 0)
  OBVIOUS
<1>5. d = [ c EXCEPT !.counts = more ]
  BY DEF Increment
<1> HIDE DEF more, d
<1>6. /\ d \in CollectorType /\ SameSetup(c, d) /\ d.counts = more
      /\ d.sizes = c.sizes /\ d.finalBlocks = c.finalBlocks /\ d.timings = c.timings
  BY <1>1, <1>3, <1>5 DEF CollectorType, SameSetup
<1>7. /\ CurrentTimings(c.setupTimings) /\ CurrentTimings(c.timings)
      /\ CurrentSizes(c.setupSizes) /\ CurrentSizes(c.sizes)
  BY <1>1, SoundFields, Zenon
<1>8. CurrentTimings(d.timings) /\ CurrentTimings(d.setupTimings)
      /\ CurrentSizes(d.sizes) /\ CurrentSizes(d.setupSizes)
  BY <1>6, <1>7, Zenon DEF SameSetup
<1>9. Sound(d)
  BY <1>6, <1>8, SoundFields, Zenon
<1> QED
  BY <1>4, <1>6, <1>9 DEF d

\* Replacing the final block count.
LEMMA BlocksRecorded ==
  ASSUME NEW c, Sound(c), NEW blocks \in Nat
  PROVE  LET d == RecordWorkerFinalBlockCount(c, blocks)
         IN  /\ Sound(d) /\ SameSetup(c, d) /\ d.finalBlocks = blocks
             /\ d.counts = c.counts /\ d.timings = c.timings /\ d.sizes = c.sizes
<1> DEFINE d == RecordWorkerFinalBlockCount(c, blocks)
<1>1. c \in CollectorType
  BY DEF Sound
<1>2. d = [ c EXCEPT !.finalBlocks = blocks ]
  BY DEF RecordWorkerFinalBlockCount
<1> HIDE DEF d
<1>3. /\ d \in CollectorType /\ SameSetup(c, d) /\ d.finalBlocks = blocks
      /\ d.counts = c.counts /\ d.timings = c.timings /\ d.sizes = c.sizes
  BY <1>1, <1>2 DEF CollectorType, SameSetup
<1>4. /\ CurrentTimings(c.setupTimings) /\ CurrentTimings(c.timings)
      /\ CurrentSizes(c.setupSizes) /\ CurrentSizes(c.sizes)
  BY <1>1, SoundFields, Zenon
<1>5. CurrentTimings(d.timings) /\ CurrentTimings(d.setupTimings)
      /\ CurrentSizes(d.sizes) /\ CurrentSizes(d.setupSizes)
  BY <1>3, <1>4, Zenon DEF SameSetup
<1>6. Sound(d)
  BY <1>3, <1>5, SoundFields, Zenon
<1> QED
  BY <1>3, <1>6 DEF d

\* The counters an iteration's outcome adds one to.
Counted(o) ==
  CASE kind = "pdp"         -> IF o.detected THEN {"iterations", "detections"} ELSE {"iterations"}
    [] kind = "identity"    -> {"samples",
                                 CASE   o.accepted /\   o.groundTruth -> "trueAccepts"
                                   []   o.accepted /\ ~ o.groundTruth -> "falseAccepts"
                                   [] ~ o.accepted /\ ~ o.groundTruth -> "trueRejects"
                                   [] ~ o.accepted /\   o.groundTruth -> "falseRejects" }
    [] kind = "maintenance" -> IF o.succeeded THEN {"succeeded"} ELSE {"failed"}

Kinds == {"pdp", "identity", "maintenance"}

\* Collector d is c with an iteration of so many timed calls and that outcome.
IterationAdded(c, d, calls, o) ==
  /\ Sound(d) /\ SameSetup(c, d)
  /\ d.finalBlocks = IF kind = "maintenance" THEN o.blocks ELSE c.finalBlocks
  /\ \A k \in Counters :
       d.counts[k] = c.counts[k] + (IF k \in Counted(o) THEN 1 ELSE 0)
  /\ \A s \in Stages : d.timings[s] = Add(c.timings[s], Measured(3 * calls, calls))
  /\ \A m \in Messages : d.sizes[m] = Add(c.sizes[m], IterationMessages(4)[m])

\* What Iteration does to a collector.
AfterIteration(c, calls, o) ==
  Outcome(RecordMessageSizes(RecordTimings(c, Timed(3 * calls, calls)), IterationMessages(4)), o)

\* What an iteration does to a collector, whatever the scenario.
LEMMA IterationRecorded ==
  ASSUME kind \in Kinds, NEW c, Sound(c), NEW calls \in {0, 2}, NEW o \in Outcomes
  PROVE  IterationAdded(c, AfterIteration(c, calls, o), calls, o)
<1> DEFINE c1 == RecordTimings(c, Timed(3 * calls, calls))
           c2 == RecordMessageSizes(c1, IterationMessages(4))
           d  == Outcome(c2, o)
<1> SUFFICES IterationAdded(c, d, calls, o)
  BY DEF AfterIteration
<1>1. /\ Timed(3 * calls, calls) \in TimingsType
      /\ \A s \in Stages : Timed(3 * calls, calls)[s] = Measured(3 * calls, calls)
  <2>1. 3 * calls \in Nat /\ calls \in Nat
    OBVIOUS
  <2> QED
    BY <2>1, HandedOver, Zenon DEF CurrentTimings
<1>2. /\ Sound(c1) /\ SameSetup(c, c1)
      /\ c1.counts = c.counts /\ c1.finalBlocks = c.finalBlocks /\ c1.sizes = c.sizes
      /\ \A s \in Stages : c1.timings[s] = Add(c.timings[s], Measured(3 * calls, calls))
  BY <1>1, TimingsRecorded
<1> HIDE DEF c1
<1>3. /\ Sound(c2) /\ SameSetup(c1, c2)
      /\ c2.counts = c1.counts /\ c2.finalBlocks = c1.finalBlocks /\ c2.timings = c1.timings
      /\ \A m \in Messages : c2.sizes[m] = Add(c1.sizes[m], IterationMessages(4)[m])
  BY <1>2, SizesRecorded
<1> HIDE DEF c2
<1>4. /\ Sound(c2) /\ SameSetup(c, c2)
      /\ c2.counts = c.counts /\ c2.finalBlocks = c.finalBlocks
      /\ \A s \in Stages : c2.timings[s] = Add(c.timings[s], Measured(3 * calls, calls))
      /\ \A m \in Messages : c2.sizes[m] = Add(c.sizes[m], IterationMessages(4)[m])
  <2>1. SameSetup(c, c2)
    BY <1>2, <1>3 DEF SameSetup
  <2>2. \A s \in Stages : c2.timings[s] = Add(c.timings[s], Measured(3 * calls, calls))
    BY <1>2, <1>3, Zenon
  <2>3. \A m \in Messages : c2.sizes[m] = Add(c.sizes[m], IterationMessages(4)[m])
    BY <1>2, <1>3, Zenon
  <2> QED
    BY <1>2, <1>3, <2>1, <2>2, <2>3, Zenon
<1> DEFINE e == Increment(c2, Counted(o))
<1>5. /\ Sound(e) /\ SameSetup(c2, e)
      /\ e.finalBlocks = c2.finalBlocks /\ e.timings = c2.timings /\ e.sizes = c2.sizes
      /\ \A k \in Counters :
           e.counts[k] = c2.counts[k] + (IF k \in Counted(o) THEN 1 ELSE 0)
  BY <1>4, OutcomeCounted
<1>6. CASE kind = "pdp"
  <2>1. d = e
    BY <1>6 DEF Outcome, RecordOutcome, Counted
  <2> HIDE DEF d, e
  <2>2. SameSetup(c, d)
    BY <1>4, <1>5, <2>1 DEF SameSetup
  <2> QED
    BY <1>4, <1>5, <1>6, <2>1, <2>2 DEF IterationAdded
<1>7. CASE kind = "identity"
  <2>1. d = e
    BY <1>7 DEF Outcome, RecordIdentityOutcome, Counted
  <2> HIDE DEF d, e
  <2>2. SameSetup(c, d)
    BY <1>4, <1>5, <2>1 DEF SameSetup
  <2> QED
    BY <1>4, <1>5, <1>7, <2>1, <2>2 DEF IterationAdded
<1>8. CASE kind = "maintenance"
  <2>1. d = RecordWorkerFinalBlockCount(e, o.blocks)
    BY <1>8 DEF Outcome, RecordMaintenanceOutcome, Counted
  <2>2. o.blocks \in Nat
    BY <1>8 DEF Outcomes
  <2> HIDE DEF d, e
  <2>3. /\ Sound(d) /\ SameSetup(e, d) /\ d.finalBlocks = o.blocks
        /\ d.counts = e.counts /\ d.timings = e.timings /\ d.sizes = e.sizes
    BY <1>5, <2>1, <2>2, BlocksRecorded
  <2>4. SameSetup(c, d)
    BY <1>4, <1>5, <2>3 DEF SameSetup
  <2> QED
    BY <1>4, <1>5, <1>8, <2>3, <2>4 DEF IterationAdded
<1> QED
  BY <1>6, <1>7, <1>8 DEF Kinds
\* Two collectors that recorded the same iterations.
SameIterations(c, d) ==
  /\ d.counts = c.counts /\ d.finalBlocks = c.finalBlocks
  /\ d.timings = c.timings /\ d.sizes = c.sizes

\* Collector d is c with a setup of that cost, unless c had one.
SetupAdded(c, d, cost) ==
  /\ Sound(d) /\ SameIterations(c, d) /\ d.memoryPeak = c.memoryPeak
  /\ d.setupTimingsRecorded = TRUE /\ d.setupSizesRecorded = TRUE
  /\ \A s \in Stages :
       d.setupTimings[s] = IF c.setupTimingsRecorded THEN c.setupTimings[s]
                           ELSE Measured(cost, 1)
  /\ \A m \in Messages :
       d.setupSizes[m] = IF c.setupTimingsRecorded THEN c.setupSizes[m]
                         ELSE Measured(cost, 1)

\* The first setup record is kept, a later one is ignored.
LEMMA SetupRecorded ==
  ASSUME NEW c, Sound(c), c.setupTimingsRecorded = c.setupSizesRecorded, NEW cost \in Nat
  PROVE  SetupAdded(c, RecordSetupMessageSizes(RecordSetupTimings(c, Timed(cost, 1)),
                                               SetupMessages(cost)), cost)
<1> DEFINE c1 == RecordSetupTimings(c, Timed(cost, 1))
           d  == RecordSetupMessageSizes(c1, SetupMessages(cost))
<1>1. c \in CollectorType /\ c.setupTimingsRecorded \in BOOLEAN
  BY CollectorFields DEF Sound
<1>2. /\ CurrentTimings(c.setupTimings) /\ CurrentTimings(c.timings)
      /\ CurrentSizes(c.setupSizes) /\ CurrentSizes(c.sizes)
  BY <1>1, SoundFields, Zenon
<1>3. CASE c.setupTimingsRecorded
  <2>1. d = c
    BY <1>3 DEF RecordSetupTimings, RecordSetupMessageSizes
  <2> HIDE DEF d
  <2>2. SameIterations(c, d) /\ d.setupTimingsRecorded = TRUE /\ d.setupSizesRecorded = TRUE
    BY <1>1, <1>3, <2>1 DEF SameIterations
  <2> QED
    BY <1>3, <2>1, <2>2 DEF d, c1, SetupAdded
<1>4. CASE ~ c.setupTimingsRecorded
  <2> DEFINE t == Timed(cost, 1)
             b == SetupMessages(cost)
  <2>1. /\ CurrentTimings(t) /\ \A s \in Stages : t[s] = Measured(cost, 1)
        /\ NormalizeTimings(t) = t
        /\ CurrentSizes(b) /\ \A m \in Messages : b[m] = Measured(cost, 1)
        /\ NormalizeSizes(b) = b
    BY HandedOver
  <2> HIDE DEF t, b
  <2>2. t \in [ Stages -> MetricType ] /\ b \in [ Messages -> MetricType ]
    BY <2>1 DEF CurrentTimings, CurrentSizes, TimingsType, SizesType
  <2>3. c1 = [ c EXCEPT !.setupTimings = t, !.setupTimingsRecorded = TRUE ]
    BY <1>4, <2>1 DEF RecordSetupTimings, t
  <2> HIDE DEF c1
  <2>4. /\ c1 \in CollectorType /\ SameIterations(c, c1) /\ c1.memoryPeak = c.memoryPeak
        /\ c1.setupTimings = t /\ c1.setupTimingsRecorded = TRUE
        /\ c1.setupSizes = c.setupSizes /\ c1.setupSizesRecorded = c.setupSizesRecorded
    BY <1>1, <2>2, <2>3 DEF CollectorType, SameIterations
  <2>5. d = [ c1 EXCEPT !.setupSizes = b, !.setupSizesRecorded = TRUE ]
    BY <1>4, <2>1, <2>4 DEF RecordSetupMessageSizes, b
  <2> HIDE DEF d
  <2>6. /\ d \in CollectorType /\ SameIterations(c1, d) /\ d.memoryPeak = c1.memoryPeak
        /\ d.setupTimings = c1.setupTimings /\ d.setupTimingsRecorded = c1.setupTimingsRecorded
        /\ d.setupSizes = b /\ d.setupSizesRecorded = TRUE
    BY <2>2, <2>4, <2>5 DEF CollectorType, SameIterations
  <2>7. SameIterations(c, d)
    BY <2>4, <2>6 DEF SameIterations
  <2>8. CurrentTimings(d.timings) /\ CurrentTimings(d.setupTimings)
        /\ CurrentSizes(d.sizes) /\ CurrentSizes(d.setupSizes)
    BY <1>2, <2>1, <2>4, <2>6, <2>7, Zenon DEF SameIterations
  <2>9. Sound(d)
    BY <2>6, <2>8, SoundFields, Zenon
  <2> QED
    BY <1>4, <2>1, <2>4, <2>6, <2>7, <2>9 DEF d, c1, t, b, SetupAdded
<1> QED
  BY <1>3, <1>4

\* Measuring a peak.
LEMMA PeakRecorded ==
  ASSUME NEW c, Sound(c), NEW bytes \in Nat
  PROVE  LET d == SetMemoryPeak(c, bytes)
         IN  /\ Sound(d) /\ SameIterations(c, d)
             /\ d.setupTimings = c.setupTimings /\ d.setupSizes = c.setupSizes
             /\ d.setupTimingsRecorded = c.setupTimingsRecorded
             /\ d.setupSizesRecorded = c.setupSizesRecorded
<1> DEFINE d == SetMemoryPeak(c, bytes)
<1>1. c \in CollectorType
  BY DEF Sound
<1>2. d = [ c EXCEPT !.memoryPeak = bytes ]
  BY DEF SetMemoryPeak
<1> HIDE DEF d
<1>3. /\ d \in CollectorType /\ SameIterations(c, d)
      /\ d.setupTimings = c.setupTimings /\ d.setupSizes = c.setupSizes
      /\ d.setupTimingsRecorded = c.setupTimingsRecorded
      /\ d.setupSizesRecorded = c.setupSizesRecorded
  BY <1>1, <1>2 DEF CollectorType, SameIterations
<1>4. /\ CurrentTimings(c.setupTimings) /\ CurrentTimings(c.timings)
      /\ CurrentSizes(c.setupSizes) /\ CurrentSizes(c.sizes)
  BY <1>1, SoundFields, Zenon
<1>5. CurrentTimings(d.timings) /\ CurrentTimings(d.setupTimings)
      /\ CurrentSizes(d.sizes) /\ CurrentSizes(d.setupSizes)
  BY <1>3, <1>4, Zenon DEF SameIterations
<1>6. Sound(d)
  BY <1>3, <1>5, SoundFields, Zenon
<1> QED
  BY <1>3, <1>6 DEF d

\* Collector d holds what c and another held.
Joined(c, other, d) ==
  /\ Sound(d)
  /\ \A k \in Counters : d.counts[k] = c.counts[k] + other.counts[k]
  /\ d.finalBlocks = c.finalBlocks + other.finalBlocks
  /\ \A s \in Stages :
       /\ d.timings[s] = Add(c.timings[s], other.timings[s])
       /\ d.setupTimings[s] = Add(c.setupTimings[s], other.setupTimings[s])
  /\ \A m \in Messages :
       /\ d.sizes[m] = Add(c.sizes[m], other.sizes[m])
       /\ d.setupSizes[m] = Add(c.setupSizes[m], other.setupSizes[m])
  /\ d.setupTimingsRecorded = (c.setupTimingsRecorded \/ other.setupTimingsRecorded)
  /\ d.setupSizesRecorded = (c.setupSizesRecorded \/ other.setupSizesRecorded)
  /\ d.memoryPeak = IF c.memoryPeak >= other.memoryPeak
                    THEN c.memoryPeak ELSE other.memoryPeak

\* Merging adds, joins and takes the higher peak.
LEMMA Merged ==
  ASSUME NEW c, Sound(c), NEW other, Sound(other)
  PROVE  Joined(c, other, MergeFrom(c, other))
<1> DEFINE d      == MergeFrom(c, other)
           counts == [ k \in Counters |-> c.counts[k] + other.counts[k] ]
           t1     == AddTimings(c.timings, other.timings)
           t2     == AddTimings(c.setupTimings, other.setupTimings)
           s1     == AddSizes(c.sizes, other.sizes)
           s2     == AddSizes(c.setupSizes, other.setupSizes)
           blocks == c.finalBlocks + other.finalBlocks
           flag1  == c.setupTimingsRecorded \/ other.setupTimingsRecorded
           flag2  == c.setupSizesRecorded \/ other.setupSizesRecorded
           peak   == IF c.memoryPeak >= other.memoryPeak
                     THEN c.memoryPeak ELSE other.memoryPeak
<1>1. c \in CollectorType /\ other \in CollectorType
  BY DEF Sound
<1>2. /\ c.counts \in [ Counters -> Nat ] /\ c.finalBlocks \in Nat /\ c.memoryPeak \in Nat
      /\ c.setupTimings \in TimingsType /\ c.setupSizes \in SizesType
      /\ c.timings \in TimingsType /\ c.sizes \in SizesType
      /\ other.counts \in [ Counters -> Nat ]
      /\ other.finalBlocks \in Nat /\ other.memoryPeak \in Nat
      /\ other.setupTimings \in TimingsType /\ other.setupSizes \in SizesType
      /\ other.timings \in TimingsType /\ other.sizes \in SizesType
  BY <1>1, CollectorFields
<1>3. /\ CurrentTimings(t1) /\ \A s \in Stages : t1[s] = Add(c.timings[s], other.timings[s])
      /\ CurrentTimings(t2)
      /\ \A s \in Stages : t2[s] = Add(c.setupTimings[s], other.setupTimings[s])
  BY <1>2, AddedCurrent, Zenon
<1>4. /\ CurrentSizes(s1) /\ \A m \in Messages : s1[m] = Add(c.sizes[m], other.sizes[m])
      /\ CurrentSizes(s2)
      /\ \A m \in Messages : s2[m] = Add(c.setupSizes[m], other.setupSizes[m])
  BY <1>2, AddedCurrent, Zenon
<1>5. /\ counts \in [ Counters -> Nat ] /\ blocks \in Nat /\ peak \in Nat
      /\ flag1 \in BOOLEAN /\ flag2 \in BOOLEAN
      /\ \A k \in Counters : counts[k] = c.counts[k] + other.counts[k]
  BY <1>2
<1>6. d = [ counts |-> counts, finalBlocks |-> blocks, setupTimings |-> t2, setupSizes |-> s2,
            setupTimingsRecorded |-> flag1, setupSizesRecorded |-> flag2,
            timings |-> t1, sizes |-> s1, memoryPeak |-> peak ]
  BY DEF MergeFrom
<1>7. /\ t1 \in [ Stages -> MetricType ] /\ t2 \in [ Stages -> MetricType ]
      /\ s1 \in [ Messages -> MetricType ] /\ s2 \in [ Messages -> MetricType ]
  BY <1>3, <1>4 DEF CurrentTimings, CurrentSizes, TimingsType, SizesType
<1> HIDE DEF d, counts, t1, t2, s1, s2, blocks, flag1, flag2, peak
<1>8. /\ d.counts = counts /\ d.finalBlocks = blocks /\ d.memoryPeak = peak
      /\ d.timings = t1 /\ d.setupTimings = t2 /\ d.sizes = s1 /\ d.setupSizes = s2
      /\ d.setupTimingsRecorded = flag1 /\ d.setupSizesRecorded = flag2
  BY <1>6, Zenon
<1>9. d \in CollectorType
  BY <1>5, <1>6, <1>7 DEF CollectorType
<1>10. Sound(d)
  BY <1>3, <1>4, <1>8, <1>9, SoundFields, Zenon
<1> QED
  BY <1>3, <1>4, <1>5, <1>8, <1>10, Zenon DEF Joined, d, blocks, flag1, flag2, peak

\* Clearing a collector.
LEMMA ResetSound ==
  ASSUME NEW c, Sound(c)
  PROVE  Sound(Reset(c))
<1> DEFINE d    == Reset(c)
           zero == [ k \in Counters |-> 0 ]
<1>1. c \in CollectorType
  BY DEF Sound
<1>2. CurrentTimings(NoTimings) /\ CurrentSizes(NoSizes)
  BY NothingCurrent
<1>3. /\ NoTimings \in [ Stages -> MetricType ] /\ NoSizes \in [ Messages -> MetricType ]
      /\ zero \in [ Counters -> Nat ]
  BY <1>2 DEF CurrentTimings, CurrentSizes, TimingsType, SizesType
<1>4. d = [ c EXCEPT !.counts = zero,
                     !.setupTimings = NoTimings, !.timings = NoTimings,
                     !.setupSizes = NoSizes, !.sizes = NoSizes,
                     !.setupTimingsRecorded = FALSE, !.setupSizesRecorded = FALSE,
                     !.memoryPeak = 0, !.finalBlocks = 0 ]
  BY DEF Reset
<1> HIDE DEF d, zero
<1>5. /\ d \in CollectorType
      /\ d.timings = NoTimings /\ d.setupTimings = NoTimings
      /\ d.sizes = NoSizes /\ d.setupSizes = NoSizes
  BY <1>1, <1>3, <1>4 DEF CollectorType
<1>6. Sound(d)
  BY <1>2, <1>5, SoundFields, Zenon
<1> QED
  BY <1>6 DEF d

------------------------------------------------------------------------------
(* The sums at the start, and what the columns are. *)

\* A sum of zeros.
LEMMA SumOfZeros ==
  ASSUME NEW f, NEW S, IsFiniteSet(S), \A x \in S : f[x] = 0
  PROVE  SumFunctionOnSet(f, S) = 0
<1>1. {} \subseteq S /\ IsFiniteSet({})
  BY FS_EmptySet
<1>2. SumFunctionOnSet(f, S) = SumFunctionOnSet(f, {})
  BY <1>1, SumOfSupport
<1> QED
  BY <1>1, <1>2, SumNat

\* A column of nothing.
LEMMA CombinedNothing ==
  ASSUME NEW column \in Columns, \A w \in Workers : column[w] = NoMetric
  PROVE  Combined(column, Workers) = NoMetric
<1>1. NoMetric.total = 0 /\ NoMetric.count = 0
  BY DEF NoMetric
<1>2. \A w \in Workers : Totals(column)[w] = 0 /\ Counts(column)[w] = 0
  BY <1>1, CombinedMetric
<1>3. /\ SumFunctionOnSet(Totals(column), Workers) = 0
      /\ SumFunctionOnSet(Counts(column), Workers) = 0
  BY <1>2, SumOfZeros, WorkersFinite
<1> QED
  BY <1>3, NoMetricMeasured DEF Combined

\* The columns are functions of the workers.
LEMMA ColumnsTyped ==
  ASSUME CollectorTypeOK
  PROVE  /\ \A k \in Counters : Counter(k) \in [ Workers -> Nat ]
         /\ \A s \in Stages : Timing(s) \in Columns /\ SetupTiming(s) \in Columns
         /\ \A m \in Messages : Size(m) \in Columns /\ SetupSize(m) \in Columns
         /\ FinalBlocks \in [ Workers -> Nat ]
<1>1. \A w \in Workers : collectors[w] \in CollectorType
  BY DEF CollectorTypeOK
<1>2. \A w \in Workers :
        /\ collectors[w].counts \in [ Counters -> Nat ] /\ collectors[w].finalBlocks \in Nat
        /\ collectors[w].timings \in TimingsType /\ collectors[w].setupTimings \in TimingsType
        /\ collectors[w].sizes \in SizesType /\ collectors[w].setupSizes \in SizesType
  BY <1>1, CollectorFields
<1> QED
  BY <1>2 DEF Counter, Timing, SetupTiming, Size, SetupSize, FinalBlocks, Columns,
              TimingsType, SizesType

\* The sum of the rounds is over the workers.
LEMMA RoundsSum ==
  ASSUME rounds \in [ Workers -> Nat ]
  PROVE  TotalRounds = SumFunctionOnSet(rounds, Workers) /\ TotalRounds \in Nat
<1>1. TotalRounds = SumFunctionOnSet(rounds, Workers)
  BY DEF TotalRounds, SumFunction
<1>2. SumFunctionOnSet(rounds, Workers) \in Nat
  BY SumNat, WorkersFinite
<1> QED
  BY <1>1, <1>2

\* The invariant holds at the start.
LEMMA MergeInit == Init => MergeInv
<1> SUFFICES ASSUME Init PROVE MergeInv
  OBVIOUS
<1>1. /\ Sound(Fresh)
      /\ \A k \in Counters : Fresh.counts[k] = 0
      /\ \A s \in Stages : Fresh.timings[s] = NoMetric /\ Fresh.setupTimings[s] = NoMetric
      /\ \A m \in Messages : Fresh.sizes[m] = NoMetric /\ Fresh.setupSizes[m] = NoMetric
      /\ Fresh.finalBlocks = 0
      /\ Fresh.setupTimingsRecorded = FALSE /\ Fresh.setupSizesRecorded = FALSE
  BY FreshSound
<1> HIDE DEF Fresh
<1>2. \A w \in Workers : collectors[w] = Fresh
  BY DEF Init
<1>3. CollectorTypeOK
  <2>1. Fresh \in CollectorType
    BY <1>1 DEF Sound
  <2>2. collectors \in [ Workers -> CollectorType ]
    BY <2>1 DEF Init
  <2>3. <<>> \in Seq(Nat)
    BY EmptySeq
  <2>4. /\ rounds \in [ Workers -> Nat ] /\ setups \in [ Workers -> Seq(Nat) ]
        /\ latest \in [ Workers -> Nat ] /\ agreed \in Nat
    BY <2>3 DEF Init
  <2> QED
    BY <1>1, <1>2, <2>2, <2>4 DEF CollectorTypeOK, Init
<1>4. WholeInv
  <2>1. whole = Fresh
    BY DEF Init
  <2>2. ASSUME NEW k \in Counters PROVE whole.counts[k] = SumFunctionOnSet(Counter(k), Workers)
    <3>1. \A w \in Workers : Counter(k)[w] = 0
      BY <1>1, <1>2 DEF Counter
    <3> QED
      BY <1>1, <2>1, <3>1, SumOfZeros, WorkersFinite
  <2>3. ASSUME NEW s \in Stages PROVE whole.timings[s] = Combined(Timing(s), Workers)
    <3>1. \A w \in Workers : Timing(s)[w] = NoMetric
      BY <1>1, <1>2 DEF Timing
    <3>2. Combined(Timing(s), Workers) = NoMetric
      BY <1>3, <3>1, ColumnsTyped, CombinedNothing
    <3> QED
      BY <1>1, <2>1, <3>2
  <2>4. ASSUME NEW m \in Messages PROVE whole.sizes[m] = Combined(Size(m), Workers)
    <3>1. \A w \in Workers : Size(m)[w] = NoMetric
      BY <1>1, <1>2 DEF Size
    <3>2. Combined(Size(m), Workers) = NoMetric
      BY <1>3, <3>1, ColumnsTyped, CombinedNothing
    <3> QED
      BY <1>1, <2>1, <3>2
  <2> QED
    BY <2>2, <2>3, <2>4 DEF WholeInv
<1>5. MergedInv /\ ResultInv
  BY DEF MergedInv, ResultInv, Init
<1>6. SetupInv
  BY <1>1, <1>2 DEF SetupInv, FirstSetup, Init
<1>7. LatestInv
  BY <1>1, <1>2 DEF LatestInv, Init
<1>8. OutcomesInv
  <2>1. TotalRounds = 0
    <3>1. rounds \in [ Workers -> Nat ] /\ \A w \in Workers : rounds[w] = 0
      BY DEF Init
    <3> QED
      BY <3>1, RoundsSum, SumOfZeros, WorkersFinite
  <2>2. \A k \in Counters : whole.counts[k] = 0
    BY <1>1 DEF Init
  <2>3. agreed = 0
    BY DEF Init
  <2> QED
    BY <2>1, <2>2, <2>3 DEF OutcomesInv, Counters
<1> QED
  BY <1>3, <1>4, <1>5, <1>6, <1>7, <1>8 DEF MergeInv

------------------------------------------------------------------------------
(* The steps of the workers. *)

\* A step that leaves the workers' iterations alone leaves their columns alone.
LEMMA IterationsKept ==
  ASSUME \A w \in Workers : SameIterations(collectors[w], collectors'[w])
  PROVE  /\ \A k \in Counters : Counter(k)' = Counter(k)
         /\ \A s \in Stages : Timing(s)' = Timing(s)
         /\ \A m \in Messages : Size(m)' = Size(m)
  BY DEF SameIterations, Counter, Timing, Size

\* The parts of the invariant that speak of iterations only.
LEMMA IterationPartsKept ==
  ASSUME WholeInv, LatestInv, OutcomesInv,
         \A w \in Workers : SameIterations(collectors[w], collectors'[w]),
         UNCHANGED <<kind, rounds, whole, latest, agreed>>
  PROVE  WholeInv' /\ LatestInv' /\ OutcomesInv'
<1>1. WholeInv'
  <2>1. /\ \A k \in Counters : Counter(k)' = Counter(k)
        /\ \A s \in Stages : Timing(s)' = Timing(s)
        /\ \A m \in Messages : Size(m)' = Size(m)
    BY IterationsKept
  <2>2. \A k \in Counters : whole'.counts[k] = SumFunctionOnSet(Counter(k)', Workers)
    BY <2>1, Zenon DEF WholeInv
  <2>3. \A s \in Stages : whole'.timings[s] = Combined(Timing(s)', Workers)
    BY <2>1, Zenon DEF WholeInv
  <2>4. \A m \in Messages : whole'.sizes[m] = Combined(Size(m)', Workers)
    BY <2>1, Zenon DEF WholeInv
  <2> QED
    BY <2>2, <2>3, <2>4 DEF WholeInv, Counters, Workers
<1>2. LatestInv'
  BY DEF LatestInv, SameIterations
<1>3. OutcomesInv'
  BY DEF OutcomesInv, TotalRounds
<1> QED
  BY <1>1, <1>2, <1>3

\* SetupDone preserves the invariant.
LEMMA SetupPreserves ==
  ASSUME MergeInv, NEW u \in Workers, SetupDone(u)
  PROVE  MergeInv'
<1> DEFINE cost == u + 3 * Len(setups[u])
           c    == collectors[u]
           d    == RecordSetupMessageSizes(RecordSetupTimings(c, Timed(cost, 1)),
                                           SetupMessages(cost))
<1>1. /\ CollectorTypeOK /\ WholeInv /\ SetupInv /\ LatestInv /\ OutcomesInv
      /\ phase = "collect" /\ phase' = "collect"
      /\ setups' = [ setups EXCEPT ![u] = Append(@, cost) ]
      /\ UNCHANGED <<kind, rounds, cursor, merged, result, whole, latest, agreed>>
  BY DEF MergeInv, SetupDone
<1>2. collectors' = [ collectors EXCEPT ![u] = d ]
  BY DEF SetupDone
<1>3. setups[u] \in Seq(Nat) /\ Len(setups[u]) \in Nat /\ cost \in Nat
  <2>1. setups[u] \in Seq(Nat) /\ u \in Nat
    BY <1>1, MergeAssumption DEF CollectorTypeOK, Workers
  <2>2. Len(setups[u]) \in Nat
    BY <2>1, LenProperties
  <2> QED
    BY <2>1, <2>2
<1>4. /\ Sound(c)
      /\ c.setupTimingsRecorded = (setups[u] # <<>>)
      /\ c.setupSizesRecorded = (setups[u] # <<>>)
      /\ \A s \in Stages : c.setupTimings[s] = FirstSetup(setups[u])
      /\ \A m \in Messages : c.setupSizes[m] = FirstSetup(setups[u])
  BY <1>1 DEF CollectorTypeOK, SetupInv
<1> HIDE DEF cost
<1>5. /\ Sound(d) /\ SameIterations(c, d) /\ d.memoryPeak = c.memoryPeak
      /\ d.setupTimingsRecorded = TRUE /\ d.setupSizesRecorded = TRUE
      /\ \A s \in Stages :
           d.setupTimings[s] = IF c.setupTimingsRecorded THEN c.setupTimings[s]
                               ELSE Measured(cost, 1)
      /\ \A m \in Messages :
           d.setupSizes[m] = IF c.setupTimingsRecorded THEN c.setupSizes[m]
                             ELSE Measured(cost, 1)
  <2>1. c.setupTimingsRecorded = c.setupSizesRecorded
    BY <1>4
  <2>2. SetupAdded(c, d, cost)
    BY <1>3, <1>4, <2>1, SetupRecorded, Zenon
  <2> HIDE DEF c, d
  <2> QED
    BY <2>2 DEF SetupAdded
<1> HIDE DEF d
<1>6. /\ collectors'[u] = d
      /\ \A w \in Workers : w # u => collectors'[w] = collectors[w]
  BY <1>1, <1>2 DEF CollectorTypeOK
<1>7. /\ setups'[u] = Append(setups[u], cost)
      /\ \A w \in Workers : w # u => setups'[w] = setups[w]
  BY <1>1 DEF CollectorTypeOK
<1>8. CollectorTypeOK'
  <2>1. d \in CollectorType
    BY <1>5 DEF Sound
  <2>2. collectors' \in [ Workers -> CollectorType ]
    BY <1>1, <1>2, <2>1 DEF CollectorTypeOK
  <2>3. \A w \in Workers : Sound(collectors'[w])
    BY <1>1, <1>5, <1>6 DEF CollectorTypeOK
  <2>4. Append(setups[u], cost) \in Seq(Nat)
    BY <1>3, AppendProperties
  <2>5. setups' \in [ Workers -> Seq(Nat) ]
    BY <1>1, <2>4 DEF CollectorTypeOK
  <2> QED
    BY <1>1, <2>2, <2>3, <2>5 DEF CollectorTypeOK
<1>9. WholeInv' /\ LatestInv' /\ OutcomesInv'
  <2>1. \A w \in Workers : SameIterations(collectors[w], collectors'[w])
    BY <1>5, <1>6 DEF SameIterations
  <2> QED
    BY <1>1, <2>1, IterationPartsKept
<1>10. MergedInv' /\ ResultInv'
  BY <1>1 DEF MergedInv, ResultInv
<1>11. SetupInv'
  <2>1. ASSUME NEW w \in Workers, w # u
        PROVE  /\ collectors'[w].setupTimingsRecorded = (setups'[w] # <<>>)
               /\ collectors'[w].setupSizesRecorded = (setups'[w] # <<>>)
               /\ \A s \in Stages : collectors'[w].setupTimings[s] = FirstSetup(setups'[w])
               /\ \A m \in Messages : collectors'[w].setupSizes[m] = FirstSetup(setups'[w])
    BY <1>1, <1>6, <1>7, <2>1 DEF SetupInv
  <2>2. /\ setups'[u] # <<>>
        /\ FirstSetup(setups'[u]) = IF setups[u] = <<>> THEN Measured(cost, 1)
                                    ELSE FirstSetup(setups[u])
    <3>1. /\ Append(setups[u], cost) # <<>>
          /\ Append(setups[u], cost)[1] = IF setups[u] = <<>> THEN cost ELSE setups[u][1]
      <4>1. /\ Len(Append(setups[u], cost)) = Len(setups[u]) + 1
            /\ \A i \in 1 .. Len(setups[u]) : Append(setups[u], cost)[i] = setups[u][i]
            /\ Append(setups[u], cost)[Len(setups[u]) + 1] = cost
        BY <1>3, AppendProperties
      <4>2. setups[u] = <<>> <=> Len(setups[u]) = 0
        BY <1>3, EmptySeq
      <4>3. Append(setups[u], cost) # <<>>
        BY <1>3, <4>1, EmptySeq, AppendProperties
      <4> QED
        BY <1>3, <4>1, <4>2, <4>3
    <3> QED
      BY <1>7, <3>1 DEF FirstSetup
  <2>3. /\ collectors'[u].setupTimingsRecorded = (setups'[u] # <<>>)
        /\ collectors'[u].setupSizesRecorded = (setups'[u] # <<>>)
        /\ \A s \in Stages : collectors'[u].setupTimings[s] = FirstSetup(setups'[u])
        /\ \A m \in Messages : collectors'[u].setupSizes[m] = FirstSetup(setups'[u])
    <3> HIDE DEF c
    <3> QED
      BY <1>4, <1>5, <1>6, <2>2
  <2> QED
    BY <2>1, <2>3 DEF SetupInv
<1> QED
  BY <1>8, <1>9, <1>10, <1>11 DEF MergeInv

\* PeakMeasured preserves the invariant.
LEMMA PeakPreserves ==
  ASSUME MergeInv, NEW u \in Workers, PeakMeasured(u)
  PROVE  MergeInv'
<1> DEFINE c == collectors[u]
           d == SetMemoryPeak(c, 10 + u)
<1>1. /\ CollectorTypeOK /\ WholeInv /\ SetupInv /\ LatestInv /\ OutcomesInv
      /\ phase = "collect" /\ phase' = "collect"
      /\ collectors' = [ collectors EXCEPT ![u] = d ]
      /\ UNCHANGED <<kind, rounds, cursor, merged, result, whole, setups, latest, agreed>>
  BY DEF MergeInv, PeakMeasured
<1>2. Sound(c) /\ 10 + u \in Nat
  BY <1>1, MergeAssumption DEF CollectorTypeOK, Workers
<1>3. /\ Sound(d) /\ SameIterations(c, d)
      /\ d.setupTimings = c.setupTimings /\ d.setupSizes = c.setupSizes
      /\ d.setupTimingsRecorded = c.setupTimingsRecorded
      /\ d.setupSizesRecorded = c.setupSizesRecorded
  BY <1>2, PeakRecorded
<1> HIDE DEF d
<1>4. /\ collectors'[u] = d
      /\ \A w \in Workers : w # u => collectors'[w] = collectors[w]
  BY <1>1 DEF CollectorTypeOK
<1>5. CollectorTypeOK'
  <2>1. d \in CollectorType
    BY <1>3 DEF Sound
  <2>2. collectors' \in [ Workers -> CollectorType ]
    BY <1>1, <2>1 DEF CollectorTypeOK
  <2>3. \A w \in Workers : Sound(collectors'[w])
    BY <1>1, <1>3, <1>4 DEF CollectorTypeOK
  <2> QED
    BY <1>1, <2>2, <2>3 DEF CollectorTypeOK
<1>6. WholeInv' /\ LatestInv' /\ OutcomesInv'
  <2>1. \A w \in Workers : SameIterations(collectors[w], collectors'[w])
    BY <1>3, <1>4 DEF SameIterations
  <2> QED
    BY <1>1, <2>1, IterationPartsKept
<1>7. MergedInv' /\ ResultInv'
  BY <1>1 DEF MergedInv, ResultInv
<1>8. SetupInv'
  <2>1. \A w \in Workers :
          /\ collectors'[w].setupTimings = collectors[w].setupTimings
          /\ collectors'[w].setupSizes = collectors[w].setupSizes
          /\ collectors'[w].setupTimingsRecorded = collectors[w].setupTimingsRecorded
          /\ collectors'[w].setupSizesRecorded = collectors[w].setupSizesRecorded
    BY <1>3, <1>4
  <2> QED
    BY <1>1, <2>1 DEF SetupInv
<1> QED
  BY <1>5, <1>6, <1>7, <1>8 DEF MergeInv

\* A column whose every entry but one is kept, that one counting more.
LEMMA CounterGrows ==
  ASSUME NEW k \in Counters, CollectorTypeOK, CollectorTypeOK', NEW u \in Workers, NEW n \in Nat,
         \A w \in Workers : w # u => collectors'[w] = collectors[w],
         collectors'[u].counts[k] = collectors[u].counts[k] + n
  PROVE  SumFunctionOnSet(Counter(k)', Workers) = SumFunctionOnSet(Counter(k), Workers) + n
<1> DEFINE f == Counter(k)
           g == Counter(k)'
<1>1. f \in [ Workers -> Nat ]
  BY ColumnsTyped
<1>2. \A w \in Workers : w # u => g[w] = f[w]
  BY DEF Counter
<1>3. g[u] = f[u] + n
  BY DEF Counter
<1>4. \A w \in Workers : f[w] \in Nat
  BY <1>1
<1> HIDE DEF f, g
<1>5. SumFunctionOnSet(g, Workers) = SumFunctionOnSet(f, Workers) + n
  BY <1>2, <1>3, <1>4, SumGrows, WorkersFinite
<1> QED
  BY <1>5 DEF f, g

\* A stage's or a message's column, one entry of which grows by a sample.
LEMMA MetricsGrow ==
  ASSUME CollectorTypeOK, CollectorTypeOK', NEW u \in Workers,
         \A w \in Workers : w # u => collectors'[w] = collectors[w],
         NEW sample \in MetricType
  PROVE  /\ \A s \in Stages :
              collectors'[u].timings[s] = Add(collectors[u].timings[s], sample)
                => Combined(Timing(s)', Workers) = Add(Combined(Timing(s), Workers), sample)
         /\ \A m \in Messages :
              collectors'[u].sizes[m] = Add(collectors[u].sizes[m], sample)
                => Combined(Size(m)', Workers) = Add(Combined(Size(m), Workers), sample)
<1>1. /\ \A s \in Stages : Timing(s) \in Columns
      /\ \A m \in Messages : Size(m) \in Columns
  BY ColumnsTyped
<1>2. /\ \A s \in Stages : Timing(s)' \in Columns
      /\ \A m \in Messages : Size(m)' \in Columns
  <2>1. \A w \in Workers : collectors'[w] \in CollectorType
    BY DEF CollectorTypeOK
  <2>2. \A w \in Workers : collectors'[w].timings \in TimingsType /\ collectors'[w].sizes \in SizesType
    BY <2>1, CollectorFields
  <2> QED
    BY <2>2 DEF Timing, Size, Columns, TimingsType, SizesType
<1>3. ASSUME NEW s \in Stages,
             collectors'[u].timings[s] = Add(collectors[u].timings[s], sample)
      PROVE  Combined(Timing(s)', Workers) = Add(Combined(Timing(s), Workers), sample)
  <2> DEFINE f == Timing(s)
             g == Timing(s)'
  <2>1. f \in Columns /\ g \in Columns
    BY <1>1, <1>2
  <2>2. g[u] = Add(f[u], sample) /\ \A w \in Workers : w # u => g[w] = f[w]
    BY <1>3 DEF Timing
  <2> HIDE DEF f, g
  <2>3. Combined(g, Workers) = Add(Combined(f, Workers), sample)
    BY <2>1, <2>2, CombinedGrows
  <2> QED
    BY <2>3 DEF f, g
<1>4. ASSUME NEW m \in Messages,
             collectors'[u].sizes[m] = Add(collectors[u].sizes[m], sample)
      PROVE  Combined(Size(m)', Workers) = Add(Combined(Size(m), Workers), sample)
  <2> DEFINE f == Size(m)
             g == Size(m)'
  <2>1. f \in Columns /\ g \in Columns
    BY <1>1, <1>2
  <2>2. g[u] = Add(f[u], sample) /\ \A w \in Workers : w # u => g[w] = f[w]
    BY <1>4 DEF Size
  <2> HIDE DEF f, g
  <2>3. Combined(g, Workers) = Add(Combined(f, Workers), sample)
    BY <2>1, <2>2, CombinedGrows
  <2> QED
    BY <2>3 DEF f, g
<1> QED
  BY <1>3, <1>4

\* Iteration, with the calls it timed and the outcome it recorded.
IterationOf(u, calls, o) ==
  /\ collectors' = [ collectors EXCEPT ![u] = AfterIteration(@, calls, o) ]
  /\ whole' = AfterIteration(whole, calls, o)
  /\ latest' = [ latest EXCEPT ![u] = IF kind = "maintenance" THEN o.blocks ELSE 0 ]
  /\ agreed' = IF kind = "identity" /\ o.accepted = o.groundTruth THEN agreed + 1 ELSE agreed

\* Iteration preserves the invariant.
LEMMA IterationPreserves ==
  ASSUME MergeInv, NEW u \in Workers, Iteration(u)
  PROVE  MergeInv'
<1>1. PICK calls \in {0, 2}, o \in Outcomes : IterationOf(u, calls, o)
  BY DEF Iteration, IterationOf, AfterIteration
<1>2. /\ CollectorTypeOK /\ WholeInv /\ SetupInv /\ LatestInv /\ OutcomesInv
      /\ phase = "collect" /\ phase' = "collect"
      /\ rounds' = [ rounds EXCEPT ![u] = @ + 1 ]
      /\ UNCHANGED <<kind, cursor, merged, result, setups>>
  BY DEF MergeInv, Iteration
<1> DEFINE c == collectors[u]
           d == AfterIteration(c, calls, o)
           e == AfterIteration(whole, calls, o)
           sample == Measured(3 * calls, calls)
<1>3. kind \in Kinds /\ Sound(c) /\ Sound(whole)
  BY <1>2 DEF CollectorTypeOK, Kinds
<1>4. IterationAdded(c, d, calls, o) /\ IterationAdded(whole, e, calls, o)
  BY <1>3, IterationRecorded
<1>5. whole' = e /\ collectors' = [ collectors EXCEPT ![u] = d ]
  BY <1>1 DEF IterationOf
<1> HIDE DEF d, e
<1>6. /\ collectors'[u] = d
      /\ \A w \in Workers : w # u => collectors'[w] = collectors[w]
  BY <1>2, <1>5 DEF CollectorTypeOK
<1>7. /\ latest' = [ latest EXCEPT ![u] = IF kind = "maintenance" THEN o.blocks ELSE 0 ]
      /\ kind = "maintenance" => o.blocks \in Nat
      /\ agreed' = IF kind = "identity" /\ o.accepted = o.groundTruth THEN agreed + 1 ELSE agreed
  BY <1>1 DEF IterationOf, Outcomes
<1>8. CollectorTypeOK'
  <2>1. Sound(d) /\ d \in CollectorType /\ Sound(e)
    BY <1>4 DEF IterationAdded, Sound
  <2>2. collectors' \in [ Workers -> CollectorType ]
    BY <1>2, <1>5, <2>1 DEF CollectorTypeOK
  <2>3. \A w \in Workers : Sound(collectors'[w])
    BY <1>2, <1>6, <2>1 DEF CollectorTypeOK
  <2>4. rounds' \in [ Workers -> Nat ]
    BY <1>2 DEF CollectorTypeOK
  <2>5. latest' \in [ Workers -> Nat ]
    BY <1>2, <1>7 DEF CollectorTypeOK
  <2>6. agreed' \in Nat
    BY <1>2, <1>7 DEF CollectorTypeOK
  <2> QED
    BY <1>2, <1>5, <2>1, <2>2, <2>3, <2>4, <2>5, <2>6 DEF CollectorTypeOK
<1>9. WholeInv'
  <2>1. ASSUME NEW k \in Counters
        PROVE  whole'.counts[k] = SumFunctionOnSet(Counter(k)', Workers)
    <3> DEFINE n == IF k \in Counted(o) THEN 1 ELSE 0
    <3>1. /\ collectors'[u].counts[k] = collectors[u].counts[k] + n
          /\ whole'.counts[k] = whole.counts[k] + n
      BY <1>4, <1>5, <1>6 DEF IterationAdded
    <3>2. n \in Nat
      OBVIOUS
    <3> HIDE DEF n
    <3>3. SumFunctionOnSet(Counter(k)', Workers) = SumFunctionOnSet(Counter(k), Workers) + n
      BY <1>2, <1>6, <1>8, <3>1, <3>2, CounterGrows
    <3> QED
      BY <1>2, <3>1, <3>3, Zenon DEF WholeInv
  <2>2. sample \in MetricType
    <3>1. 3 * calls \in Nat /\ calls \in Nat
      OBVIOUS
    <3> QED
      BY <3>1, MeasuredMetric
  <2> HIDE DEF sample
  <2>3. ASSUME NEW s \in Stages PROVE whole'.timings[s] = Combined(Timing(s)', Workers)
    <3>1. /\ collectors'[u].timings[s] = Add(collectors[u].timings[s], sample)
          /\ whole'.timings[s] = Add(whole.timings[s], sample)
      BY <1>4, <1>5, <1>6, Zenon DEF IterationAdded, sample
    <3>2. Combined(Timing(s)', Workers) = Add(Combined(Timing(s), Workers), sample)
      BY <1>2, <1>6, <1>8, <2>2, <3>1, MetricsGrow
    <3> QED
      BY <1>2, <3>1, <3>2, Zenon DEF WholeInv
  <2>4. ASSUME NEW m \in Messages PROVE whole'.sizes[m] = Combined(Size(m)', Workers)
    <3> DEFINE bytes == IterationMessages(4)[m]
    <3>1. /\ collectors'[u].sizes[m] = Add(collectors[u].sizes[m], bytes)
          /\ whole'.sizes[m] = Add(whole.sizes[m], bytes)
      BY <1>4, <1>5, <1>6, Zenon DEF IterationAdded
    <3>2. bytes \in MetricType
      BY HandedOver DEF CurrentSizes, SizesType
    <3> HIDE DEF bytes
    <3>3. Combined(Size(m)', Workers) = Add(Combined(Size(m), Workers), bytes)
      BY <1>2, <1>6, <1>8, <3>1, <3>2, MetricsGrow
    <3> QED
      BY <1>2, <3>1, <3>3, Zenon DEF WholeInv
  <2> QED
    BY <2>1, <2>3, <2>4 DEF WholeInv
<1>10. MergedInv' /\ ResultInv'
  BY <1>2 DEF MergedInv, ResultInv
<1>11. SetupInv'
  <2>1. \A w \in Workers :
          /\ collectors'[w].setupTimings = collectors[w].setupTimings
          /\ collectors'[w].setupSizes = collectors[w].setupSizes
          /\ collectors'[w].setupTimingsRecorded = collectors[w].setupTimingsRecorded
          /\ collectors'[w].setupSizesRecorded = collectors[w].setupSizesRecorded
    BY <1>4, <1>6 DEF IterationAdded, SameSetup
  <2> QED
    BY <1>2, <2>1 DEF SetupInv
<1>12. LatestInv'
  <2>1. ASSUME NEW w \in Workers
        PROVE  /\ collectors'[w].finalBlocks = latest'[w]
               /\ kind # "maintenance" => latest'[w] = 0
    <3>1. CASE w = u
      <4>1. d.finalBlocks = IF kind = "maintenance" THEN o.blocks ELSE c.finalBlocks
        BY <1>4 DEF IterationAdded
      <4>2. latest'[u] = IF kind = "maintenance" THEN o.blocks ELSE 0
        BY <1>2, <1>7 DEF CollectorTypeOK
      <4>3. kind # "maintenance" => c.finalBlocks = 0
        BY <1>2 DEF LatestInv
      <4> QED
        BY <1>6, <3>1, <4>1, <4>2, <4>3
    <3>2. CASE w # u
      <4>1. latest'[w] = latest[w]
        BY <1>2, <1>7, <3>2 DEF CollectorTypeOK
      <4> QED
        BY <1>2, <1>6, <3>2, <4>1 DEF LatestInv
    <3> QED
      BY <3>1, <3>2
  <2> QED
    BY <1>2, <2>1 DEF LatestInv
<1>13. OutcomesInv'
  <2>1. TotalRounds' = TotalRounds + 1 /\ TotalRounds \in Nat
    <3>1. rounds \in [ Workers -> Nat ] /\ rounds' \in [ Workers -> Nat ]
      BY <1>2, <1>8 DEF CollectorTypeOK
    <3>2. /\ TotalRounds = SumFunctionOnSet(rounds, Workers) /\ TotalRounds \in Nat
          /\ TotalRounds' = SumFunctionOnSet(rounds', Workers)
      BY <3>1, RoundsSum DEF TotalRounds, SumFunction
    <3>3. SumFunctionOnSet(rounds', Workers) = SumFunctionOnSet(rounds, Workers) + 1
      <4>1. /\ rounds'[u] = rounds[u] + 1
            /\ \A w \in Workers : w # u => rounds'[w] = rounds[w]
            /\ \A w \in Workers : rounds[w] \in Nat
        BY <1>2, <3>1
      <4> QED
        BY <4>1, SumGrows, WorkersFinite
    <3> QED
      BY <3>2, <3>3
  <2>2. \A k \in Counters : /\ whole.counts[k] \in Nat
                            /\ whole'.counts[k]
                                 = whole.counts[k] + (IF k \in Counted(o) THEN 1 ELSE 0)
    <3>1. whole.counts \in [ Counters -> Nat ]
      BY <1>3, CollectorFields DEF Sound
    <3> QED
      BY <1>4, <1>5, <3>1 DEF IterationAdded
  <2> HIDE DEF TotalRounds
  <2>3. CASE kind = "pdp"
    <3>1. Counted(o) = IF o.detected THEN {"iterations", "detections"} ELSE {"iterations"}
      BY <2>3 DEF Counted
    <3>2. /\ whole'.counts["iterations"] = whole.counts["iterations"] + 1
          /\ \/ whole'.counts["detections"] = whole.counts["detections"]
             \/ whole'.counts["detections"] = whole.counts["detections"] + 1
          /\ whole.counts["detections"] \in Nat
      BY <2>2, <3>1 DEF Counters
    <3>3. whole.counts["iterations"] = TotalRounds /\ whole.counts["detections"] <= TotalRounds
      BY <1>2, <2>3 DEF OutcomesInv
    <3> QED
      BY <1>2, <2>1, <2>3, <3>2, <3>3 DEF OutcomesInv
  <2>4. CASE kind = "identity"
    <3>1. o.accepted \in BOOLEAN /\ o.groundTruth \in BOOLEAN
      BY <2>4 DEF Outcomes
    <3>2. Counted(o) = {"samples", CASE   o.accepted /\   o.groundTruth -> "trueAccepts"
                                     []   o.accepted /\ ~ o.groundTruth -> "falseAccepts"
                                     [] ~ o.accepted /\ ~ o.groundTruth -> "trueRejects"
                                     [] ~ o.accepted /\   o.groundTruth -> "falseRejects" }
      BY <2>4 DEF Counted
    <3>3. /\ "samples" \in Counted(o)
          /\ "trueAccepts" \in Counted(o) <=> o.accepted /\ o.groundTruth
          /\ "trueRejects" \in Counted(o) <=> ~ o.accepted /\ ~ o.groundTruth
      BY <3>1, <3>2
    <3>4. /\ whole'.counts["samples"] = whole.counts["samples"] + 1
          /\ whole'.counts["trueAccepts"]
               = whole.counts["trueAccepts"] + (IF o.accepted /\ o.groundTruth THEN 1 ELSE 0)
          /\ whole'.counts["trueRejects"]
               = whole.counts["trueRejects"] + (IF ~ o.accepted /\ ~ o.groundTruth THEN 1 ELSE 0)
          /\ whole.counts["trueAccepts"] \in Nat /\ whole.counts["trueRejects"] \in Nat
      BY <2>2, <3>3 DEF Counters
    <3>5. agreed' = IF o.accepted = o.groundTruth THEN agreed + 1 ELSE agreed
      BY <1>7, <2>4
    <3>6. /\ whole.counts["samples"] = TotalRounds
          /\ whole.counts["trueAccepts"] + whole.counts["trueRejects"] = agreed
      BY <1>2, <2>4 DEF OutcomesInv
    <3>7. whole'.counts["trueAccepts"] + whole'.counts["trueRejects"] = agreed'
      BY <3>1, <3>4, <3>5, <3>6
    <3>8. whole'.counts["samples"] = TotalRounds'
      BY <2>1, <3>4, <3>6
    <3> QED
      BY <1>2, <2>4, <3>7, <3>8 DEF OutcomesInv
  <2>5. CASE kind = "maintenance"
    <3>1. Counted(o) = IF o.succeeded THEN {"succeeded"} ELSE {"failed"}
      BY <2>5 DEF Counted
    <3>2. /\ \/ /\ whole'.counts["succeeded"] = whole.counts["succeeded"] + 1
                /\ whole'.counts["failed"] = whole.counts["failed"]
             \/ /\ whole'.counts["succeeded"] = whole.counts["succeeded"]
                /\ whole'.counts["failed"] = whole.counts["failed"] + 1
          /\ whole.counts["succeeded"] \in Nat /\ whole.counts["failed"] \in Nat
      BY <2>2, <3>1 DEF Counters
    <3>3. whole.counts["succeeded"] + whole.counts["failed"] = TotalRounds
      BY <1>2, <2>5 DEF OutcomesInv
    <3>4. whole'.counts["succeeded"] + whole'.counts["failed"] = TotalRounds'
      BY <2>1, <3>2, <3>3
    <3> QED
      BY <1>2, <2>5, <3>4 DEF OutcomesInv
  <2> QED
    BY <1>3, <2>3, <2>4, <2>5 DEF Kinds
<1> QED
  BY <1>8, <1>9, <1>10, <1>11, <1>12, <1>13 DEF MergeInv

------------------------------------------------------------------------------
(* The steps of the main thread. *)

\* What holds of the merged collector is about the workers' collectors and itself.
LEMMA HoldsNext ==
  ASSUME collectors' = collectors, NEW S,
         HoldsSums(merged', S), HoldsExtremes(merged', S), S = 1 .. cursor' - 1
  PROVE  HoldsSums(merged, 1 .. cursor - 1)' /\ HoldsExtremes(merged, 1 .. cursor - 1)'
<1>1. /\ \A k \in Counters : Counter(k)' = Counter(k)
      /\ \A s \in Stages : Timing(s)' = Timing(s) /\ SetupTiming(s)' = SetupTiming(s)
      /\ \A m \in Messages : Size(m)' = Size(m) /\ SetupSize(m)' = SetupSize(m)
      /\ FinalBlocks' = FinalBlocks
  BY DEF Counter, Timing, SetupTiming, Size, SetupSize, FinalBlocks
<1>2. \A k \in Counters : merged'.counts[k] = SumFunctionOnSet(Counter(k)', 1 .. cursor' - 1)
  BY <1>1, Zenon DEF HoldsSums
<1>3. \A s \in Stages :
        /\ merged'.timings[s] = Combined(Timing(s)', 1 .. cursor' - 1)
        /\ merged'.setupTimings[s] = Combined(SetupTiming(s)', 1 .. cursor' - 1)
  BY <1>1, Zenon DEF HoldsSums
<1>4. \A m \in Messages :
        /\ merged'.sizes[m] = Combined(Size(m)', 1 .. cursor' - 1)
        /\ merged'.setupSizes[m] = Combined(SetupSize(m)', 1 .. cursor' - 1)
  BY <1>1, Zenon DEF HoldsSums
<1>5. merged'.finalBlocks = SumFunctionOnSet(FinalBlocks', 1 .. cursor' - 1)
  BY <1>1, Zenon DEF HoldsSums
<1>6. HoldsSums(merged, 1 .. cursor - 1)'
  BY <1>2, <1>3, <1>4, <1>5 DEF HoldsSums
<1>7. HoldsExtremes(merged, 1 .. cursor - 1)'
  BY DEF HoldsExtremes
<1> QED
  BY <1>6, <1>7

\* The parts of the invariant that say nothing of the merged collector.
LEMMA WorkerPartsKept ==
  ASSUME WholeInv, SetupInv, LatestInv, OutcomesInv,
         UNCHANGED <<kind, collectors, rounds, whole, setups, latest, agreed>>
  PROVE  WholeInv' /\ SetupInv' /\ LatestInv' /\ OutcomesInv'
<1>1. \A w \in Workers : SameIterations(collectors[w], collectors'[w])
  BY DEF SameIterations
<1>2. WholeInv' /\ LatestInv' /\ OutcomesInv'
  BY <1>1, IterationPartsKept
<1>3. SetupInv'
  BY DEF SetupInv
<1> QED
  BY <1>2, <1>3

\* The sum over one worker.
LEMMA SumOfOne ==
  ASSUME NEW f, NEW w, f[w] \in Nat
  PROVE  SumFunctionOnSet(f, {w}) = f[w]
<1>1. IsFiniteSet({}) /\ {} \cup {w} = {w}
  BY FS_EmptySet
<1>2. SumFunctionOnSet(f, {}) = 0
  BY <1>1, SumNat
<1>3. SumFunctionOnSet(f, {w}) = SumFunctionOnSet(f, {}) + f[w]
  BY <1>1, SumInsert
<1> QED
  BY <1>2, <1>3

\* The collector the merge starts from holds the sums of the first worker.
LEMMA FirstCollector ==
  ASSUME CollectorTypeOK
  PROVE  HoldsSums(collectors[1], {1}) /\ HoldsExtremes(collectors[1], {1})
<1> DEFINE c == collectors[1]
<1>1. 1 \in Workers
  BY MergeAssumption DEF Workers
<1>2. Sound(c) /\ c \in CollectorType
  BY <1>1 DEF CollectorTypeOK
<1>3. c.memoryPeak \in Nat
  BY <1>2, CollectorFields
<1>4. \A k \in Counters : c.counts[k] = SumFunctionOnSet(Counter(k), {1})
  <2>1. \A k \in Counters : Counter(k)[1] \in Nat /\ Counter(k)[1] = c.counts[k]
    BY <1>1, ColumnsTyped DEF Counter
  <2> QED
    BY <2>1, SumOfOne
<1>5. ASSUME NEW s \in Stages
      PROVE  c.timings[s] = Combined(Timing(s), {1}) /\ c.setupTimings[s] = Combined(SetupTiming(s), {1})
  <2>1. /\ Timing(s)[1] = c.timings[s] /\ SetupTiming(s)[1] = c.setupTimings[s]
        /\ Timing(s) \in Columns /\ SetupTiming(s) \in Columns
    BY <1>1, ColumnsTyped DEF Timing, SetupTiming
  <2>2. Current(c.timings[s]) /\ Current(c.setupTimings[s])
    BY <1>2 DEF Sound
  <2> HIDE DEF c
  <2> QED
    BY <1>1, <2>1, <2>2, CombinedOne
<1>6. ASSUME NEW m \in Messages
      PROVE  c.sizes[m] = Combined(Size(m), {1}) /\ c.setupSizes[m] = Combined(SetupSize(m), {1})
  <2>1. /\ Size(m)[1] = c.sizes[m] /\ SetupSize(m)[1] = c.setupSizes[m]
        /\ Size(m) \in Columns /\ SetupSize(m) \in Columns
    BY <1>1, ColumnsTyped DEF Size, SetupSize
  <2>2. Current(c.sizes[m]) /\ Current(c.setupSizes[m])
    BY <1>2 DEF Sound
  <2> HIDE DEF c
  <2> QED
    BY <1>1, <2>1, <2>2, CombinedOne
<1>7. c.finalBlocks = SumFunctionOnSet(FinalBlocks, {1})
  <2>1. FinalBlocks[1] \in Nat /\ FinalBlocks[1] = c.finalBlocks
    BY <1>1, ColumnsTyped DEF FinalBlocks
  <2> QED
    BY <2>1, SumOfOne
<1>8. HoldsExtremes(c, {1})
  <2>1. c.setupTimingsRecorded \in BOOLEAN /\ c.setupSizesRecorded \in BOOLEAN
    BY <1>2, CollectorFields, Zenon
  <2>2. c.memoryPeak >= c.memoryPeak
    BY <1>3
  <2>3. c.setupTimingsRecorded = (\E w \in {1} : collectors[w].setupTimingsRecorded)
    BY <2>1
  <2>4. c.setupSizesRecorded = (\E w \in {1} : collectors[w].setupSizesRecorded)
    BY <2>1
  <2>5. \E w \in {1} : c.memoryPeak = collectors[w].memoryPeak
    OBVIOUS
  <2>6. \A w \in {1} : c.memoryPeak >= collectors[w].memoryPeak
    BY <2>2
  <2> QED
    BY <2>3, <2>4, <2>5, <2>6 DEF HoldsExtremes
<1> QED
  BY <1>4, <1>5, <1>6, <1>7, <1>8 DEF HoldsSums

\* StartMerge preserves the invariant.
LEMMA StartPreserves == MergeInv /\ StartMerge => MergeInv'
<1> SUFFICES ASSUME MergeInv, StartMerge PROVE MergeInv'
  OBVIOUS
<1>1. /\ CollectorTypeOK /\ WholeInv /\ SetupInv /\ LatestInv /\ OutcomesInv
      /\ phase' = "merge" /\ merged' = collectors[1] /\ cursor' = 2
      /\ UNCHANGED <<kind, collectors, rounds, result, whole, setups, latest, agreed>>
  BY DEF MergeInv, StartMerge
<1>2. CollectorTypeOK'
  <2>1. 1 \in Workers
    BY MergeAssumption DEF Workers
  <2>2. cursor' \in 2 .. NumWorkers + 1
    BY <1>1, MergeAssumption
  <2>3. Sound(merged')
    BY <1>1, <2>1 DEF CollectorTypeOK
  <2> QED
    BY <1>1, <2>2, <2>3 DEF CollectorTypeOK
<1>3. WholeInv' /\ SetupInv' /\ LatestInv' /\ OutcomesInv'
  BY <1>1, WorkerPartsKept
<1>4. MergedInv'
  <2>1. HoldsSums(merged', {1}) /\ HoldsExtremes(merged', {1})
    BY <1>1, FirstCollector
  <2>2. {1} = 1 .. cursor' - 1
    BY <1>1
  <2> QED
    BY <1>1, <2>1, <2>2, HoldsNext DEF MergedInv
<1>5. ResultInv'
  BY <1>1 DEF ResultInv
<1> QED
  BY <1>2, <1>3, <1>4, <1>5 DEF MergeInv

\* Merging one collector more.
LEMMA NextCollector ==
  ASSUME CollectorTypeOK, NEW S \in SUBSET Workers, NEW w \in Workers \ S,
         NEW c, Sound(c), HoldsSums(c, S), HoldsExtremes(c, S)
  PROVE  /\ HoldsSums(MergeFrom(c, collectors[w]), S \cup {w})
         /\ HoldsExtremes(MergeFrom(c, collectors[w]), S \cup {w})
<1> DEFINE other == collectors[w]
           d     == MergeFrom(c, other)
           T     == S \cup {w}
<1>1. Sound(other) /\ other \in CollectorType /\ c \in CollectorType
  BY DEF CollectorTypeOK, Sound
<1>2. IsFiniteSet(S)
  BY WorkersFinite
<1>3. /\ \A k \in Counters : d.counts[k] = c.counts[k] + other.counts[k]
      /\ d.finalBlocks = c.finalBlocks + other.finalBlocks
      /\ \A s \in Stages :
           /\ d.timings[s] = Add(c.timings[s], other.timings[s])
           /\ d.setupTimings[s] = Add(c.setupTimings[s], other.setupTimings[s])
      /\ \A m \in Messages :
           /\ d.sizes[m] = Add(c.sizes[m], other.sizes[m])
           /\ d.setupSizes[m] = Add(c.setupSizes[m], other.setupSizes[m])
      /\ d.setupTimingsRecorded = (c.setupTimingsRecorded \/ other.setupTimingsRecorded)
      /\ d.setupSizesRecorded = (c.setupSizesRecorded \/ other.setupSizesRecorded)
      /\ d.memoryPeak = IF c.memoryPeak >= other.memoryPeak
                        THEN c.memoryPeak ELSE other.memoryPeak
  <2>1. Joined(c, other, d)
    BY <1>1, Merged
  <2> HIDE DEF d, other
  <2> QED
    BY <2>1, Zenon DEF Joined
<1> HIDE DEF d
<1>4. ASSUME NEW k \in Counters PROVE d.counts[k] = SumFunctionOnSet(Counter(k), T)
  <2>1. \A x \in Workers : Counter(k)[x] \in Nat
    BY ColumnsTyped
  <2>2. SumFunctionOnSet(Counter(k), T) = SumFunctionOnSet(Counter(k), S) + Counter(k)[w]
    BY <1>2, <2>1, SumInsert
  <2>3. Counter(k)[w] = other.counts[k] /\ c.counts[k] = SumFunctionOnSet(Counter(k), S)
    BY DEF Counter, HoldsSums
  <2> QED
    BY <1>3, <2>2, <2>3, Zenon
<1>5. d.finalBlocks = SumFunctionOnSet(FinalBlocks, T)
  <2>1. \A x \in Workers : FinalBlocks[x] \in Nat
    BY ColumnsTyped
  <2>2. SumFunctionOnSet(FinalBlocks, T) = SumFunctionOnSet(FinalBlocks, S) + FinalBlocks[w]
    BY <1>2, <2>1, SumInsert
  <2>3. FinalBlocks[w] = other.finalBlocks /\ c.finalBlocks = SumFunctionOnSet(FinalBlocks, S)
    BY DEF FinalBlocks, HoldsSums
  <2> QED
    BY <1>3, <2>2, <2>3, Zenon
<1>6. ASSUME NEW s \in Stages
      PROVE  d.timings[s] = Combined(Timing(s), T) /\ d.setupTimings[s] = Combined(SetupTiming(s), T)
  <2>1. Timing(s) \in Columns /\ SetupTiming(s) \in Columns
    BY ColumnsTyped
  <2>2. /\ Combined(Timing(s), T) = Add(Combined(Timing(s), S), Timing(s)[w])
        /\ Combined(SetupTiming(s), T) = Add(Combined(SetupTiming(s), S), SetupTiming(s)[w])
    BY <2>1, CombinedInsert
  <2>3. /\ Timing(s)[w] = other.timings[s] /\ SetupTiming(s)[w] = other.setupTimings[s]
        /\ c.timings[s] = Combined(Timing(s), S) /\ c.setupTimings[s] = Combined(SetupTiming(s), S)
    BY DEF Timing, SetupTiming, HoldsSums
  <2> QED
    BY <1>3, <2>2, <2>3, Zenon
<1>7. ASSUME NEW m \in Messages
      PROVE  d.sizes[m] = Combined(Size(m), T) /\ d.setupSizes[m] = Combined(SetupSize(m), T)
  <2>1. Size(m) \in Columns /\ SetupSize(m) \in Columns
    BY ColumnsTyped
  <2>2. /\ Combined(Size(m), T) = Add(Combined(Size(m), S), Size(m)[w])
        /\ Combined(SetupSize(m), T) = Add(Combined(SetupSize(m), S), SetupSize(m)[w])
    BY <2>1, CombinedInsert
  <2>3. /\ Size(m)[w] = other.sizes[m] /\ SetupSize(m)[w] = other.setupSizes[m]
        /\ c.sizes[m] = Combined(Size(m), S) /\ c.setupSizes[m] = Combined(SetupSize(m), S)
    BY DEF Size, SetupSize, HoldsSums
  <2> QED
    BY <1>3, <2>2, <2>3, Zenon
<1>8. HoldsExtremes(d, T)
  <2>1. /\ c.memoryPeak \in Nat /\ \A x \in Workers : collectors[x].memoryPeak \in Nat
    BY <1>1, CollectorFields DEF CollectorTypeOK
  <2>2. /\ d.memoryPeak >= c.memoryPeak /\ d.memoryPeak >= other.memoryPeak
        /\ d.memoryPeak = c.memoryPeak \/ d.memoryPeak = other.memoryPeak
        /\ d.memoryPeak \in Nat
    BY <1>3, <2>1
  <2>3. \A x \in T : d.memoryPeak >= collectors[x].memoryPeak
    BY <2>1, <2>2 DEF HoldsExtremes
  <2>4. \E x \in T : d.memoryPeak = collectors[x].memoryPeak
    BY <2>2 DEF HoldsExtremes
  <2>5. d.setupTimingsRecorded = (\E x \in T : collectors[x].setupTimingsRecorded)
    BY <1>3 DEF HoldsExtremes
  <2>6. d.setupSizesRecorded = (\E x \in T : collectors[x].setupSizesRecorded)
    BY <1>3 DEF HoldsExtremes
  <2> QED
    BY <2>3, <2>4, <2>5, <2>6 DEF HoldsExtremes
<1>9. HoldsSums(d, T)
  BY <1>4, <1>5, <1>6, <1>7 DEF HoldsSums
<1> QED
  BY <1>8, <1>9 DEF d

\* MergeNext preserves the invariant.
LEMMA NextPreserves == MergeInv /\ MergeNext => MergeInv'
<1> SUFFICES ASSUME MergeInv, MergeNext PROVE MergeInv'
  OBVIOUS
<1>1. /\ CollectorTypeOK /\ WholeInv /\ MergedInv /\ SetupInv /\ LatestInv /\ OutcomesInv
      /\ phase = "merge" /\ phase' = "merge" /\ cursor <= NumWorkers
      /\ merged' = MergeFrom(merged, collectors[cursor]) /\ cursor' = cursor + 1
      /\ UNCHANGED <<kind, collectors, rounds, result, whole, setups, latest, agreed>>
  BY DEF MergeInv, MergeNext
<1> DEFINE S == 1 .. cursor - 1
<1>2. /\ cursor \in 2 .. NumWorkers /\ NumWorkers \in Nat
      /\ S \in SUBSET Workers /\ cursor \in Workers \ S
      /\ S \cup {cursor} = 1 .. cursor' - 1
  <2>1. NumWorkers \in Nat
    BY MergeAssumption
  <2>2. cursor \in 2 .. NumWorkers
    BY <1>1, <2>1 DEF CollectorTypeOK
  <2> QED
    BY <1>1, <2>1, <2>2 DEF Workers
<1>3. Sound(merged) /\ Sound(collectors[cursor])
  BY <1>1, <1>2 DEF CollectorTypeOK
<1>4. CollectorTypeOK'
  <2>1. Sound(merged')
    BY <1>1, <1>3, Merged DEF Joined
  <2>2. cursor' \in 2 .. NumWorkers + 1
    BY <1>1, <1>2
  <2> QED
    BY <1>1, <2>1, <2>2 DEF CollectorTypeOK
<1>5. WholeInv' /\ SetupInv' /\ LatestInv' /\ OutcomesInv'
  BY <1>1, WorkerPartsKept
<1>6. MergedInv'
  <2>1. HoldsSums(merged, S) /\ HoldsExtremes(merged, S)
    BY <1>1 DEF MergedInv
  <2> HIDE DEF S
  <2>2. HoldsSums(merged', S \cup {cursor}) /\ HoldsExtremes(merged', S \cup {cursor})
    BY <1>1, <1>2, <1>3, <2>1, NextCollector
  <2>3. HoldsSums(merged, 1 .. cursor - 1)' /\ HoldsExtremes(merged, 1 .. cursor - 1)'
    BY <1>1, <1>2, <2>2, HoldsNext
  <2> QED
    BY <2>3 DEF MergedInv
<1>7. ResultInv'
  BY <1>1 DEF ResultInv
<1> QED
  BY <1>4, <1>5, <1>6, <1>7 DEF MergeInv

\* Report preserves the invariant: the result is filled from the merged collector.
LEMMA ReportPreserves == MergeInv /\ Report => MergeInv'
<1> SUFFICES ASSUME MergeInv, Report PROVE MergeInv'
  OBVIOUS
<1>1. /\ CollectorTypeOK /\ WholeInv /\ MergedInv /\ SetupInv /\ LatestInv /\ OutcomesInv
      /\ phase = "merge" /\ phase' = "reported" /\ cursor > NumWorkers
      /\ result' = CASE kind = "pdp"         -> FillPdp(merged, TotalRounds)
                     [] kind = "identity"    -> FillIdentity(merged, TotalRounds)
                     [] kind = "maintenance" -> FillMaintenance(merged, TotalRounds)
      /\ UNCHANGED <<kind, collectors, rounds, cursor, merged, whole, setups, latest, agreed>>
  BY DEF MergeInv, Report
<1>2. CollectorTypeOK'
  <2>1. cursor' = NumWorkers + 1
    BY <1>1, MergeAssumption DEF CollectorTypeOK
  <2> QED
    BY <1>1, <2>1 DEF CollectorTypeOK
<1>3. WholeInv' /\ SetupInv' /\ LatestInv' /\ OutcomesInv'
  BY <1>1, WorkerPartsKept
<1>4. MergedInv'
  <2>1. HoldsSums(merged, 1 .. cursor - 1) /\ HoldsExtremes(merged, 1 .. cursor - 1)
    BY <1>1 DEF MergedInv
  <2>2. /\ HoldsSums(merged', 1 .. cursor - 1) /\ HoldsExtremes(merged', 1 .. cursor - 1)
        /\ 1 .. cursor - 1 = 1 .. cursor' - 1
    BY <1>1, <2>1, Zenon
  <2>3. HoldsSums(merged, 1 .. cursor - 1)' /\ HoldsExtremes(merged, 1 .. cursor - 1)'
    BY <1>1, <2>2, HoldsNext, Zenon
  <2> QED
    BY <2>3 DEF MergedInv
<1>5. ResultInv'
  <2>1. TotalRounds' = TotalRounds
    BY <1>1 DEF TotalRounds
  <2>2. kind = "pdp" => result' = FillPdp(merged, TotalRounds)
    BY <1>1, Zenon
  <2>3. kind = "identity" => result' = FillIdentity(merged, TotalRounds)
    <3> SUFFICES ASSUME kind = "identity" PROVE result' = FillIdentity(merged, TotalRounds)
      OBVIOUS
    <3> HIDE DEF FillPdp, FillIdentity, FillMaintenance, TotalRounds
    <3> QED
      BY <1>1
  <2>4. kind = "maintenance" => result' = FillMaintenance(merged, TotalRounds)
    <3> SUFFICES ASSUME kind = "maintenance" PROVE result' = FillMaintenance(merged, TotalRounds)
      OBVIOUS
    <3> HIDE DEF FillPdp, FillIdentity, FillMaintenance, TotalRounds
    <3> QED
      BY <1>1
  <2>5. kind' = kind /\ merged' = merged
    BY <1>1
  <2> QED
    BY <2>1, <2>2, <2>3, <2>4, <2>5 DEF ResultInv
<1> QED
  BY <1>2, <1>3, <1>4, <1>5 DEF MergeInv

\* ResetMerged preserves the invariant.
LEMMA ResetPreserves == MergeInv /\ ResetMerged => MergeInv'
<1> SUFFICES ASSUME MergeInv, ResetMerged PROVE MergeInv'
  OBVIOUS
<1>1. /\ CollectorTypeOK /\ WholeInv /\ SetupInv /\ LatestInv /\ OutcomesInv
      /\ phase' = "reset" /\ merged' = Reset(merged)
      /\ UNCHANGED <<kind, collectors, rounds, cursor, result, whole, setups, latest, agreed>>
  BY DEF MergeInv, ResetMerged
<1>2. Sound(merged')
  BY <1>1, ResetSound DEF CollectorTypeOK
<1>3. CollectorTypeOK'
  BY <1>1, <1>2 DEF CollectorTypeOK
<1>4. WholeInv' /\ SetupInv' /\ LatestInv' /\ OutcomesInv'
  BY <1>1, WorkerPartsKept
<1>5. MergedInv' /\ ResultInv'
  BY <1>1 DEF MergedInv, ResultInv
<1> QED
  BY <1>3, <1>4, <1>5 DEF MergeInv

------------------------------------------------------------------------------
(* The theorems. *)

(***************************************************************************)
(* The invariant holds throughout: every step of a worker and of the main  *)
(* thread keeps the whole run's collector the sum of the workers' and the  *)
(* merged one the sum of those merged so far.                              *)
(***************************************************************************)
THEOREM CollectorInvariant == Spec => []MergeInv
<1>1. Init => MergeInv
  BY MergeInit
<1>2. MergeInv /\ [Next]_vars => MergeInv'
  <2> SUFFICES ASSUME MergeInv, [Next]_vars PROVE MergeInv'
    OBVIOUS
  <2>1. ASSUME NEW w \in Workers, SetupDone(w) PROVE MergeInv'
    BY <2>1, SetupPreserves
  <2>2. ASSUME NEW w \in Workers, Iteration(w) PROVE MergeInv'
    BY <2>2, IterationPreserves
  <2>3. ASSUME NEW w \in Workers, PeakMeasured(w) PROVE MergeInv'
    BY <2>3, PeakPreserves
  <2>4. CASE StartMerge
    BY <2>4, StartPreserves
  <2>5. CASE MergeNext
    BY <2>5, NextPreserves
  <2>6. CASE Report
    BY <2>6, ReportPreserves
  <2>7. CASE ResetMerged
    BY <2>7, ResetPreserves
  <2>8. CASE UNCHANGED vars
    <3>1. /\ CollectorTypeOK /\ WholeInv /\ MergedInv /\ SetupInv /\ LatestInv
          /\ OutcomesInv /\ ResultInv
      BY DEF MergeInv
    <3>2. UNCHANGED <<kind, collectors, rounds, phase, cursor, merged, result, whole, setups,
                      latest, agreed>>
      BY <2>8 DEF vars
    <3>3. CollectorTypeOK'
      BY <3>1, <3>2 DEF CollectorTypeOK
    <3>4. WholeInv' /\ SetupInv' /\ LatestInv' /\ OutcomesInv'
      BY <3>1, <3>2, WorkerPartsKept
    <3>5. MergedInv'
      <4>1. ASSUME phase' \in {"merge", "reported"}
            PROVE  HoldsSums(merged, 1 .. cursor - 1)' /\ HoldsExtremes(merged, 1 .. cursor - 1)'
        <5>1. HoldsSums(merged, 1 .. cursor - 1) /\ HoldsExtremes(merged, 1 .. cursor - 1)
          BY <3>1, <3>2, <4>1 DEF MergedInv
        <5>2. /\ HoldsSums(merged', 1 .. cursor - 1) /\ HoldsExtremes(merged', 1 .. cursor - 1)
              /\ 1 .. cursor - 1 = 1 .. cursor' - 1
          BY <3>2, <5>1, Zenon
        <5> QED
          BY <3>2, <5>2, HoldsNext, Zenon
      <4> QED
        BY <4>1 DEF MergedInv
    <3>6. ResultInv'
      <4>1. TotalRounds' = TotalRounds
        BY <3>2 DEF TotalRounds
      <4> QED
        BY <3>1, <3>2, <4>1 DEF ResultInv
    <3> QED
      BY <3>3, <3>4, <3>5, <3>6 DEF MergeInv
  <2> QED
    BY <2>1, <2>2, <2>3, <2>4, <2>5, <2>6, <2>7, <2>8 DEF Next
<1> QED
  BY <1>1, <1>2, PTL DEF Spec

\* When the result is filled, every worker's collector is merged.
LEMMA AllMerged ==
  ASSUME MergeInv, phase = "reported"
  PROVE  HoldsSums(merged, Workers) /\ HoldsExtremes(merged, Workers)
<1>1. cursor = NumWorkers + 1 /\ NumWorkers \in Nat
  BY MergeAssumption DEF MergeInv, CollectorTypeOK
<1>2. 1 .. cursor - 1 = Workers
  BY <1>1 DEF Workers
<1> QED
  BY <1>2 DEF MergeInv, MergedInv

\* The counters, timings and sizes merged are those of the whole run.
LEMMA MergedEqualsWhole ==
  ASSUME MergeInv, phase = "reported"
  PROVE  merged.counts = whole.counts /\ merged.timings = whole.timings /\ merged.sizes = whole.sizes
<1>1. HoldsSums(merged, Workers) /\ WholeInv
  BY AllMerged DEF MergeInv
<1>2. merged \in CollectorType /\ whole \in CollectorType
  BY DEF MergeInv, CollectorTypeOK, Sound
<1>3. /\ merged.counts \in [ Counters -> Nat ] /\ whole.counts \in [ Counters -> Nat ]
      /\ merged.timings \in TimingsType /\ whole.timings \in TimingsType
      /\ merged.sizes \in SizesType /\ whole.sizes \in SizesType
  BY <1>2, CollectorFields
<1>4. \A k \in Counters : merged.counts[k] = whole.counts[k]
  BY <1>1, Zenon DEF HoldsSums, WholeInv
<1>5. \A s \in Stages : merged.timings[s] = whole.timings[s]
  BY <1>1, Zenon DEF HoldsSums, WholeInv
<1>6. \A m \in Messages : merged.sizes[m] = whole.sizes[m]
  BY <1>1, Zenon DEF HoldsSums, WholeInv
<1> HIDE DEF Counters
<1>7. merged.counts = whole.counts
  BY <1>3, <1>4
<1>8. merged.timings = whole.timings
  BY <1>3, <1>5 DEF TimingsType
<1>9. merged.sizes = whole.sizes
  BY <1>3, <1>6 DEF SizesType
<1> QED
  BY <1>7, <1>8, <1>9

(***************************************************************************)
(* However the iterations are spread over the workers and interleaved, the *)
(* merged collector holds what one collector would have recorded, the sum  *)
(* of the last block counts and the highest peak.                          *)
(***************************************************************************)
THEOREM MergedIsWholeRun == Spec => []MergeIsWholeRun
<1>1. MergeInv => MergeIsWholeRun
  <2> SUFFICES ASSUME MergeInv, phase = "reported"
               PROVE  /\ merged.counts = whole.counts
                      /\ merged.timings = whole.timings
                      /\ merged.sizes = whole.sizes
                      /\ merged.finalBlocks = SumFunction(latest)
                      /\ merged.memoryPeak = Max({ collectors[w].memoryPeak : w \in Workers })
    BY DEF MergeIsWholeRun
  <2>1. HoldsSums(merged, Workers) /\ HoldsExtremes(merged, Workers)
    BY AllMerged
  <2>2. merged.finalBlocks = SumFunction(latest)
    <3>1. latest \in [ Workers -> Nat ]
      BY DEF MergeInv, CollectorTypeOK
    <3>2. SumFunction(latest) = SumFunctionOnSet(latest, Workers)
      BY <3>1 DEF SumFunction
    <3>3. \A w \in Workers : FinalBlocks[w] = latest[w]
      BY DEF MergeInv, LatestInv, FinalBlocks
    <3>4. SumFunctionOnSet(FinalBlocks, Workers) = SumFunctionOnSet(latest, Workers)
      BY <3>3, SumCongruent, WorkersFinite
    <3> QED
      BY <2>1, <3>2, <3>4 DEF HoldsSums
  <2>3. merged.memoryPeak = Max({ collectors[w].memoryPeak : w \in Workers })
    <3> DEFINE peaks == { collectors[w].memoryPeak : w \in Workers }
               peak  == merged.memoryPeak
    <3>1. \A w \in Workers : collectors[w].memoryPeak \in Nat
      BY CollectorFields DEF MergeInv, CollectorTypeOK
    <3>2. peak \in peaks /\ \A p \in peaks : p \in Nat /\ peak >= p
      BY <2>1, <3>1 DEF HoldsExtremes
    <3> HIDE DEF peaks, peak
    <3>3. \A x \in peaks : (\A y \in peaks : x >= y) => x = peak
      BY <3>2
    <3>4. Max(peaks) = peak
      <4>1. /\ Max(peaks) \in peaks /\ \A y \in peaks : Max(peaks) >= y
        BY <3>2, Zenon DEF Max
      <4> QED
        BY <3>3, <4>1
    <3> QED
      BY <3>4 DEF peaks, peak
  <2> QED
    BY <2>2, <2>3, MergedEqualsWhole
<1> QED
  BY <1>1, CollectorInvariant, PTL

\* The workers that made a setup record.
Recorders == { w \in Workers : setups[w] # <<>> }

\* The first record of a worker, by worker; of no meaning where there is none.
FirstRecords == [ w \in Workers |-> setups[w][1] ]

\* The first records of all who made one add up as the community module sums them.
LEMMA FirstRecordsSum ==
  MapThenSumSet(LAMBDA w : setups[w][1], Recorders) = SumFunctionOnSet(FirstRecords, Recorders)
<1> DEFINE IsTotal(sum) ==
             sum = [ s \in SUBSET Recorders |->
                       IF s = {} THEN 0
                       ELSE setups[CHOOSE x \in s : TRUE][1] + sum[s \ { CHOOSE x \in s : TRUE }] ]
<1>1. MapThenSumSet(LAMBDA w : setups[w][1], Recorders) = (CHOOSE sum : IsTotal(sum))[Recorders]
  BY DEF MapThenSumSet, MapThenFoldSet
<1>2. IsFiniteSet(Recorders)
  BY WorkersFinite DEF Recorders
<1>3. ASSUME NEW sum PROVE IsTotal(sum) <=> IsSum(sum, FirstRecords, Recorders)
  <2> DEFINE byRecord(s) == IF s = {} THEN 0
                            ELSE setups[CHOOSE x \in s : TRUE][1]
                                   + sum[s \ { CHOOSE x \in s : TRUE }]
             byColumn(s) == IF s = {} THEN 0
                            ELSE FirstRecords[CHOOSE x \in s : TRUE]
                                   + sum[s \ { CHOOSE x \in s : TRUE }]
  <2>1. ASSUME NEW s \in SUBSET Recorders PROVE byRecord(s) = byColumn(s)
    <3>1. CASE s = {}
      BY <3>1
    <3>2. CASE s # {}
      <4> DEFINE x == CHOOSE x \in s : TRUE
      <4>1. x \in s /\ x \in Workers
        BY <3>2 DEF Recorders
      <4> HIDE DEF x
      <4>2. FirstRecords[x] = setups[x][1]
        BY <4>1, Zenon DEF FirstRecords
      <4> QED
        BY <3>2, <4>2, Zenon DEF x
    <3> QED
      BY <3>1, <3>2
  <2> HIDE DEF byRecord, byColumn
  <2>2. [ s \in SUBSET Recorders |-> byRecord(s) ] = [ s \in SUBSET Recorders |-> byColumn(s) ]
    BY <2>1
  <2>3. IsTotal(sum) <=> sum = [ s \in SUBSET Recorders |-> byRecord(s) ]
    BY DEF byRecord
  <2>4. IsSum(sum, FirstRecords, Recorders) <=> sum = [ s \in SUBSET Recorders |-> byColumn(s) ]
    BY DEF byColumn, IsSum
  <2> QED
    BY <2>2, <2>3, <2>4, Zenon
<1>4. PICK sum : /\ IsSum(sum, FirstRecords, Recorders)
                 /\ SumFunctionOnSet(FirstRecords, Recorders) = sum[Recorders]
  BY <1>2, SumFunctionIsSum
<1> DEFINE total == CHOOSE total : IsTotal(total)
<1>5. IsTotal(total)
  <2>1. IsTotal(sum)
    BY <1>3, <1>4
  <2> HIDE DEF IsTotal
  <2> QED
    BY <2>1
<1>6. IsSum(total, FirstRecords, Recorders)
  <2> HIDE DEF IsTotal, total
  <2> QED
    BY <1>3, <1>5
<1>7. total[Recorders] = sum[Recorders]
  <2> HIDE DEF total
  <2> QED
    BY <1>2, <1>4, <1>6, SumsAgree
<1> QED
  BY <1>1, <1>4, <1>7

\* What a column of first setup metrics comes to.
LEMMA SetupsCombined ==
  ASSUME NEW column \in Columns, setups \in [ Workers -> Seq(Nat) ],
         \A w \in Workers : column[w] = FirstSetup(setups[w])
  PROVE  /\ Combined(column, Workers).total = SumFunctionOnSet(FirstRecords, Recorders)
         /\ Combined(column, Workers).count = Cardinality(Recorders)
<1>1. Recorders \subseteq Workers /\ IsFiniteSet(Workers) /\ IsFiniteSet(Recorders)
  BY WorkersFinite DEF Recorders
<1>2. /\ \A w \in Workers : Totals(column)[w] = column[w].total /\ Counts(column)[w] = column[w].count
      /\ \A w \in Workers : Totals(column)[w] \in Nat /\ Counts(column)[w] \in Nat
      /\ Combined(column, Workers).total = SumFunctionOnSet(Totals(column), Workers)
      /\ Combined(column, Workers).count = SumFunctionOnSet(Counts(column), Workers)
  BY CombinedMetric
<1>3. ASSUME NEW w \in Workers \ Recorders PROVE column[w].total = 0 /\ column[w].count = 0
  <2>1. column[w] = NoMetric
    BY <1>3 DEF Recorders, FirstSetup
  <2> QED
    BY <2>1 DEF NoMetric
<1>4. ASSUME NEW w \in Recorders
      PROVE  column[w].total = FirstRecords[w] /\ column[w].count = 1
  <2>1. w \in Workers /\ setups[w] # <<>> /\ setups[w] \in Seq(Nat)
    BY <1>4 DEF Recorders
  <2>2. column[w] = Measured(setups[w][1], 1)
    BY <2>1 DEF FirstSetup
  <2>3. FirstRecords[w] = setups[w][1]
    BY <2>1, Zenon DEF FirstRecords
  <2> QED
    BY <2>2, <2>3 DEF Measured
<1>5. SumFunctionOnSet(Totals(column), Workers) = SumFunctionOnSet(Totals(column), Recorders)
  <2>1. \A w \in Workers \ Recorders : Totals(column)[w] = 0
    BY <1>2, <1>3
  <2> QED
    BY <1>1, <1>2, <2>1, SumOfSupport
<1>6. SumFunctionOnSet(Totals(column), Recorders) = SumFunctionOnSet(FirstRecords, Recorders)
  BY <1>1, <1>2, <1>4, SumCongruent
<1>7. SumFunctionOnSet(Counts(column), Workers) = SumFunctionOnSet(Counts(column), Recorders)
  <2>1. \A w \in Workers \ Recorders : Counts(column)[w] = 0
    BY <1>2, <1>3
  <2> QED
    BY <1>1, <1>2, <2>1, SumOfSupport
<1>8. SumFunctionOnSet(Counts(column), Recorders) = Cardinality(Recorders)
  BY <1>1, <1>2, <1>4, SumOfOnes
<1> QED
  BY <1>2, <1>5, <1>6, <1>7, <1>8

(***************************************************************************)
(* Of every worker the first setup record counts, once, and the flags tell *)
(* whether anybody had one.                                                *)
(***************************************************************************)
THEOREM SetupsSpanWorkers == Spec => []SetupSpansWorkers
<1>1. MergeInv => SetupSpansWorkers
  <2> SUFFICES ASSUME MergeInv, phase = "reported"
               PROVE  /\ \A s \in Stages :
                           /\ merged.setupTimings[s].total
                                = MapThenSumSet(LAMBDA w : setups[w][1], Recorders)
                           /\ merged.setupTimings[s].count = Cardinality(Recorders)
                      /\ \A m \in Messages :
                           /\ merged.setupSizes[m].total
                                = MapThenSumSet(LAMBDA w : setups[w][1], Recorders)
                           /\ merged.setupSizes[m].count = Cardinality(Recorders)
                      /\ merged.setupTimingsRecorded = (Recorders # {})
                      /\ merged.setupSizesRecorded = (Recorders # {})
    BY DEF SetupSpansWorkers, Recorders
  <2>1. /\ HoldsSums(merged, Workers) /\ HoldsExtremes(merged, Workers)
        /\ CollectorTypeOK /\ SetupInv /\ setups \in [ Workers -> Seq(Nat) ]
    BY AllMerged DEF MergeInv, CollectorTypeOK
  <2>2. ASSUME NEW s \in Stages
        PROVE  /\ merged.setupTimings[s].total = SumFunctionOnSet(FirstRecords, Recorders)
               /\ merged.setupTimings[s].count = Cardinality(Recorders)
    <3>1. SetupTiming(s) \in Columns
      BY <2>1, ColumnsTyped
    <3>2. \A w \in Workers : SetupTiming(s)[w] = FirstSetup(setups[w])
      BY <2>1 DEF SetupInv, SetupTiming
    <3>3. merged.setupTimings[s] = Combined(SetupTiming(s), Workers)
      BY <2>1, Zenon DEF HoldsSums
    <3> QED
      BY <2>1, <3>1, <3>2, <3>3, SetupsCombined
  <2>3. ASSUME NEW m \in Messages
        PROVE  /\ merged.setupSizes[m].total = SumFunctionOnSet(FirstRecords, Recorders)
               /\ merged.setupSizes[m].count = Cardinality(Recorders)
    <3>1. SetupSize(m) \in Columns
      BY <2>1, ColumnsTyped
    <3>2. \A w \in Workers : SetupSize(m)[w] = FirstSetup(setups[w])
      BY <2>1 DEF SetupInv, SetupSize
    <3>3. merged.setupSizes[m] = Combined(SetupSize(m), Workers)
      BY <2>1, Zenon DEF HoldsSums
    <3> QED
      BY <2>1, <3>1, <3>2, <3>3, SetupsCombined
  <2>4. /\ merged.setupTimingsRecorded = (Recorders # {})
        /\ merged.setupSizesRecorded = (Recorders # {})
    <3>1. /\ merged.setupTimingsRecorded = (\E w \in Workers : collectors[w].setupTimingsRecorded)
          /\ merged.setupSizesRecorded = (\E w \in Workers : collectors[w].setupSizesRecorded)
      BY <2>1 DEF HoldsExtremes
    <3>2. \A w \in Workers : /\ collectors[w].setupTimingsRecorded <=> w \in Recorders
                             /\ collectors[w].setupSizesRecorded <=> w \in Recorders
      BY <2>1 DEF SetupInv, Recorders
    <3>3. Recorders \subseteq Workers
      BY DEF Recorders
    <3> QED
      BY <3>1, <3>2, <3>3
  <2> QED
    BY <2>2, <2>3, <2>4, FirstRecordsSum
<1> QED
  BY <1>1, CollectorInvariant, PTL

\* The averages of a sound collector.
LEMMA SoundAverages ==
  ASSUME NEW c, Sound(c), NEW m \in Metrics(c)
  PROVE  m.average = IF m.count = 0 THEN <<0, 1>> ELSE <<m.total, m.count>>
<1>1. c \in CollectorType
  BY DEF Sound
<1>2. /\ CurrentTimings(c.timings) /\ CurrentTimings(c.setupTimings)
      /\ CurrentSizes(c.sizes) /\ CurrentSizes(c.setupSizes)
  BY <1>1, SoundFields, Zenon
<1>3. m \in MetricType /\ Current(m)
  BY <1>2 DEF Metrics, CurrentTimings, CurrentSizes, TimingsType, SizesType
<1> QED
  BY <1>3, CurrentMetric, Zenon

(***************************************************************************)
(* No average of any collector is ever stale, and a reported rate is that  *)
(* of the outcomes there were.                                             *)
(***************************************************************************)
THEOREM AveragesAreCurrent == Spec => []AveragesCurrent
<1>1. MergeInv => AveragesCurrent
  <2> SUFFICES ASSUME MergeInv PROVE AveragesCurrent
    OBVIOUS
  <2>1. \A c \in AllCollectors : Sound(c)
    BY DEF MergeInv, CollectorTypeOK, AllCollectors
  <2>2. \A c \in AllCollectors : \A m \in Metrics(c) :
          m.average = IF m.count = 0 THEN <<0, 1>> ELSE <<m.total, m.count>>
    BY <2>1, SoundAverages, Zenon
  <2>3. ASSUME phase = "reported" PROVE RatesMatchOutcomes
    <3>1. merged.counts = whole.counts /\ OutcomesInv /\ kind \in Kinds
      BY <2>3, MergedEqualsWhole DEF MergeInv, CollectorTypeOK, Kinds
    <3>2. CASE kind = "pdp"
      <4>1. /\ result = FillPdp(merged, TotalRounds)
            /\ merged.counts["iterations"] = TotalRounds
            /\ merged.counts["detections"] <= TotalRounds
        BY <2>3, <3>1, <3>2 DEF MergeInv, ResultInv, OutcomesInv
      <4> HIDE DEF TotalRounds, FillCommon, Fraction
      <4>2. /\ result.detections = merged.counts["detections"]
            /\ result.confidenceRate
                 = Fraction(merged.counts["detections"], merged.counts["iterations"])
        BY <4>1 DEF FillPdp
      <4> QED
        BY <3>2, <4>1, <4>2 DEF RatesMatchOutcomes
    <3>3. CASE kind = "identity"
      <4>1. /\ result = FillIdentity(merged, TotalRounds)
            /\ merged.counts["samples"] = TotalRounds
            /\ merged.counts["trueAccepts"] + merged.counts["trueRejects"] = agreed
        BY <2>3, <3>1, <3>3 DEF MergeInv, ResultInv, OutcomesInv
      <4> HIDE DEF TotalRounds, FillCommon, Fraction
      <4>2. /\ result.samples = merged.counts["samples"]
            /\ result.accuracyRate
                 = Fraction(merged.counts["trueAccepts"] + merged.counts["trueRejects"],
                            merged.counts["samples"])
        BY <4>1 DEF FillIdentity
      <4>3. /\ result.samples = TotalRounds
            /\ result.accuracyRate = Fraction(agreed, TotalRounds)
        BY <4>1, <4>2, Zenon
      <4> QED
        BY <3>3, <4>3 DEF RatesMatchOutcomes
    <3>4. CASE kind = "maintenance"
      <4>1. /\ result = FillMaintenance(merged, TotalRounds)
            /\ merged.counts["succeeded"] + merged.counts["failed"] = TotalRounds
        BY <2>3, <3>1, <3>4 DEF MergeInv, ResultInv, OutcomesInv
      <4> HIDE DEF TotalRounds, FillCommon
      <4>2. /\ result.succeeded = merged.counts["succeeded"]
            /\ result.failed = merged.counts["failed"]
        BY <4>1 DEF FillMaintenance
      <4>3. result.succeeded + result.failed = TotalRounds
        BY <4>1, <4>2, Zenon
      <4> QED
        BY <3>4, <4>3 DEF RatesMatchOutcomes
    <3> QED
      BY <3>1, <3>2, <3>3, <3>4 DEF Kinds
  <2> QED
    BY <2>2, <2>3 DEF AveragesCurrent
<1> QED
  BY <1>1, CollectorInvariant, PTL
==============================================================================
