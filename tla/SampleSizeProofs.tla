-------------------------- MODULE SampleSizeProofs ---------------------------
(***************************************************************************)
(* Theorems about the search for the challenge size, for every file and    *)
(* every target.  The loop's invariant holds whatever the confidence rate  *)
(* is.  That the rate is monotone, which makes the answer the smallest, is *)
(* proved from the product it is made of, by induction on its factors;     *)
(* that it is the share of the challenges that meet a corrupted block, by  *)
(* counting the challenges of so many blocks, as sets.                     *)
(***************************************************************************)
EXTENDS SampleSize, FiniteSetTheorems, WellFoundedInduction, TLAPS

------------------------------------------------------------------------------
(* Induction over the natural numbers. *)

\* Smaller numbers are well-founded, as a relation.
LEMMA BelowWellFounded ==
  IsWellFoundedOn({ pair \in Nat \X Nat : pair[1] < pair[2] }, Nat)
  BY NatLessThanWellFounded DEF OpToRel

(***************************************************************************)
(* Induction over the natural numbers, for a set rather than a predicate:  *)
(* the least number missing from the set would not be 0, and its           *)
(* predecessor would be there.                                             *)
(***************************************************************************)
LEMMA SetInduction ==
  ASSUME NEW S, 0 \in S, \A n \in Nat : n \in S => n + 1 \in S
  PROVE  Nat \subseteq S
<1> SUFFICES ASSUME Nat \ S # {} PROVE FALSE
  OBVIOUS
<1> DEFINE below == { pair \in Nat \X Nat : pair[1] < pair[2] }
<1>1. PICK least \in Nat \ S : \A y \in Nat \ S : <<y, least>> \notin below
  <2>1. IsWellFoundedOn(below, Nat)
    BY BelowWellFounded
  <2> HIDE DEF below
  <2> QED
    BY <2>1, WFMin, Zenon
<1>2. least - 1 \in Nat /\ (least - 1) + 1 = least
  BY <1>1
<1>3. least - 1 \notin S
  BY <1>1, <1>2
<1>4. <<least - 1, least>> \in Nat \X Nat /\ least - 1 < least
  BY <1>2
<1> QED
  BY <1>1, <1>2, <1>3, <1>4

------------------------------------------------------------------------------
(* The product the rate is made of. *)

\* f is the function MissProduct defines by recursion.
Product(f, n, r) == f = [ i \in 0 .. r |-> IF i = 0 THEN 1 ELSE f[i - 1] * (n - i + 1) ]

LEMMA ProductExists ==
  ASSUME NEW n \in Int, NEW r \in Nat
  PROVE  \E f \in [ 0 .. r -> Int ] : Product(f, n, r)
<1> DEFINE S == { k \in Nat : \E f \in [ 0 .. k -> Int ] : Product(f, n, k) }
<1>1. 0 \in S
  <2> DEFINE f == [ i \in 0 .. 0 |-> 1 ]
  <2>1. f \in [ 0 .. 0 -> Int ] /\ Product(f, n, 0)
    BY DEF Product
  <2> QED
    BY <2>1
<1>2. ASSUME NEW k \in Nat, k \in S PROVE k + 1 \in S
  <2>1. PICK f \in [ 0 .. k -> Int ] : Product(f, n, k)
    BY <1>2
  <2> DEFINE g == [ i \in 0 .. k + 1 |-> IF i <= k THEN f[i] ELSE f[k] * (n - k) ]
  <2>2. f[k] * (n - k) \in Int
    BY <2>1
  <2>3. g \in [ 0 .. k + 1 -> Int ]
    BY <2>1, <2>2
  <2>4. ASSUME NEW i \in 0 .. k + 1
        PROVE  g[i] = IF i = 0 THEN 1 ELSE g[i - 1] * (n - i + 1)
    <3>1. CASE i <= k
      <4>1. g[i] = f[i] /\ (i # 0 => g[i - 1] = f[i - 1])
        BY <3>1
      <4>2. f[i] = IF i = 0 THEN 1 ELSE f[i - 1] * (n - i + 1)
        <5>1. i \in 0 .. k
          BY <3>1
        <5> QED
          BY <2>1, <5>1, Zenon DEF Product
      <4> QED
        BY <4>1, <4>2
    <3>2. CASE i = k + 1
      <4>1. g[i] = f[k] * (n - k) /\ g[i - 1] = f[k] /\ n - i + 1 = n - k /\ i # 0
        BY <3>2
      <4> HIDE DEF g
      <4> QED
        BY <4>1
    <3> QED
      BY <3>1, <3>2
  <2>5. Product(g, n, k + 1)
    <3>1. g = [ i \in 0 .. k + 1 |-> g[i] ]
      OBVIOUS
    <3> HIDE DEF g
    <3> QED
      BY <2>4, <3>1, Zenon DEF Product
  <2> QED
    <3> HIDE DEF g
    <3> QED
      BY <2>3, <2>5
<1>3. r \in S
  <2> HIDE DEF S
  <2> QED
    BY <1>1, <1>2, SetInduction
<1> QED
  BY <1>3

\* What the recursion says of the function's values.
LEMMA ProductValues ==
  ASSUME NEW n \in Int, NEW r \in Nat, NEW f, Product(f, n, r)
  PROVE  /\ f[0] = 1
         /\ \A i \in 0 .. r - 1 : f[i + 1] = f[i] * (n - i)
<1>1. \A i \in 0 .. r : f[i] = IF i = 0 THEN 1 ELSE f[i - 1] * (n - i + 1)
  BY Zenon DEF Product
<1>2. 0 \in 0 .. r
  OBVIOUS
<1>3. ASSUME NEW i \in 0 .. r - 1 PROVE f[i + 1] = f[i] * (n - i)
  <2>1. i + 1 \in 0 .. r /\ i + 1 # 0 /\ (i + 1) - 1 = i /\ n - (i + 1) + 1 = n - i
    OBVIOUS
  <2>2. f[i + 1] = f[(i + 1) - 1] * (n - (i + 1) + 1)
    BY <1>1, <2>1, Zenon
  <2> QED
    BY <2>1, <2>2
<1> QED
  BY <1>1, <1>2, <1>3

\* Products of fewer factors are the beginning of those of more.
LEMMA ProductsAgree ==
  ASSUME NEW n \in Int, NEW r \in Nat, NEW s \in Nat, r <= s,
         NEW f, Product(f, n, r), NEW g, Product(g, n, s)
  PROVE  \A i \in 0 .. r : f[i] = g[i]
<1> DEFINE S == { i \in Nat : i <= r => f[i] = g[i] }
<1>1. 0 \in S
  BY ProductValues
<1>2. ASSUME NEW i \in Nat, i \in S PROVE i + 1 \in S
  <2> SUFFICES ASSUME i + 1 <= r PROVE f[i + 1] = g[i + 1]
    OBVIOUS
  <2>1. i \in 0 .. r - 1 /\ i \in 0 .. s - 1 /\ f[i] = g[i]
    BY <1>2
  <2>2. f[i + 1] = f[i] * (n - i) /\ g[i + 1] = g[i] * (n - i)
    BY <2>1, ProductValues
  <2> QED
    BY <2>1, <2>2
<1>3. Nat \subseteq S
  <2> HIDE DEF S
  <2> QED
    BY <1>1, <1>2, SetInduction
<1> QED
  BY <1>3

\* MissProduct is a product, of one factor more with every block more.
LEMMA MissProductStep ==
  ASSUME NEW n \in Int, NEW r \in Nat
  PROVE  /\ MissProduct(n, r) \in Int
         /\ MissProduct(n, 0) = 1
         /\ MissProduct(n, r + 1) = MissProduct(n, r) * (n - r)
<1> DEFINE product(k) == CHOOSE f : Product(f, n, k)
<1>1. ASSUME NEW k \in Nat
      PROVE  Product(product(k), n, k) /\ MissProduct(n, k) = product(k)[k]
  <2>1. Product(product(k), n, k)
    BY ProductExists
  <2>2. MissProduct(n, k) = product(k)[k]
    BY DEF MissProduct, Product
  <2> QED
    BY <2>1, <2>2
<1> HIDE DEF product
<1>2. MissProduct(n, 0) = 1
  BY <1>1, ProductValues
<1>3. MissProduct(n, r) \in Int
  <2>1. PICK f \in [ 0 .. r -> Int ] : Product(f, n, r)
    BY ProductExists
  <2>2. product(r)[r] = f[r]
    BY <1>1, <2>1, ProductsAgree
  <2> QED
    BY <1>1, <2>1, <2>2
<1>4. MissProduct(n, r + 1) = MissProduct(n, r) * (n - r)
  <2>1. product(r + 1)[r + 1] = product(r + 1)[r] * (n - r)
    BY <1>1, ProductValues
  <2>2. product(r)[r] = product(r + 1)[r]
    BY <1>1, ProductsAgree
  <2> QED
    BY <1>1, <2>1, <2>2
<1> QED
  BY <1>2, <1>3, <1>4

\* There is a way to draw as many blocks as there are, or fewer.
LEMMA MissProductPositive ==
  ASSUME NEW n \in Nat, NEW r \in 0 .. n
  PROVE  MissProduct(n, r) \in Nat \ {0}
<1> DEFINE S == { k \in Nat : k <= n => MissProduct(n, k) \in Nat \ {0} }
<1>1. 0 \in S
  BY MissProductStep
<1>2. ASSUME NEW k \in Nat, k \in S PROVE k + 1 \in S
  <2> SUFFICES ASSUME k + 1 <= n PROVE MissProduct(n, k + 1) \in Nat \ {0}
    OBVIOUS
  <2>1. MissProduct(n, k) \in Nat \ {0} /\ n - k \in Nat \ {0}
    BY <1>2
  <2>2. \A a, b \in Nat \ {0} : a * b \in Nat \ {0}
    OBVIOUS
  <2>3. MissProduct(n, k + 1) = MissProduct(n, k) * (n - k)
    BY MissProductStep
  <2> QED
    BY <2>1, <2>2, <2>3
<1>3. Nat \subseteq S
  <2> HIDE DEF S
  <2> QED
    BY <1>1, <1>2, SetInduction
<1> QED
  BY <1>3

------------------------------------------------------------------------------
(* The rate grows with the challenge. *)

\* Reaching the target, where the rate is that of the two products.
LEMMA ReachesByProducts ==
  ASSUME NEW n \in Nat, NEW t \in 1 .. n, NEW r \in 1 .. n - t,
         NEW goal \in Int \X (Nat \ {0}), NEW rounding \in BOOLEAN
  PROVE  LET all    == MissProduct(n, r)
             missed == MissProduct(n - t, r)
             excess == (all - missed) * goal[2] - goal[1] * all
         IN  Reaches(n, t, r, goal, rounding) <=> excess > 0 \/ (excess = 0 /\ rounding)
<1> DEFINE all    == MissProduct(n, r)
           missed == MissProduct(n - t, r)
<1>1. ConfidenceRate(n, t, r) = <<all - missed, all>>
  BY DEF ConfidenceRate
<1>2. all \in Int /\ missed \in Int
  <2>1. n \in Int /\ n - t \in Int /\ r \in Nat
    OBVIOUS
  <2> QED
    BY <2>1, MissProductStep, Zenon
<1> HIDE DEF all, missed
<1>3. Reaches(n, t, r, goal, rounding) <=>
        \/ (all - missed) * goal[2] > goal[1] * all
        \/ (all - missed) * goal[2] = goal[1] * all /\ (rounding \/ r > n - t)
  BY <1>1 DEF Reaches
<1>4. (all - missed) * goal[2] \in Int /\ goal[1] * all \in Int
  BY <1>2
<1>5. ~ (r > n - t)
  OBVIOUS
<1>6. \A x, y \in Int : (x - y > 0 <=> x > y) /\ (x - y = 0 <=> x = y)
  OBVIOUS
<1>7. Reaches(n, t, r, goal, rounding) <=>
        \/ (all - missed) * goal[2] - goal[1] * all > 0
        \/ (all - missed) * goal[2] - goal[1] * all = 0 /\ rounding
  BY <1>3, <1>4, <1>5, <1>6
<1> QED
  BY <1>7 DEF all, missed

\* Reaching the target, where every challenge of that size meets a corrupted block.
LEMMA ReachesByCertainty ==
  ASSUME NEW n \in Nat, NEW t \in 1 .. n, NEW r \in 1 .. n, r > n - t,
         NEW goal \in Int \X (Nat \ {0}), NEW rounding \in BOOLEAN
  PROVE  Reaches(n, t, r, goal, rounding) <=> goal[2] >= goal[1]
<1>1. ConfidenceRate(n, t, r) = <<1, 1>>
  BY DEF ConfidenceRate
<1>2. 1 * goal[2] = goal[2] /\ goal[1] * 1 = goal[1] /\ goal[1] \in Int /\ goal[2] \in Int
  OBVIOUS
<1>3. Reaches(n, t, r, goal, rounding) <=> goal[2] > goal[1] \/ goal[2] = goal[1]
  BY <1>1, <1>2 DEF Reaches
<1> QED
  BY <1>2, <1>3

\* The excess over the target never shrinks below zero with a block more.
LEMMA ExcessGrows ==
  ASSUME NEW a \in Int, NEW b \in Nat, NEW x \in Nat \ {0}, NEW t \in Nat,
         NEW p \in Int, NEW q \in Nat
  PROVE  /\ (a * x - b * (x - t)) * q - p * (a * x)
              = ((a - b) * q - p * a) * x + (b * t) * q
         /\ (b * t) * q \in Nat
<1>1. (a * x - b * (x - t)) * q = (a * q) * x - (b * q) * x + (b * t) * q
  OBVIOUS
<1>2. ((a - b) * q - p * a) * x = (a * q) * x - (b * q) * x - (p * a) * x
  OBVIOUS
<1>3. p * (a * x) = (p * a) * x
  OBVIOUS
<1>4. b * t \in Nat
  OBVIOUS
<1>5. (b * t) * q \in Nat
  BY <1>4
<1>6. (a * q) * x \in Int /\ (b * q) * x \in Int /\ (p * a) * x \in Int
  OBVIOUS
<1> QED
  BY <1>1, <1>2, <1>3, <1>5, <1>6

\* One block more detects at least as much.
LEMMA ReachesNext ==
  ASSUME NEW n \in Nat, NEW t \in 0 .. n, NEW r \in 1 .. n - 1,
         NEW goal \in Int \X (Nat \ {0}), NEW rounding \in BOOLEAN,
         Reaches(n, t, r, goal, rounding)
  PROVE  Reaches(n, t, r + 1, goal, rounding)
<1>1. CASE t = 0
  <2>1. /\ ConfidenceRate(n, t, r) = <<0, 1>> /\ ConfidenceRate(n, t, r + 1) = <<0, 1>>
        /\ (r > n - t) = FALSE /\ (r + 1 > n - t) = FALSE
    BY <1>1 DEF ConfidenceRate
  <2> QED
    BY <2>1 DEF Reaches
<1>2. CASE t > 0 /\ r > n - t
  BY <1>2, ReachesByCertainty
<1>3. CASE t > 0 /\ r = n - t
  <2> DEFINE a == MissProduct(n, r)
             b == MissProduct(n - t, r)
             p == goal[1]
             q == goal[2]
  <2>1. a \in Nat \ {0} /\ b \in Nat \ {0} /\ p \in Int /\ q \in Nat \ {0}
    <3>1. n - t \in Nat /\ r \in 0 .. n - t /\ r \in 0 .. n
      BY <1>3
    <3> QED
      BY <3>1, MissProductPositive
  <2>2. (a - b) * q - p * a >= 0
    <3>1. (a - b) * q - p * a > 0 \/ ((a - b) * q - p * a = 0 /\ rounding)
      BY <1>3, ReachesByProducts
    <3>2. (a - b) * q - p * a \in Int
      BY <2>1
    <3> HIDE DEF a, b, p, q
    <3> QED
      BY <3>1, <3>2
  <2>3. q >= p
    <3> HIDE DEF a, b, p, q
    <3>1. (a - b) * q - p * a = (q - p) * a - b * q
      BY <2>1
    <3>2. b * q \in Nat \ {0} /\ (q - p) * a \in Int
      BY <2>1
    <3>3. (q - p) * a > 0
      BY <2>2, <3>1, <3>2
    <3>4. CASE q < p
      <4>1. p - q \in Nat /\ (p - q) * a \in Nat /\ (q - p) * a = - ((p - q) * a)
        BY <2>1, <3>4
      <4> QED
        BY <3>3, <4>1
    <3> QED
      BY <2>1, <3>4
  <2>4. r + 1 \in 1 .. n /\ r + 1 > n - t
    BY <1>3
  <2> QED
    BY <1>3, <2>3, <2>4, ReachesByCertainty
<1>4. CASE t > 0 /\ r < n - t
  <2> DEFINE a == MissProduct(n, r)
             b == MissProduct(n - t, r)
             p == goal[1]
             q == goal[2]
             x == n - r
             excess == (a - b) * q - p * a
             after  == (a * x - b * (x - t)) * q - p * (a * x)
  <2>1. /\ a \in Nat \ {0} /\ b \in Nat \ {0} /\ p \in Int /\ q \in Nat \ {0}
        /\ x \in Nat \ {0}
    <3>1. n - t \in Nat /\ r \in 0 .. n - t /\ r \in 0 .. n
      BY <1>4
    <3> QED
      BY <3>1, MissProductPositive
  <2>2. MissProduct(n, r + 1) = a * x /\ MissProduct(n - t, r + 1) = b * (x - t)
    <3>1. n \in Int /\ n - t \in Int /\ r \in Nat /\ (n - t) - r = x - t
      OBVIOUS
    <3>2. MissProduct(n, r + 1) = a * (n - r) /\ MissProduct(n - t, r + 1) = b * ((n - t) - r)
      BY <3>1, MissProductStep
    <3> QED
      BY <3>1, <3>2
  <2>3. excess > 0 \/ (excess = 0 /\ rounding)
    BY <1>4, ReachesByProducts
  <2>4. Reaches(n, t, r + 1, goal, rounding) <=> after > 0 \/ (after = 0 /\ rounding)
    <3>1. r + 1 \in 1 .. n - t
      BY <1>4
    <3>2. LET all    == MissProduct(n, r + 1)
              missed == MissProduct(n - t, r + 1)
              more   == (all - missed) * goal[2] - goal[1] * all
          IN  Reaches(n, t, r + 1, goal, rounding) <=> more > 0 \/ (more = 0 /\ rounding)
      BY <1>4, <3>1, ReachesByProducts
    <3> QED
      BY <2>2, <3>2
  <2>5. after = excess * x + (b * t) * q /\ (b * t) * q \in Nat
    <3> HIDE DEF a, b, p, q, x
    <3> QED
      BY <2>1, ExcessGrows
  <2>6. excess \in Int
    <3> HIDE DEF a, b, p, q
    <3> QED
      BY <2>1
  <2>7. (excess > 0 => excess * x > 0) /\ (excess = 0 => excess * x = 0) /\ excess * x \in Int
    <3> HIDE DEF excess, x
    <3> QED
      BY <2>1, <2>6
  <2> HIDE DEF excess, after, x, b, q
  <2>8. after > 0 \/ (after = 0 /\ rounding)
    BY <2>3, <2>5, <2>6, <2>7
  <2> QED
    BY <2>4, <2>8
<1> QED
  BY <1>1, <1>2, <1>3, <1>4

\* A larger challenge detects at least as much.
LEMMA ReachesMore ==
  ASSUME NEW n \in Nat, NEW t \in 0 .. n, NEW smaller \in 1 .. n, NEW larger \in 1 .. n,
         NEW goal \in Int \X (Nat \ {0}), NEW rounding \in BOOLEAN,
         smaller <= larger, Reaches(n, t, smaller, goal, rounding)
  PROVE  Reaches(n, t, larger, goal, rounding)
<1> DEFINE S == { d \in Nat : smaller + d <= n => Reaches(n, t, smaller + d, goal, rounding) }
<1>1. 0 \in S
  OBVIOUS
<1>2. ASSUME NEW d \in Nat, d \in S PROVE d + 1 \in S
  <2> SUFFICES ASSUME smaller + (d + 1) <= n
               PROVE  Reaches(n, t, smaller + (d + 1), goal, rounding)
    OBVIOUS
  <2>1. smaller + d \in 1 .. n - 1 /\ smaller + (d + 1) = (smaller + d) + 1
    OBVIOUS
  <2>2. Reaches(n, t, smaller + d, goal, rounding)
    BY <1>2, <2>1
  <2>3. Reaches(n, t, (smaller + d) + 1, goal, rounding)
    BY <2>1, <2>2, ReachesNext
  <2> QED
    BY <2>1, <2>3
<1>3. Nat \subseteq S
  <2> HIDE DEF S
  <2> QED
    BY <1>1, <1>2, SetInduction
<1>4. larger - smaller \in S
  <2>1. larger - smaller \in Nat
    OBVIOUS
  <2> HIDE DEF S
  <2> QED
    BY <1>3, <2>1
<1>5. smaller + (larger - smaller) = larger
  OBVIOUS
<1> QED
  BY <1>4, <1>5

------------------------------------------------------------------------------
(* The search. *)

\* The middle of a proper interval is in it, and is not its upper end.
LEMMA MiddleInside ==
  ASSUME lo \in Nat, hi \in Nat, lo < hi
  PROVE  Middle \in Nat /\ lo <= Middle /\ Middle < hi
BY DEF Middle

\* Before the first step there is nothing to bracket.
LEMMA SearchInit == InitSearch => SearchInv
<1> SUFFICES ASSUME InitSearch PROVE SearchInv
  OBVIOUS
<1>1. total \in Nat
  BY SampleSizeAssumption DEF InitSearch
<1>2. corrupted \in 0 .. total /\ (total > 0 => corrupted > 0)
  BY <1>1 DEF InitSearch
<1> QED
  BY <1>1, <1>2 DEF InitSearch, SearchInv, SearchTypeOK, SearchBracket

\* A size returned without a search is one the search would have found.
LEMMA EarlyPreserves ==
  ASSUME SearchInv, ReturnEarly
  PROVE  SearchInv'
<1> USE DEF SearchInv, SearchTypeOK, SearchBracket, ReturnEarly, Return, inputs
<1>1. target[1] \in Int /\ target[2] \in Nat \ {0}
  BY SampleSizeAssumption
<1>2. CASE Trivial /\ Return(0)
  BY <1>1, <1>2 DEF Trivial
<1>3. CASE Certain /\ Return(total)
  BY <1>1, <1>3 DEF Trivial, Certain
<1>4. CASE Hopeless /\ Return(1)
  <2>1. total \in Nat /\ total > 0 /\ corrupted = total
    BY <1>4 DEF Hopeless, Trivial
  <2> QED
    BY <1>1, <1>4, <2>1 DEF Trivial, Certain, Hopeless
<1>5. CASE ~ (Trivial \/ Certain \/ Hopeless) /\ IntactFallShort /\ Return(total)
  BY <1>1, <1>5 DEF Trivial, Certain, Hopeless
<1> QED
  BY <1>2, <1>3, <1>4, <1>5

\* The search starts with both ends of its bracket as promised.
LEMMA StartPreserves ==
  ASSUME SearchInv, StartSearch
  PROVE  SearchInv'
<1> USE DEF SearchInv, SearchTypeOK, SearchBracket, StartSearch, inputs
<1>1. target[1] \in Int /\ target[2] \in Nat \ {0}
  BY SampleSizeAssumption
<1>2. /\ total > 0 /\ 0 < corrupted /\ corrupted < total
      /\ 0 < target[1] /\ target[1] < target[2]
  BY <1>1 DEF Trivial, Certain, Hopeless
<1>3. Reaches(total, corrupted, total - corrupted, target, tie)
  BY DEF IntactFallShort
<1> QED
  BY <1>1, <1>2, <1>3

\* Halving keeps the bracket and makes it shorter.
LEMMA HalvePreserves ==
  ASSUME SearchInv, Halve
  PROVE  SearchInv' /\ hi' - lo' < hi - lo
<1> USE DEF SearchInv, SearchTypeOK, SearchBracket, Halve, inputs
<1>1. Middle \in Nat /\ lo <= Middle /\ Middle < hi
  BY MiddleInside
<1>2. CASE Reaches(total, corrupted, Middle, target, tie)
  BY <1>1, <1>2
<1>3. CASE ~ Reaches(total, corrupted, Middle, target, tie)
  <2>1. lo' = Middle + 1 /\ hi' = hi /\ lo' - 1 = Middle
    BY <1>1, <1>3
  <2> QED
    BY <1>1, <1>3, <2>1
<1> QED
  BY <1>2, <1>3

\* A bracket of one size holds the smallest that reaches the target.
LEMMA FoundPreserves ==
  ASSUME SearchInv, ReturnFound
  PROVE  SearchInv'
<1> USE DEF SearchInv, SearchTypeOK, SearchBracket, ReturnFound, Return, inputs
<1>1. lo = hi /\ 1 <= lo /\ lo <= total
  OBVIOUS
<1>2. target[1] \in Int /\ target[2] \in Nat \ {0}
  BY SampleSizeAssumption
<1> QED
  BY <1>1, <1>2

(***************************************************************************)
(* The search keeps its interval within the intact blocks and bracketed,   *)
(* and what it returns brackets the target: enough, and one less is not.   *)
(***************************************************************************)
THEOREM SearchInvariant == SpecSafeSearch => []SearchInv
<1>1. SearchInv /\ [NextSearch]_vars => SearchInv'
  <2> SUFFICES ASSUME SearchInv, [NextSearch]_vars PROVE SearchInv'
    OBVIOUS
  <2>1. CASE NextSearch
    BY <2>1, EarlyPreserves, StartPreserves, HalvePreserves, FoundPreserves DEF NextSearch
  <2>2. CASE UNCHANGED vars
    BY <2>2 DEF SearchInv, SearchTypeOK, SearchBracket, vars, inputs
  <2> QED
    BY <2>1, <2>2
<1> QED
  BY SearchInit, <1>1, PTL DEF SpecSafeSearch

\* The challenge size returned reaches the target (inverseSampleSize).
THEOREM SizeReachesTarget == SpecSafeSearch => []SizeSuffices
<1>1. SearchInv => SizeSuffices
  <2> SUFFICES ASSUME SearchInv, pc = "returned", Proper
               PROVE  Reaches(total, corrupted, size, target, tie)
    BY DEF SizeSuffices
  <2>1. /\ total \in Nat /\ corrupted \in 1 .. total /\ tie \in BOOLEAN
        /\ size \in 0 .. total
        /\ target \in Int \X (Nat \ {0}) /\ target[1] <= target[2]
    BY SampleSizeAssumption DEF SearchInv, SearchTypeOK, Proper
  <2>2. CASE size > 0 /\ size > total - corrupted
    BY <2>1, <2>2, ReachesByCertainty
  <2>3. CASE ~ (size > 0 /\ size > total - corrupted)
    BY <2>1, <2>3 DEF SearchInv, Proper
  <2> QED
    BY <2>2, <2>3
<1> QED
  BY SearchInvariant, <1>1, PTL

(***************************************************************************)
(* A larger challenge detects at least as much, for files of any size, up  *)
(* to the boundary of certainty and across it.                             *)
(***************************************************************************)
THEOREM RateIsMonotone == SpecSafeSearch => []ReachMonotone
<1>1. SearchInv => ReachMonotone
  <2> SUFFICES ASSUME SearchInv,
                      NEW smaller \in 1 .. total, NEW larger \in 1 .. total,
                      smaller <= larger, Reaches(total, corrupted, smaller, target, tie)
               PROVE  Reaches(total, corrupted, larger, target, tie)
    BY DEF ReachMonotone
  <2>1. /\ total \in Nat /\ corrupted \in 0 .. total
        /\ target \in Int \X (Nat \ {0}) /\ tie \in BOOLEAN
    BY SampleSizeAssumption DEF SearchInv, SearchTypeOK
  <2> QED
    BY <2>1, ReachesMore
<1> QED
  BY SearchInvariant, <1>1, PTL

\* The size is the smallest one among the intact blocks, as the rate is monotone.
THEOREM SizeIsSmallest == SpecSafeSearch => []SizeSmallestAmongIntact
<1>1. SearchInv /\ ReachMonotone => SizeSmallestAmongIntact
  <2> SUFFICES ASSUME SearchInv, ReachMonotone, pc = "returned", Proper,
                      size <= total - corrupted,
                      NEW r \in 1 .. size - 1
               PROVE  ~ Reaches(total, corrupted, r, target, tie)
    BY DEF SizeSmallestAmongIntact
  <2>1. /\ total \in Nat /\ corrupted \in 1 .. total /\ size \in 0 .. total
        /\ target[1] \in Int /\ target[2] \in Nat \ {0}
    BY SampleSizeAssumption DEF SearchInv, SearchTypeOK, Proper
  <2>2. size # total /\ size - 1 \in 1 .. total /\ r <= size - 1 /\ r \in 1 .. total
    BY <2>1
  <2>3. ~ Reaches(total, corrupted, size - 1, target, tie)
    BY <2>1, <2>2 DEF SearchInv, Proper
  <2> QED
    BY <2>2, <2>3 DEF ReachMonotone
<1> QED
  BY SearchInvariant, RateIsMonotone, <1>1, PTL

\* Every turn of the search narrows its interval, for files of any size.
THEOREM SearchNarrows == SpecSafeSearch => SearchShrinks
<1>1. SearchInv /\ [NextSearch]_vars =>
        [ pc = "search" /\ pc' = "search" => hi' - lo' < hi - lo ]_vars
  <2> SUFFICES ASSUME SearchInv, NextSearch, pc = "search", pc' = "search"
               PROVE  hi' - lo' < hi - lo
    OBVIOUS
  <2>1. Halve
    BY DEF NextSearch, ReturnEarly, StartSearch, ReturnFound, Return
  <2> QED
    BY <2>1, HalvePreserves
<1> QED
  BY SearchInvariant, <1>1, PTL DEF SpecSafeSearch, SearchShrinks

------------------------------------------------------------------------------
(* How many challenges there are. *)

\* The challenges of r blocks of a finite set, counted.
Ways(r, S) == Cardinality(kSubset(r, S))

\* They are finitely many.
LEMMA WaysType ==
  ASSUME NEW S, IsFiniteSet(S), NEW r
  PROVE  IsFiniteSet(kSubset(r, S)) /\ Ways(r, S) \in Nat
<1>1. IsFiniteSet(SUBSET S)
  BY FS_SUBSET
<1>2. kSubset(r, S) \in SUBSET SUBSET S
  BY DEF kSubset
<1>3. IsFiniteSet(kSubset(r, S))
  BY <1>1, <1>2, FS_Subset
<1> QED
  BY <1>3, FS_CardinalityType DEF Ways

\* There is one challenge of no block.
LEMMA WaysOfNone ==
  ASSUME NEW S, IsFiniteSet(S)
  PROVE  Ways(0, S) = 1
<1>1. \A s \in SUBSET S : Cardinality(s) = 0 <=> s = {}
  <2>1. \A s \in SUBSET S : IsFiniteSet(s)
    BY FS_Subset
  <2> QED
    BY <2>1, FS_EmptySet
<1>2. kSubset(0, S) = {{}}
  BY <1>1 DEF kSubset
<1> QED
  BY <1>2, FS_Singleton DEF Ways

\* And none of any block of no blocks.
LEMMA WaysOfEmpty ==
  ASSUME NEW r \in Nat
  PROVE  Ways(r + 1, {}) = 0
<1>1. \A s \in SUBSET {} : Cardinality(s) = 0
  BY FS_EmptySet
<1>2. r + 1 # 0
  OBVIOUS
<1>3. kSubset(r + 1, {}) = {}
  BY <1>1, <1>2 DEF kSubset
<1> QED
  BY <1>3, FS_EmptySet DEF Ways

\* A challenge with the block x, and the rest of it.
LEMMA ChallengeWithBlock ==
  ASSUME NEW S, IsFiniteSet(S), NEW x, x \notin S, NEW r \in Nat
  PROVE  Cardinality({ s \in kSubset(r + 1, S \cup {x}) : x \in s }) = Ways(r, S)
<1> DEFINE A == kSubset(r, S)
           B == { s \in kSubset(r + 1, S \cup {x}) : x \in s }
           f == [ s \in A |-> s \cup {x} ]
<1>1. ASSUME NEW s \in A PROVE s \cup {x} \in B
  <2>1. s \in SUBSET S /\ Cardinality(s) = r /\ x \notin s
    BY DEF kSubset
  <2>2. IsFiniteSet(s)
    BY <2>1, FS_Subset
  <2>3. Cardinality(s \cup {x}) = r + 1
    BY <2>1, <2>2, FS_AddElement
  <2> QED
    BY <2>1, <2>3 DEF kSubset
<1>2. f \in [ A -> B ]
  <2> HIDE DEF A, B
  <2> QED
    BY <1>1
<1>3. ASSUME NEW s \in A, NEW u \in A, f[s] = f[u] PROVE s = u
  <2>1. x \notin s /\ x \notin u
    BY DEF kSubset
  <2>2. s \cup {x} = u \cup {x}
    BY <1>3
  <2> QED
    BY <2>1, <2>2
<1>4. ASSUME NEW b \in B PROVE \E s \in A : f[s] = b
  <2> DEFINE s == b \ {x}
  <2>1. b \in SUBSET (S \cup {x}) /\ Cardinality(b) = r + 1 /\ x \in b
    BY DEF kSubset
  <2>2. IsFiniteSet(b)
    <3>1. IsFiniteSet(S \cup {x})
      BY FS_AddElement
    <3> QED
      BY <2>1, <3>1, FS_Subset
  <2>3. Cardinality(s) = (r + 1) - 1
    BY <2>1, <2>2, FS_RemoveElement
  <2>4. s \in A
    BY <2>1, <2>3 DEF kSubset
  <2>5. f[s] = b
    <3>1. s \cup {x} = b
      BY <2>1
    <3> HIDE DEF s, A
    <3> QED
      BY <2>4, <3>1
  <2> QED
    BY <2>4, <2>5
<1>5. f \in Bijection(A, B)
  <2> HIDE DEF f, A, B
  <2> QED
    BY <1>2, <1>3, <1>4 DEF Bijection, Injection, Surjection, IsInjective
<1>6. Cardinality(B) = Cardinality(A)
  <2>1. IsFiniteSet(A)
    BY WaysType
  <2> HIDE DEF f, A, B
  <2> QED
    BY <1>5, <2>1, FS_Bijection DEF ExistsBijection
<1> QED
  BY <1>6 DEF Ways

\* The challenges of one block more: without it, or with it.
LEMMA WaysOfOneMore ==
  ASSUME NEW S, IsFiniteSet(S), NEW x, x \notin S, NEW r \in Nat
  PROVE  Ways(r + 1, S \cup {x}) = Ways(r + 1, S) + Ways(r, S)
<1> DEFINE A == kSubset(r + 1, S)
           B == { s \in kSubset(r + 1, S \cup {x}) : x \in s }
           C == kSubset(r + 1, S \cup {x})
<1>1. C = A \cup B /\ A \cap B = {}
  <2>1. \A s : s \in SUBSET S <=> s \in SUBSET (S \cup {x}) /\ x \notin s
    OBVIOUS
  <2>2. \A s : s \in A <=> s \in C /\ x \notin s
    BY <2>1 DEF kSubset
  <2>3. \A s : s \in B <=> s \in C /\ x \in s
    OBVIOUS
  <2> HIDE DEF A, B, C
  <2> QED
    BY <2>2, <2>3
<1>2. IsFiniteSet(A) /\ IsFiniteSet(B)
  <2>1. IsFiniteSet(S \cup {x})
    BY FS_AddElement
  <2>2. IsFiniteSet(C) /\ IsFiniteSet(A)
    BY <2>1, WaysType
  <2>3. B \in SUBSET C
    OBVIOUS
  <2> HIDE DEF A, B, C
  <2> QED
    BY <2>2, <2>3, FS_Subset
<1>3. Cardinality(B) = Ways(r, S)
  BY ChallengeWithBlock
<1>4. Cardinality(C) = Cardinality(A) + Cardinality(B)
  <2> HIDE DEF A, B, C
  <2>1. Cardinality(A \cap B) = 0
    BY <1>1, FS_EmptySet
  <2>2. Cardinality(A) \in Nat /\ Cardinality(B) \in Nat
    BY <1>2, FS_CardinalityType
  <2>3. Cardinality(A \cup B) = Cardinality(A) + Cardinality(B) - Cardinality(A \cap B)
    BY <1>2, FS_Union
  <2> QED
    BY <1>1, <2>1, <2>2, <2>3
<1> QED
  BY <1>3, <1>4 DEF Ways

\* The numbers the identity of the next lemma is about.
LEMMA WaysArithmetic ==
  ASSUME NEW m \in Nat, NEW r \in Nat, NEW a \in Nat, NEW b \in Nat, NEW c \in Nat,
         a * (r + 2) = b * (m - (r + 1)), b * (r + 1) = c * (m - r)
  PROVE  (a + b) * (r + 2) = (b + c) * ((m + 1) - (r + 1))
<1>1. (a + b) * (r + 2) = a * (r + 2) + b * (r + 2)
  OBVIOUS
<1>2. b * (m - (r + 1)) + b * (r + 2) = b * (m - r) + b * (r + 1)
  <2>1. b * (m - (r + 1)) = b * m - b * (r + 1)
    OBVIOUS
  <2>2. b * (m - r) = b * m - b * r
    OBVIOUS
  <2>3. b * (r + 1) = b * r + b /\ b * (r + 2) = b * r + b + b
    OBVIOUS
  <2>4. b * m \in Int /\ b * r \in Int
    OBVIOUS
  <2> QED
    BY <2>1, <2>2, <2>3, <2>4
<1>3. (b + c) * ((m + 1) - (r + 1)) = b * (m - r) + c * (m - r)
  <2>1. (m + 1) - (r + 1) = m - r
    OBVIOUS
  <2>2. (b + c) * (m - r) = b * (m - r) + c * (m - r)
    OBVIOUS
  <2> QED
    BY <2>1, <2>2
<1> QED
  BY <1>1, <1>2, <1>3

(***************************************************************************)
(* One block more in a challenge: each challenge of r + 1 blocks is one of *)
(* r blocks and one of the m - r others, in r + 1 ways.  By induction on   *)
(* the number of blocks there are.                                         *)
(***************************************************************************)
LEMMA WaysStep ==
  ASSUME NEW S, IsFiniteSet(S), NEW r \in Nat
  PROVE  Ways(r + 1, S) * (r + 1) = Ways(r, S) * (Cardinality(S) - r)
<1> DEFINE I == { m \in Nat : \A T : IsFiniteSet(T) /\ Cardinality(T) = m =>
                                \A k \in Nat : Ways(k + 1, T) * (k + 1) = Ways(k, T) * (m - k) }
<1>1. 0 \in I
  <2> SUFFICES ASSUME NEW T, IsFiniteSet(T), Cardinality(T) = 0, NEW k \in Nat
               PROVE  Ways(k + 1, T) * (k + 1) = Ways(k, T) * (0 - k)
    OBVIOUS
  <2>1. T = {}
    BY FS_EmptySet
  <2>2. Ways(k + 1, T) = 0
    BY <2>1, WaysOfEmpty
  <2>3. CASE k = 0
    <3>1. Ways(k, T) = 1
      BY <2>3, WaysOfNone
    <3> QED
      BY <2>2, <2>3, <3>1
  <2>4. CASE k # 0
    <3>1. k - 1 \in Nat /\ (k - 1) + 1 = k
      BY <2>4
    <3>2. Ways((k - 1) + 1, T) = 0
      BY <2>1, <3>1, WaysOfEmpty
    <3>3. Ways(k, T) = 0
      BY <3>1, <3>2
    <3> QED
      BY <2>2, <3>3
  <2> QED
    BY <2>3, <2>4
<1>2. ASSUME NEW m \in Nat, m \in I PROVE m + 1 \in I
  <2> SUFFICES ASSUME NEW T, IsFiniteSet(T), Cardinality(T) = m + 1, NEW k \in Nat
               PROVE  Ways(k + 1, T) * (k + 1) = Ways(k, T) * ((m + 1) - k)
    OBVIOUS
  <2>1. PICK x : x \in T
    BY FS_EmptySet
  <2> DEFINE U == T \ {x}
  <2>2. IsFiniteSet(U) /\ Cardinality(U) = m /\ x \notin U /\ T = U \cup {x}
    <3>1. IsFiniteSet(U) /\ Cardinality(U) = Cardinality(T) - 1
      BY <2>1, FS_RemoveElement
    <3>2. x \notin U /\ T = U \cup {x}
      BY <2>1
    <3> HIDE DEF U
    <3> QED
      BY <3>1, <3>2
  <2> HIDE DEF U
  <2>3. \A j \in Nat : Ways(j + 1, U) * (j + 1) = Ways(j, U) * (m - j)
    BY <1>2, <2>2
  <2>4. \A j \in Nat : Ways(j + 1, T) = Ways(j + 1, U) + Ways(j, U)
    BY <2>2, WaysOfOneMore
  <2>5. \A j : Ways(j, U) \in Nat
    BY <2>2, WaysType
  <2>6. CASE k = 0
    <3>1. Ways(0, T) = 1 /\ Ways(0, U) = 1
      BY <2>2, WaysOfNone
    <3>2. Ways(0 + 1, U) * (0 + 1) = Ways(0, U) * (m - 0)
      BY <2>3
    <3>3. Ways(0 + 1, T) = Ways(0 + 1, U) + Ways(0, U)
      BY <2>4
    <3>4. Ways(0 + 1, U) \in Nat
      BY <2>5
    <3> QED
      BY <2>6, <3>1, <3>2, <3>3, <3>4
  <2>7. CASE k # 0
    <3>1. PICK j \in Nat : k = j + 1
      <4>1. k - 1 \in Nat /\ k = (k - 1) + 1
        BY <2>7
      <4> QED
        BY <4>1
    <3> DEFINE a == Ways(k + 1, U)
               b == Ways(k, U)
               c == Ways(j, U)
    <3>2. a \in Nat /\ b \in Nat /\ c \in Nat
      BY <2>5
    <3>3. Ways(k + 1, T) = a + b /\ Ways(k, T) = b + c
      BY <2>4, <3>1
    <3>4. a * (j + 2) = b * (m - (j + 1)) /\ b * (j + 1) = c * (m - j)
      <4>1. a * (k + 1) = b * (m - k)
        BY <2>3
      <4>2. b * (j + 1) = c * (m - j)
        BY <2>3, <3>1
      <4>3. k + 1 = j + 2 /\ m - k = m - (j + 1)
        BY <3>1
      <4> HIDE DEF a, b, c
      <4> QED
        BY <4>1, <4>2, <4>3
    <3> HIDE DEF a, b, c
    <3>5. (a + b) * (j + 2) = (b + c) * ((m + 1) - (j + 1))
      BY <3>2, <3>4, WaysArithmetic
    <3>6. k + 1 = j + 2 /\ (m + 1) - k = (m + 1) - (j + 1)
      BY <3>1
    <3> QED
      BY <3>3, <3>5, <3>6
  <2> QED
    BY <2>6, <2>7
<1>3. Cardinality(S) \in I
  <2>1. Cardinality(S) \in Nat
    BY FS_CardinalityType
  <2> HIDE DEF I
  <2> QED
    BY <1>1, <1>2, <2>1, SetInduction
<1> QED
  BY <1>3

\* Equal multiples are multiples of equals.
LEMMA CancelFactor ==
  ASSUME NEW u \in Int, NEW v \in Int, NEW s \in Nat \ {0}, u * s = v * s
  PROVE  u = v
<1>1. CASE u < v
  <2>1. PICK d \in Nat : v = u + d + 1
    <3>1. v - u - 1 \in Nat /\ v = u + (v - u - 1) + 1
      BY <1>1
    <3> QED
      BY <3>1
  <2>2. v * s = u * s + d * s + s /\ d * s \in Nat /\ u * s \in Int
    BY <2>1
  <2> QED
    BY <2>2
<1>2. CASE v < u
  <2>1. PICK d \in Nat : u = v + d + 1
    <3>1. u - v - 1 \in Nat /\ u = v + (u - v - 1) + 1
      BY <1>2
    <3> QED
      BY <3>1
  <2>2. u * s = v * s + d * s + s /\ d * s \in Nat /\ v * s \in Int
    BY <2>1
  <2> QED
    BY <2>2
<1> QED
  BY <1>1, <1>2

\* Equal proportions stay equal when both sides take one factor more.
LEMMA ProportionStep ==
  ASSUME NEW a \in Int, NEW b \in Int, NEW p \in Int, NEW q \in Int, NEW s \in Nat \ {0},
         NEW x \in Int, NEW y \in Int, NEW w \in Int, NEW z \in Int,
         a * y = b * x, w * s = x * p, z * s = y * q
  PROVE  (a * p) * z = (b * q) * w
<1> DEFINE u == (a * p) * z
           v == (b * q) * w
<1>1. u * s = (a * p) * (y * q)
  <2>1. u * s = (a * p) * (z * s)
    OBVIOUS
  <2> QED
    BY <2>1
<1>2. v * s = (b * q) * (x * p)
  <2>1. v * s = (b * q) * (w * s)
    OBVIOUS
  <2> QED
    BY <2>1
<1>3. (a * p) * (y * q) = (a * y) * (p * q)
  OBVIOUS
<1>4. (b * q) * (x * p) = (b * x) * (p * q)
  OBVIOUS
<1>5. u * s = v * s
  <2> HIDE DEF u, v
  <2> QED
    BY <1>1, <1>2, <1>3, <1>4
<1>6. u \in Int /\ v \in Int
  OBVIOUS
<1>7. u = v
  <2> HIDE DEF u, v
  <2> QED
    BY <1>5, <1>6, CancelFactor
<1> QED
  BY <1>7

\* Of two files, the ways to draw r blocks one after the other are in the proportion of the
\* challenges of r blocks.
LEMMA DrawsInProportion ==
  ASSUME NEW S, IsFiniteSet(S), NEW T, IsFiniteSet(T), NEW r \in Nat
  PROVE  MissProduct(Cardinality(S), r) * Ways(r, T) = MissProduct(Cardinality(T), r) * Ways(r, S)
<1> DEFINE n == Cardinality(S)
           k == Cardinality(T)
           I == { i \in Nat : MissProduct(n, i) * Ways(i, T) = MissProduct(k, i) * Ways(i, S) }
<1>1. n \in Nat /\ k \in Nat
  BY FS_CardinalityType
<1>2. 0 \in I
  <2>1. MissProduct(n, 0) = 1 /\ MissProduct(k, 0) = 1
    BY <1>1, MissProductStep
  <2>2. Ways(0, S) = 1 /\ Ways(0, T) = 1
    BY WaysOfNone
  <2> HIDE DEF n, k
  <2> QED
    BY <2>1, <2>2
<1>3. ASSUME NEW i \in Nat, i \in I PROVE i + 1 \in I
  <2> DEFINE a == MissProduct(n, i)
             b == MissProduct(k, i)
             x == Ways(i, S)
             y == Ways(i, T)
             w == Ways(i + 1, S)
             z == Ways(i + 1, T)
             p == n - i
             q == k - i
             s == i + 1
  <2>1. a \in Int /\ b \in Int /\ MissProduct(n, i + 1) = a * p /\ MissProduct(k, i + 1) = b * q
    <3> HIDE DEF n, k
    <3> QED
      BY <1>1, MissProductStep
  <2>2. x \in Int /\ y \in Int /\ w \in Int /\ z \in Int
    <3>1. x \in Nat /\ y \in Nat /\ w \in Nat /\ z \in Nat
      BY WaysType
    <3> HIDE DEF x, y, w, z
    <3> QED
      BY <3>1
  <2>3. a * y = b * x
    BY <1>3
  <2>4. w * s = x * p /\ z * s = y * q
    BY WaysStep
  <2>5. p \in Int /\ q \in Int /\ s \in Nat \ {0}
    <3> HIDE DEF n, k
    <3> QED
      BY <1>1
  <2>6. (a * p) * z = (b * q) * w
    <3> HIDE DEF a, b, x, y, w, z, p, q, s
    <3> QED
      BY <2>1, <2>2, <2>3, <2>4, <2>5, ProportionStep
  <2>7. MissProduct(n, i + 1) * Ways(i + 1, T) = MissProduct(k, i + 1) * Ways(i + 1, S)
    <3> HIDE DEF a, b, p, q, n, k
    <3> QED
      BY <2>1, <2>6
  <2> QED
    BY <2>7
<1>4. r \in I
  <2> HIDE DEF I
  <2> QED
    BY <1>2, <1>3, SetInduction
<1> QED
  BY <1>4

\* The challenges that miss the corrupted blocks are those of the intact ones.
LEMMA MissedAreIntact ==
  ASSUME NEW n \in Nat, NEW t \in 0 .. n, NEW r
  PROVE  /\ Missed(n, t, r) = kSubset(r, t + 1 .. n)
         /\ IsFiniteSet(t + 1 .. n) /\ Cardinality(t + 1 .. n) = n - t
         /\ IsFiniteSet(1 .. n) /\ Cardinality(1 .. n) = n
<1>1. ASSUME NEW c
      PROVE  c \in SUBSET (1 .. n) /\ c \cap (1 .. t) = {} <=> c \in SUBSET (t + 1 .. n)
  <2>1. \A i : i \in 1 .. n /\ i \notin 1 .. t <=> i \in t + 1 .. n
    OBVIOUS
  <2> QED
    BY <2>1
<1>2. Missed(n, t, r) = kSubset(r, t + 1 .. n)
  BY <1>1 DEF Missed, Challenges, kSubset
<1>3. IsFiniteSet(t + 1 .. n) /\ Cardinality(t + 1 .. n) = n - t
  <2>1. t + 1 \in Int /\ n \in Int /\ (t + 1 > n <=> n - t = 0) /\ n - (t + 1) + 1 = n - t
    OBVIOUS
  <2> QED
    BY <2>1, FS_Interval
<1>4. IsFiniteSet(1 .. n) /\ Cardinality(1 .. n) = n
  <2>1. 1 \in Int /\ n \in Int /\ (1 > n <=> n = 0) /\ n - 1 + 1 = n
    OBVIOUS
  <2> QED
    BY <2>1, FS_Interval
<1> QED
  BY <1>2, <1>3, <1>4

\* No challenge has more blocks than there are.
LEMMA NoWayBeyond ==
  ASSUME NEW S, IsFiniteSet(S), NEW r \in Nat, r > Cardinality(S)
  PROVE  Ways(r, S) = 0
<1>1. \A s \in SUBSET S : Cardinality(s) # r
  <2> SUFFICES ASSUME NEW s \in SUBSET S PROVE Cardinality(s) # r
    OBVIOUS
  <2>1. Cardinality(s) <= Cardinality(S)
    BY FS_Subset
  <2>2. IsFiniteSet(s)
    BY FS_Subset
  <2>3. Cardinality(s) \in Nat /\ Cardinality(S) \in Nat
    BY <2>2, FS_CardinalityType
  <2> QED
    BY <2>1, <2>3
<1>2. kSubset(r, S) = {}
  BY <1>1 DEF kSubset
<1> QED
  BY <1>2, FS_EmptySet DEF Ways

\* A rate is hypergeometric if it is the share of the challenges that do not miss.
RateIsShare(rate, all, missed) ==
  rate[2] > 0 /\ rate[1] * all = (all - missed) * rate[2]

\* The three forms of the confidence rate.
LEMMA RateIsItsShare ==
  ASSUME NEW n \in Nat, NEW t \in 0 .. n, NEW r \in 0 .. n
  PROVE  RateIsShare(ConfidenceRate(n, t, r), Ways(r, 1 .. n), Ways(r, t + 1 .. n))
<1> DEFINE rate   == ConfidenceRate(n, t, r)
           all    == Ways(r, 1 .. n)
           missed == Ways(r, t + 1 .. n)
<1>1. /\ IsFiniteSet(t + 1 .. n) /\ Cardinality(t + 1 .. n) = n - t
      /\ IsFiniteSet(1 .. n) /\ Cardinality(1 .. n) = n
  BY MissedAreIntact
<1>2. all \in Nat /\ missed \in Nat
  BY <1>1, WaysType
<1>3. CASE n = 0 \/ r = 0 \/ t = 0
  <2>1. rate = <<0, 1>>
    BY <1>3 DEF ConfidenceRate
  <2>2. all = missed
    <3>1. CASE r = 0
      BY <1>1, <3>1, WaysOfNone
    <3>2. CASE t = 0
      <4>1. t + 1 = 1
        BY <3>2
      <4> QED
        BY <4>1
    <3>3. n = 0 => t = 0
      OBVIOUS
    <3> QED
      BY <1>3, <3>1, <3>2, <3>3
  <2> HIDE DEF rate, all, missed
  <2>3. RateIsShare(rate, all, missed)
    BY <1>2, <2>1, <2>2 DEF RateIsShare
  <2> QED
    BY <2>3 DEF rate, all, missed
<1>4. CASE ~ (n = 0 \/ r = 0 \/ t = 0) /\ r > n - t
  <2>1. rate = <<1, 1>>
    BY <1>4 DEF ConfidenceRate
  <2>2. missed = 0
    <3>1. r \in Nat /\ r > Cardinality(t + 1 .. n)
      BY <1>1, <1>4
    <3> QED
      BY <1>1, <3>1, NoWayBeyond
  <2> HIDE DEF rate, all, missed
  <2>3. RateIsShare(rate, all, missed)
    BY <1>2, <2>1, <2>2 DEF RateIsShare
  <2> QED
    BY <2>3 DEF rate, all, missed
<1>5. CASE ~ (n = 0 \/ r = 0 \/ t = 0) /\ ~ r > n - t
  <2> DEFINE draws == MissProduct(n, r)
             spare == MissProduct(n - t, r)
  <2>1. rate = <<draws - spare, draws>>
    BY <1>5 DEF ConfidenceRate
  <2>2. draws \in Nat \ {0} /\ spare \in Nat \ {0}
    <3>1. r \in 0 .. n - t /\ n - t \in Nat
      BY <1>5
    <3> QED
      BY <3>1, MissProductPositive
  <2>3. draws * missed = spare * all
    <3>1. r \in Nat
      OBVIOUS
    <3>2. MissProduct(Cardinality(1 .. n), r) * Ways(r, t + 1 .. n)
            = MissProduct(Cardinality(t + 1 .. n), r) * Ways(r, 1 .. n)
      BY <1>1, <3>1, DrawsInProportion
    <3> QED
      BY <1>1, <3>2
  <2> HIDE DEF rate, all, missed, draws, spare
  <2>4. (draws - spare) * all = draws * all - spare * all
    BY <1>2, <2>2
  <2>5. (all - missed) * draws = draws * all - draws * missed
    BY <1>2, <2>2
  <2>6. RateIsShare(rate, all, missed)
    BY <2>1, <2>2, <2>3, <2>4, <2>5 DEF RateIsShare
  <2> QED
    BY <2>6 DEF rate, all, missed
<1> QED
  BY <1>3, <1>4, <1>5

(***************************************************************************)
(* The confidence rate is the hypergeometric probability, for files of any *)
(* size: the product of quotients the code accumulates, with its three     *)
(* early returns, is the share of all challenges of so many blocks that    *)
(* meet a corrupted one, counted as sets.                                  *)
(***************************************************************************)
THEOREM RateIsCounted == SpecSafeSearch => []RateIsHypergeometric
<1>1. SearchInv => RateIsHypergeometric
  <2> SUFFICES ASSUME SearchInv, NEW t \in 0 .. total, NEW r \in 0 .. total
               PROVE  RateIsShare(ConfidenceRate(total, t, r), Cardinality(Challenges(total, r)),
                                  Cardinality(Missed(total, t, r)))
    BY Zenon DEF RateIsHypergeometric, RateIsShare
  <2>1. total \in Nat
    BY DEF SearchInv, SearchTypeOK
  <2>2. Cardinality(Challenges(total, r)) = Ways(r, 1 .. total)
    BY DEF Challenges, Ways
  <2>3. Cardinality(Missed(total, t, r)) = Ways(r, t + 1 .. total)
    BY <2>1, MissedAreIntact DEF Ways
  <2>4. RateIsShare(ConfidenceRate(total, t, r), Ways(r, 1 .. total), Ways(r, t + 1 .. total))
    BY <2>1, RateIsItsShare
  <2> QED
    BY <2>2, <2>3, <2>4
<1> QED
  BY <1>1, SearchInvariant, PTL
==============================================================================
