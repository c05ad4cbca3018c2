----------------------------- MODULE SampleSize ------------------------------
(***************************************************************************)
(* theoreticalConfidenceRate and inverseSampleSize                         *)
(* (benchmark_computation_strategy.cpp): the probability that a challenge  *)
(* of some blocks meets a corrupted one, and the binary search for the     *)
(* smallest challenge that reaches a target probability.                   *)
(*                                                                         *)
(* Probabilities are exact fractions <<numerator, denominator>>.  The code *)
(* adds up logarithms: its rounding can decide a comparison only when the  *)
(* two sides are equal, so a tie goes either way (the variable tie).       *)
(***************************************************************************)
EXTENDS Integers, FiniteSetsExt

CONSTANTS
  BlockCounts,   \* values of totalBlocks
  Targets        \* values of targetConfidence, as fractions

ASSUME SampleSizeAssumption ==
  /\ BlockCounts \subseteq Nat
  /\ Targets \subseteq Int \X (Nat \ {0})

------------------------------------------------------------------------------
(* The confidence rate. *)

\* Mutated form of MissProduct: the first draw is from one block too many.
MissProductShifted(n, r) ==
  LET product[i \in 0 .. r] == IF i = 0 THEN 1 ELSE product[i - 1] * (n - i + 2)
  IN  product[r]

\* n * (n - 1) * ... : the ways to draw r blocks of n, one after the other.
MissProduct(n, r) ==
  LET product[i \in 0 .. r] == IF i = 0 THEN 1 ELSE product[i - 1] * (n - i + 1)
  IN  product[r]

\* Mutated form of ConfidenceRate: more blocks than are intact count as none.
ConfidenceRateOverdrawn(n, t, r) ==
  IF n = 0 \/ r = 0 \/ t = 0 \/ r > n - t THEN <<0, 1>>
  ELSE LET all == MissProduct(n, r) IN <<all - MissProduct(n - t, r), all>>

\* 1 minus the probability that all r challenged blocks are among the intact ones.
ConfidenceRate(n, t, r) ==
  IF n = 0 \/ r = 0 \/ t = 0 THEN <<0, 1>>
  ELSE IF r > n - t THEN <<1, 1>>
  ELSE LET all == MissProduct(n, r) IN <<all - MissProduct(n - t, r), all>>

\* theoreticalConfidenceRate(n, t, r) >= target; the rate is rounded unless it is certainty.
Reaches(n, t, r, goal, rounding) ==
  LET rate  == ConfidenceRate(n, t, r)
      left  == rate[1] * goal[2]
      right == goal[1] * rate[2]
  IN  left > right \/ (left = right /\ (rounding \/ r > n - t))

------------------------------------------------------------------------------
(* The search. *)

VARIABLES
  total,      \* totalBlocks
  corrupted,  \* corruptedBlocks: the caller keeps it within 1 .. total
  target,     \* targetConfidence
  tie,        \* how rounding decides a comparison of equals
  pc, lo, hi, size

inputs == <<total, corrupted, target, tie>>
vars   == <<inputs, pc, lo, hi, size>>

InitSearch ==
  /\ total \in BlockCounts
  /\ corrupted \in IF total = 0 THEN {0} ELSE 1 .. total
  /\ target \in Targets
  /\ tie \in BOOLEAN
  /\ pc = "start" /\ lo = 1 /\ hi = 0 /\ size = 0

Return(r) == pc' = "returned" /\ size' = r /\ UNCHANGED <<inputs, lo, hi>>

Trivial  == total = 0 \/ corrupted = 0 \/ target[1] <= 0
Certain  == ~ Trivial /\ target[1] >= target[2]
Hopeless == ~ Trivial /\ ~ Certain /\ corrupted >= total

\* All the intact blocks together do not reach the target.
IntactFallShort == ~ Reaches(total, corrupted, total - corrupted, target, tie)

ReturnEarly ==
  /\ pc = "start"
  /\ \/ Trivial  /\ Return(0)
     \/ Certain  /\ Return(total)
     \/ Hopeless /\ Return(1)
     \/ /\ ~ (Trivial \/ Certain \/ Hopeless)
        /\ IntactFallShort
        /\ Return(total)

StartSearch ==
  /\ pc = "start"
  /\ ~ (Trivial \/ Certain \/ Hopeless) /\ ~ IntactFallShort
  /\ pc' = "search" /\ lo' = 1 /\ hi' = total - corrupted
  /\ UNCHANGED <<inputs, size>>

Middle == lo + (hi - lo) \div 2

\* Mutated form of Halve: a middle that falls short is kept as the lower end.
HalveKeepsMiddle ==
  /\ pc = "search" /\ lo < hi
  /\ IF Reaches(total, corrupted, Middle, target, tie)
     THEN hi' = Middle /\ UNCHANGED lo
     ELSE lo' = Middle /\ UNCHANGED hi
  /\ UNCHANGED <<inputs, pc, size>>

\* Mutated form of Halve: a middle that suffices is dropped.
HalveDropsMiddle ==
  /\ pc = "search" /\ lo < hi
  /\ IF Reaches(total, corrupted, Middle, target, tie)
     THEN hi' = Middle - 1 /\ UNCHANGED lo
     ELSE lo' = Middle + 1 /\ UNCHANGED hi
  /\ UNCHANGED <<inputs, pc, size>>

\* Mutated form of Halve: the comparison is the wrong way around at the lower end.
HalveSkipsOne ==
  /\ pc = "search" /\ lo < hi
  /\ IF Reaches(total, corrupted, Middle, target, tie)
     THEN hi' = Middle /\ UNCHANGED lo
     ELSE lo' = (IF Middle + 2 > hi THEN hi ELSE Middle + 2) /\ UNCHANGED hi
  /\ UNCHANGED <<inputs, pc, size>>

Halve ==
  /\ pc = "search" /\ lo < hi
  /\ IF Reaches(total, corrupted, Middle, target, tie)
     THEN hi' = Middle /\ UNCHANGED lo
     ELSE lo' = Middle + 1 /\ UNCHANGED hi
  /\ UNCHANGED <<inputs, pc, size>>

ReturnFound == pc = "search" /\ lo >= hi /\ Return(lo)

NextSearch == ReturnEarly \/ StartSearch \/ Halve \/ ReturnFound

SpecSafeSearch == InitSearch /\ [][NextSearch]_vars

\* The loop runs: nothing but its own condition ends it.
SpecSearch == SpecSafeSearch /\ WF_vars(NextSearch)

------------------------------------------------------------------------------
(* Properties. *)

\* The challenges of r of n blocks, and those that miss the first t of them.
Challenges(n, r) == kSubset(r, 1 .. n)
Missed(n, t, r)  == { c \in Challenges(n, r) : c \cap (1 .. t) = {} }

(***************************************************************************)
(* The product the code accumulates is the hypergeometric probability, at  *)
(* the boundaries its early returns treat as well: no corrupted block, as  *)
(* many challenged as intact, all challenged.                              *)
(***************************************************************************)
RateIsHypergeometric ==
  pc = "start" =>
    \A t \in 0 .. total, r \in 0 .. total :
      LET rate == ConfidenceRate(total, t, r)
          all  == Cardinality(Challenges(total, r))
      IN  /\ rate[2] > 0
          /\ rate[1] * all = (all - Cardinality(Missed(total, t, r))) * rate[2]

\* The search proper: its interval stays among the intact blocks.
SearchTypeOK ==
  /\ total \in Nat
  /\ corrupted \in 0 .. total /\ (total > 0 => corrupted > 0)
  /\ target \in Targets /\ tie \in BOOLEAN
  /\ pc \in {"start", "search", "returned"}
  /\ lo \in Nat /\ hi \in Nat /\ size \in 0 .. total
  /\ pc = "search" => 1 <= lo /\ lo <= hi /\ hi <= total - corrupted

(***************************************************************************)
(* What the halving preserves: the upper end reaches the target, the block *)
(* count just below the lower end does not.  Nothing is said, or needed,   *)
(* about how the rate behaves in between.                                  *)
(***************************************************************************)
SearchBracket ==
  pc = "search" =>
    /\ Reaches(total, corrupted, hi, target, tie)
    /\ lo > 1 => ~ Reaches(total, corrupted, lo - 1, target, tie)

SearchInv ==
  /\ SearchTypeOK
  /\ SearchBracket
  /\ pc = "search" => 0 < target[1] /\ target[1] < target[2] /\ 0 < corrupted
  /\ pc = "returned" /\ total > 0 /\ 0 < target[1] /\ target[1] >= target[2] => size = total
  /\ pc = "returned" /\ total > 0 /\ 0 < target[1] /\ target[1] < target[2] =>
       \/ size = total
       \/ /\ size > 0
          /\ Reaches(total, corrupted, size, target, tie) \/ corrupted = total
          /\ size = 1 \/ ~ Reaches(total, corrupted, size - 1, target, tie)

\* A target a challenge can be asked to reach.
Proper == total > 0 /\ 0 < target[1] /\ target[1] <= target[2]

(***************************************************************************)
(* The challenge size returned is enough: challenging that many blocks     *)
(* reaches the target (PdpInverseConfidenceStrategy relies on it for every *)
(* configuration it expands).                                              *)
(***************************************************************************)
SizeSuffices ==
  pc = "returned" /\ Proper => Reaches(total, corrupted, size, target, tie)

(***************************************************************************)
(* A larger challenge detects at least as much, across the boundary where  *)
(* the product gives way to the early return of certainty.  The binary     *)
(* search needs it, and nothing in the code says so.                       *)
(***************************************************************************)
ReachMonotone ==
  \A smaller, larger \in 1 .. total :
    smaller <= larger /\ Reaches(total, corrupted, smaller, target, tie) =>
      Reaches(total, corrupted, larger, target, tie)

(***************************************************************************)
(* No smaller challenge is enough, as long as one among the intact blocks  *)
(* is: the binary search finds what a search by enumeration finds.         *)
(***************************************************************************)
SizeSmallestAmongIntact ==
  pc = "returned" /\ Proper /\ size <= total - corrupted =>
    \A r \in 1 .. size - 1 : ~ Reaches(total, corrupted, r, target, tie)

(***************************************************************************)
(* The size is the minimum the function's comment promises, for a target   *)
(* below certainty ("Minimum sample size r (per N, t) to reach             *)
(* targetConfidence").                                                     *)
(***************************************************************************)
SizeSmallest ==
  pc = "returned" /\ Proper /\ target[1] < target[2] =>
    \A r \in 1 .. size - 1 : ~ Reaches(total, corrupted, r, target, tie)

(***************************************************************************)
(* The search ends with a size: no interval, of whatever width and parity, *)
(* is halved into itself.                                                  *)
(***************************************************************************)
SearchEnds == <>(pc = "returned")

\* The interval shrinks at every turn that changes it.
SearchShrinks == [][ pc = "search" /\ pc' = "search" => hi' - lo' < hi - lo ]_vars
==============================================================================
