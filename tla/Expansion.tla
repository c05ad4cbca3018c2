------------------------------ MODULE Expansion ------------------------------
(***************************************************************************)
(* The configurations a computation strategy makes of a command line:      *)
(* the four parseAndExpand of benchmark_computation_strategy.cpp, after    *)
(* their options are read.  How an axis comes to its points is SweepAxis;  *)
(* here an axis is what resolveAxis and resolveSeq made of it:             *)
(*   given     its list or its start is on the command line                *)
(*   accepted  resolveAxis returned true                                   *)
(*   points    its points, the strategy's default list if nothing is given *)
(* A ratio is a fraction, a product with it cut to an integer.             *)
(***************************************************************************)
EXTENDS Integers, Sequences

Atleast1(n)     == IF n < 1 THEN 1 ELSE n
AtMost(n, m)    == IF n > m THEN m ELSE n
Share(n, ratio) == (n * ratio[1]) \div ratio[2]

PdpConfig(total, corrupted, sample) ==
  [ family |-> "pdp", total |-> total, corrupted |-> corrupted, sample |-> sample, users |-> 0 ]

IdentityConfig(users) ==
  [ family |-> "identity", total |-> 0, corrupted |-> 0, sample |-> 0, users |-> users ]

------------------------------------------------------------------------------
(* PdpDirectStrategy. *)

\* A single value counts unless the axis is given; a step or a ratio alone is not looked at.
SingleCounts(single, axis) == single.set /\ ~ axis.given

DirectAccepts(single, axis) == SingleCounts(single, axis) \/ axis.accepted

DirectPoints(single, axis) ==
  IF SingleCounts(single, axis) THEN <<single.value>> ELSE axis.points

\* Mutated form of CrossProduct: the two loops advance together.
CrossProductTogether(total, ts, rs) ==
  [ k \in 1 .. Len(ts) * Len(rs) |->
      PdpConfig(total, ts[((k - 1) % Len(ts)) + 1], rs[((k - 1) % Len(rs)) + 1]) ]

\* Every corrupted-block count with every challenge size, the latter varying fastest.
CrossProduct(total, ts, rs) ==
  [ k \in 1 .. Len(ts) * Len(rs) |->
      PdpConfig(total, ts[((k - 1) \div Len(rs)) + 1], rs[((k - 1) % Len(rs)) + 1]) ]

DirectConfigs(command) ==
  IF DirectAccepts(command.t, command.tAxis) /\ DirectAccepts(command.r, command.rAxis)
  THEN CrossProduct(command.total, DirectPoints(command.t, command.tAxis),
                                   DirectPoints(command.r, command.rAxis))
  ELSE <<>>

------------------------------------------------------------------------------
(* PdpFixedRatioStrategy and PdpInverseConfidenceStrategy. *)

\* Mutated form of FixedRatioConfig: a share of a small file is not cut to the file.
FixedRatioConfigUncut(n, corrupted, sample) ==
  PdpConfig(n, Atleast1(Share(n, corrupted)), Atleast1(Share(n, sample)))

\* Shares of the file, at least a block, at most all of it.
FixedRatioConfig(n, corrupted, sample) ==
  PdpConfig(n, AtMost(Atleast1(Share(n, corrupted)), n), AtMost(Atleast1(Share(n, sample)), n))

FixedRatioConfigs(command) ==
  IF command.axis.accepted
  THEN [ i \in 1 .. Len(command.axis.points) |->
           FixedRatioConfig(command.axis.points[i], command.corruptedRatio, command.sampleRatio) ]
  ELSE <<>>

\* size[i] is what inverseSampleSize returns for the i-th point (SampleSize).
InverseConfigs(command, size) ==
  IF command.axis.accepted
  THEN [ i \in 1 .. Len(command.axis.points) |->
           LET n == command.axis.points[i]
           IN  PdpConfig(n, AtMost(Atleast1(Share(n, command.corruptedRatio)), n), size[i]) ]
  ELSE <<>>

\* What inverseSampleSize may return for the points: some of a file's blocks, none of an
\* empty file's, and none at all if the target is not above 0.
SizesFor(points, targetPositive) ==
  { size \in [ 1 .. Len(points) -> UNION { 0 .. points[i] : i \in 1 .. Len(points) } ] :
      \A i \in 1 .. Len(points) :
        size[i] \in IF targetPositive /\ points[i] > 0 THEN 1 .. points[i] ELSE {0} }

------------------------------------------------------------------------------
(* IdentityVerifyStrategy. *)

EnoughUsers(users) == users >= 2

\* The points that have enough, in their order: the loop skips the others.
PointsWithUsers(points) ==
  LET kept[i \in 0 .. Len(points)] ==
        IF i = 0 THEN <<>>
        ELSE IF EnoughUsers(points[i]) THEN Append(kept[i - 1], points[i])
        ELSE kept[i - 1]
  IN  kept[Len(points)]

\* A sweep skips points with fewer than two users, a single run does not.
IdentityConfigs(command) ==
  IF command.ratioSum[1] > command.ratioSum[2] THEN <<>>
  ELSE IF ~ command.sweep THEN <<IdentityConfig(command.users)>>
  ELSE IF ~ command.axis.accepted THEN <<>>
  ELSE LET users == PointsWithUsers(command.axis.points)
       IN  [ i \in 1 .. Len(users) |-> IdentityConfig(users[i]) ]

------------------------------------------------------------------------------
\* createComputationStrategy knows these.
ComputationTypes == {"PdpDirect", "PdpFixedRatio", "PdpInverseConfidence", "IdentityVerify"}

\* parseAndExpand of the command's strategy.  A malformed --threads ends all four.
Expand(command, size) ==
  IF ~ command.threadsValid THEN <<>>
  ELSE CASE command.computation = "PdpDirect"            -> DirectConfigs(command)
         [] command.computation = "PdpFixedRatio"        -> FixedRatioConfigs(command)
         [] command.computation = "PdpInverseConfidence" -> InverseConfigs(command, size)
         [] command.computation = "IdentityVerify"       -> IdentityConfigs(command)
==============================================================================
