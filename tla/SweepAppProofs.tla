---------------------------- MODULE SweepAppProofs ----------------------------
(***************************************************************************)
(* Theorems about the two sweep executables, for any command line, library *)
(* and number of threads: exit code 0 delivers the whole sweep, a failed   *)
(* sweep shows nothing, what is shown can be read, and what is measured is *)
(* what the axes say.                                                      *)
(***************************************************************************)
EXTENDS SweepAppInv, FiniteSetTheorems, SequenceTheorems, WellFoundedInduction, TLAPS

------------------------------------------------------------------------------
(* Sequences that are built by a loop. *)

\* A function on the first natural numbers is a sequence of that length.
LEMMA LengthOfMap ==
  ASSUME NEW S, NEW k \in Nat, NEW s \in [ 1 .. k -> S ]
  PROVE  s \in Seq(S) /\ Len(s) = k
<1>1. s \in Seq(S)
  BY SeqDef
<1>2. Len(s) \in Nat /\ DOMAIN s = 1 .. Len(s)
  BY <1>1, LenProperties
<1>3. 1 .. Len(s) = 1 .. k
  BY <1>2
<1>4. CASE k < Len(s)
  <2>1. Len(s) \in 1 .. Len(s) /\ Len(s) \notin 1 .. k
    BY <1>2, <1>4
  <2> QED
    BY <1>3, <2>1
<1>5. CASE Len(s) < k
  <2>1. k \in 1 .. k /\ k \notin 1 .. Len(s)
    BY <1>2, <1>5
  <2> QED
    BY <1>3, <2>1
<1> QED
  BY <1>1, <1>2, <1>4, <1>5

\* Induction over the natural numbers, for a set.
LEMMA SetInduction ==
  ASSUME NEW S, 0 \in S, \A n \in Nat : n \in S => n + 1 \in S
  PROVE  Nat \subseteq S
<1> SUFFICES ASSUME Nat \ S # {} PROVE FALSE
  OBVIOUS
<1> DEFINE below == { pair \in Nat \X Nat : pair[1] < pair[2] }
<1>1. PICK least \in Nat \ S : \A y \in Nat \ S : <<y, least>> \notin below
  <2>1. IsWellFoundedOn(below, Nat)
    BY NatLessThanWellFounded DEF OpToRel
  <2> HIDE DEF below
  <2> QED
    BY <2>1, WFMin, Zenon
<1>2. least - 1 \in Nat /\ (least - 1) + 1 = least
  BY <1>1
<1>3. least - 1 \notin S
  BY <1>1, <1>2
<1>4. <<least - 1, least>> \in Nat \X Nat /\ least - 1 < least
  BY <1>2
<1> QED
  BY <1>1, <1>2, <1>3, <1>4

\* f is the function PointsWithUsers defines by recursion, up to k.
Kept(f, points, k) ==
  f = [ i \in 0 .. k |-> IF i = 0 THEN <<>>
                         ELSE IF EnoughUsers(points[i]) THEN Append(f[i - 1], points[i])
                         ELSE f[i - 1] ]

\* There is such a function, of sequences.
LEMMA KeptExists ==
  ASSUME NEW points \in Seq(Nat), NEW r \in 0 .. Len(points)
  PROVE  \E f \in [ 0 .. r -> Seq(Nat) ] : Kept(f, points, r)
<1> DEFINE S == { k \in Nat : k <= Len(points) =>
                                \E f \in [ 0 .. k -> Seq(Nat) ] : Kept(f, points, k) }
<1>1. 0 \in S
  <2> DEFINE f == [ i \in 0 .. 0 |-> <<>> ]
  <2>1. f \in [ 0 .. 0 -> Seq(Nat) ] /\ Kept(f, points, 0)
    BY EmptySeq DEF Kept
  <2> QED
    BY <2>1
<1>2. ASSUME NEW k \in Nat, k \in S PROVE k + 1 \in S
  <2> SUFFICES ASSUME k + 1 <= Len(points)
               PROVE  \E f \in [ 0 .. k + 1 -> Seq(Nat) ] : Kept(f, points, k + 1)
    OBVIOUS
  <2>1. PICK f \in [ 0 .. k -> Seq(Nat) ] : Kept(f, points, k)
    <3>1. Len(points) \in Nat
      BY LenProperties
    <3> QED
      BY <1>2, <3>1
  <2> DEFINE more == IF EnoughUsers(points[k + 1]) THEN Append(f[k], points[k + 1]) ELSE f[k]
             g    == [ i \in 0 .. k + 1 |-> IF i <= k THEN f[i] ELSE more ]
  <2>2. more \in Seq(Nat)
    <3>1. k + 1 \in 1 .. Len(points)
      BY LenProperties
    <3>2. points[k + 1] \in Nat /\ f[k] \in Seq(Nat)
      BY <3>1, <2>1, ElementOfSeq
    <3> QED
      BY <3>2
  <2>3. g \in [ 0 .. k + 1 -> Seq(Nat) ]
    <3> HIDE DEF more
    <3> QED
      BY <2>1, <2>2
  <2>4. ASSUME NEW i \in 0 .. k + 1
        PROVE  g[i] = IF i = 0 THEN <<>>
                      ELSE IF EnoughUsers(points[i]) THEN Append(g[i - 1], points[i])
                      ELSE g[i - 1]
    <3>1. CASE i <= k
      <4>1. i \in 0 .. k /\ g[i] = f[i] /\ (i # 0 => g[i - 1] = f[i - 1])
        BY <3>1
      <4>2. f[i] = IF i = 0 THEN <<>>
                   ELSE IF EnoughUsers(points[i]) THEN Append(f[i - 1], points[i])
                   ELSE f[i - 1]
        BY <2>1, <4>1, Zenon DEF Kept
      <4> HIDE DEF g
      <4> QED
        BY <4>1, <4>2
    <3>2. CASE i = k + 1
      <4>1. g[i] = more /\ g[i - 1] = f[k] /\ i # 0
        BY <3>2
      <4> HIDE DEF g
      <4> QED
        BY <3>2, <4>1
    <3> QED
      BY <3>1, <3>2
  <2>5. Kept(g, points, k + 1)
    <3>1. g = [ i \in 0 .. k + 1 |-> g[i] ]
      OBVIOUS
    <3> HIDE DEF g
    <3> QED
      BY <2>4, <3>1, Zenon DEF Kept
  <2> QED
    <3> HIDE DEF g
    <3> QED
      BY <2>3, <2>5
<1>3. r \in S
  <2>1. r \in Nat
    BY LenProperties
  <2> HIDE DEF S
  <2> QED
    BY <1>1, <1>2, <2>1, SetInduction
<1> QED
  BY <1>3, LenProperties

\* The values of any such function are sequences.
LEMMA KeptType ==
  ASSUME NEW points \in Seq(Nat), NEW f, Kept(f, points, Len(points))
  PROVE  f[Len(points)] \in Seq(Nat)
<1>1. Len(points) \in Nat
  BY LenProperties
<1> DEFINE n == Len(points)
           S == { k \in Nat : k <= n => f[k] \in Seq(Nat) }
<1>2. \A i \in 0 .. n :
        f[i] = IF i = 0 THEN <<>>
               ELSE IF EnoughUsers(points[i]) THEN Append(f[i - 1], points[i])
               ELSE f[i - 1]
  BY Zenon DEF Kept
<1>3. 0 \in S
  <2>1. 0 \in 0 .. n
    BY <1>1
  <2>2. f[0] = <<>>
    BY <1>2, <2>1, Zenon
  <2> QED
    BY <2>2, EmptySeq
<1>4. ASSUME NEW k \in Nat, k \in S PROVE k + 1 \in S
  <2> SUFFICES ASSUME k + 1 <= n PROVE f[k + 1] \in Seq(Nat)
    OBVIOUS
  <2>1. k + 1 \in 0 .. n /\ k + 1 \in 1 .. n /\ k + 1 # 0 /\ (k + 1) - 1 = k
    BY <1>1
  <2>2. f[k] \in Seq(Nat)
    BY <1>1, <1>4
  <2>3. f[k + 1] = Append(f[k], points[k + 1]) \/ f[k + 1] = f[k]
    <3>1. f[k + 1] = IF EnoughUsers(points[k + 1]) THEN Append(f[(k + 1) - 1], points[k + 1])
                     ELSE f[(k + 1) - 1]
      BY <1>2, <2>1, Zenon
    <3> QED
      BY <2>1, <3>1
  <2>4. points[k + 1] \in Nat
    BY <2>1, ElementOfSeq
  <2>5. Append(f[k], points[k + 1]) \in Seq(Nat)
    BY <2>2, <2>4, AppendProperties, Zenon
  <2> QED
    BY <2>2, <2>3, <2>5, Zenon
<1>5. n \in S
  <2> HIDE DEF S
  <2> QED
    BY <1>1, <1>3, <1>4, SetInduction
<1> QED
  BY <1>1, <1>5

\* The points an identity sweep keeps are a sequence of points.
LEMMA PointsWithUsersType ==
  ASSUME NEW points \in Seq(Nat)
  PROVE  PointsWithUsers(points) \in Seq(Nat)
<1> DEFINE kept == CHOOSE f : Kept(f, points, Len(points))
<1>1. Kept(kept, points, Len(points))
  <2>1. Len(points) \in 0 .. Len(points)
    BY LenProperties
  <2>2. \E f : Kept(f, points, Len(points))
    BY <2>1, KeptExists
  <2> QED
    BY <2>2
<1>2. PointsWithUsers(points) = kept[Len(points)]
  BY DEF PointsWithUsers, Kept
<1> HIDE DEF kept
<1> QED
  BY <1>1, <1>2, KeptType

------------------------------------------------------------------------------
(* What a strategy expands a command line into. *)

\* A list of configurations of one family, as the sweep asks of it.
OfFamily(cs, family) ==
  /\ Len(cs) \in Nat
  /\ cs # <<>> => Len(cs) > 0
  /\ \A i \in 1 .. Len(cs) : cs[i].family = family /\ cs[i].total \in Nat

\* No configurations are configurations of any family.
LEMMA NoConfigs ==
  ASSUME NEW family
  PROVE  OfFamily(<<>>, family)
<1>1. Len(<<>>) = 0
  BY EmptySeq
<1> QED
  BY <1>1 DEF OfFamily

\* A list made element by element is one of them if each element is.
LEMMA ConfigsOfFamily ==
  ASSUME NEW family, NEW k \in Nat, NEW cs, cs = [ i \in 1 .. k |-> cs[i] ],
         \A i \in 1 .. k : cs[i].family = family /\ cs[i].total \in Nat
  PROVE  OfFamily(cs, family)
<1> DEFINE S == { cs[i] : i \in 1 .. k }
<1>1. cs \in [ 1 .. k -> S ]
  OBVIOUS
<1>2. cs \in Seq(S) /\ Len(cs) = k
  <2> HIDE DEF S
  <2> QED
    BY <1>1, LengthOfMap
<1>3. cs # <<>> => Len(cs) > 0
  <2> HIDE DEF S
  <2> QED
    BY <1>2, EmptySeq
<1> QED
  BY <1>2, <1>3 DEF OfFamily

\* The two kinds of configuration name their family.
LEMMA ConfigFields ==
  ASSUME NEW total, NEW corrupted, NEW sample, NEW users
  PROVE  /\ PdpConfig(total, corrupted, sample).family = "pdp"
         /\ PdpConfig(total, corrupted, sample).total = total
         /\ IdentityConfig(users).family = "identity"
         /\ IdentityConfig(users).total = 0
BY DEF PdpConfig, IdentityConfig

\* An element made as one of the PDP configurations is one.
LEMMA PdpFields ==
  ASSUME NEW config, NEW total \in Nat, NEW corrupted, NEW sample,
         config = PdpConfig(total, corrupted, sample)
  PROVE  config.family = "pdp" /\ config.total \in Nat
<1>1. config.family = "pdp" /\ config.total = total
  BY DEF PdpConfig
<1> QED
  BY <1>1

\* The pairs of two axes.
LEMMA CrossProductOfFamily ==
  ASSUME NEW total \in Nat, NEW ts \in Seq(Nat), NEW rs \in Seq(Nat)
  PROVE  OfFamily(CrossProduct(total, ts, rs), "pdp")
<1> DEFINE cs == CrossProduct(total, ts, rs)
           k  == Len(ts) * Len(rs)
<1>1. k \in Nat
  BY LenProperties
<1>2. cs = [ i \in 1 .. k |-> cs[i] ]
  BY DEF CrossProduct
<1>3. ASSUME NEW i \in 1 .. k PROVE cs[i].family = "pdp" /\ cs[i].total \in Nat
  <2>1. cs[i] = PdpConfig(total, ts[((i - 1) \div Len(rs)) + 1], rs[((i - 1) % Len(rs)) + 1])
    BY Zenon DEF CrossProduct
  <2> HIDE DEF cs
  <2> QED
    BY <2>1, PdpFields
<1> HIDE DEF cs, k
<1>4. OfFamily(cs, "pdp")
  BY <1>1, <1>2, <1>3, ConfigsOfFamily
<1> QED
  BY <1>4 DEF cs

\* A single value, or an accepted axis, is a sequence of points.
LEMMA DirectPointsType ==
  ASSUME NEW single \in SingleType, NEW axis \in AxisType
  PROVE  DirectPoints(single, axis) \in Seq(Nat)
<1>1. single.value \in Nat /\ axis.points \in Seq(Nat)
  BY DEF SingleType, AxisType
<1>2. <<single.value>> \in Seq(Nat)
  BY <1>1
<1> QED
  BY <1>1, <1>2 DEF DirectPoints

\* What the fields of a command line are.
LEMMA CommandFields ==
  ASSUME NEW c \in CommandType
  PROVE  /\ c.executable \in {"pdp", "identity"} /\ c.computation \in ComputationTypes \cup {"unknown"}
         /\ c.help \in BOOLEAN /\ c.list \in BOOLEAN /\ c.json \in BOOLEAN
         /\ c.iterations \in Nat /\ c.total \in Nat
         /\ c.t \in SingleType /\ c.r \in SingleType
         /\ c.tAxis \in AxisType /\ c.rAxis \in AxisType /\ c.axis \in AxisType
BY DEF CommandType

\* The points of an axis.
LEMMA AxisFields ==
  ASSUME NEW axis \in AxisType
  PROVE  axis.points \in Seq(Nat)
BY DEF AxisType

\* PdpDirectStrategy.
LEMMA DirectOfFamily ==
  ASSUME NEW c \in CommandType
  PROVE  OfFamily(DirectConfigs(c), "pdp")
<1>1. DirectPoints(c.t, c.tAxis) \in Seq(Nat) /\ DirectPoints(c.r, c.rAxis) \in Seq(Nat)
  BY CommandFields, DirectPointsType
<1>2. OfFamily(CrossProduct(c.total, DirectPoints(c.t, c.tAxis), DirectPoints(c.r, c.rAxis)), "pdp")
  BY <1>1, CommandFields, CrossProductOfFamily
<1> QED
  BY <1>2, NoConfigs DEF DirectConfigs

\* PdpFixedRatioStrategy.
LEMMA FixedRatioOfFamily ==
  ASSUME NEW c \in CommandType
  PROVE  OfFamily(FixedRatioConfigs(c), "pdp")
<1> DEFINE points == c.axis.points
           cs == [ i \in 1 .. Len(points) |->
                     FixedRatioConfig(points[i], c.corruptedRatio, c.sampleRatio) ]
<1>1. points \in Seq(Nat) /\ Len(points) \in Nat
  <2>1. points \in Seq(Nat)
    BY CommandFields, AxisFields
  <2> QED
    BY <2>1, LenProperties
<1>2. cs = [ i \in 1 .. Len(points) |-> cs[i] ]
  OBVIOUS
<1>3. ASSUME NEW i \in 1 .. Len(points) PROVE cs[i].family = "pdp" /\ cs[i].total \in Nat
  <2>1. cs[i] = FixedRatioConfig(points[i], c.corruptedRatio, c.sampleRatio)
    BY Zenon
  <2>2. points[i] \in Nat
    BY <1>1, ElementOfSeq
  <2> HIDE DEF cs, points
  <2> QED
    BY <2>1, <2>2, PdpFields DEF FixedRatioConfig
<1>4. OfFamily(cs, "pdp")
  <2> HIDE DEF cs, points
  <2> QED
    BY <1>1, <1>2, <1>3, ConfigsOfFamily
<1> QED
  BY <1>4, NoConfigs DEF FixedRatioConfigs

\* PdpInverseConfidenceStrategy.
LEMMA InverseOfFamily ==
  ASSUME NEW c \in CommandType, NEW size
  PROVE  OfFamily(InverseConfigs(c, size), "pdp")
<1> DEFINE points == c.axis.points
           damaged(n) == AtMost(Atleast1(Share(n, c.corruptedRatio)), n)
           cs == [ i \in 1 .. Len(points) |->
                     LET n == points[i] IN PdpConfig(n, damaged(n), size[i]) ]
<1>1. points \in Seq(Nat) /\ Len(points) \in Nat
  <2>1. points \in Seq(Nat)
    BY CommandFields, AxisFields
  <2> QED
    BY <2>1, LenProperties
<1>2. cs = [ i \in 1 .. Len(points) |-> cs[i] ]
  OBVIOUS
<1>3. ASSUME NEW i \in 1 .. Len(points) PROVE cs[i].family = "pdp" /\ cs[i].total \in Nat
  <2>1. cs[i] = PdpConfig(points[i], damaged(points[i]), size[i])
    BY Zenon
  <2>2. points[i] \in Nat
    BY <1>1, ElementOfSeq
  <2> HIDE DEF cs, points, damaged
  <2> QED
    BY <2>1, <2>2, PdpFields
<1>4. OfFamily(cs, "pdp")
  <2> HIDE DEF cs, points
  <2> QED
    BY <1>1, <1>2, <1>3, ConfigsOfFamily
<1> QED
  BY <1>4, NoConfigs DEF InverseConfigs

\* IdentityVerifyStrategy.
LEMMA IdentityOfFamily ==
  ASSUME NEW c \in CommandType
  PROVE  OfFamily(IdentityConfigs(c), "identity")
<1> DEFINE users == PointsWithUsers(c.axis.points)
           cs    == [ i \in 1 .. Len(users) |-> IdentityConfig(users[i]) ]
           one   == <<IdentityConfig(c.users)>>
<1>1. Len(users) \in Nat
  <2>1. users \in Seq(Nat)
    BY CommandFields, AxisFields, PointsWithUsersType
  <2> QED
    BY <2>1, LenProperties
<1>2. cs = [ i \in 1 .. Len(users) |-> cs[i] ]
  OBVIOUS
<1>3. ASSUME NEW i \in 1 .. Len(users) PROVE cs[i].family = "identity" /\ cs[i].total \in Nat
  <2>1. cs[i] = IdentityConfig(users[i])
    BY Zenon
  <2> HIDE DEF cs, users
  <2> QED
    BY <2>1, ConfigFields
<1>4. OfFamily(cs, "identity")
  <2> HIDE DEF cs, users
  <2> QED
    BY <1>1, <1>2, <1>3, ConfigsOfFamily
<1>5. OfFamily(one, "identity")
  <2>1. one = [ i \in 1 .. 1 |-> one[i] ] /\ one[1] = IdentityConfig(c.users)
    OBVIOUS
  <2>2. \A i \in 1 .. 1 : one[i].family = "identity" /\ one[i].total \in Nat
    <3>1. one[1].family = "identity" /\ one[1].total = 0
      BY <2>1, ConfigFields, Zenon
    <3> HIDE DEF one
    <3> QED
      BY <3>1
  <2> HIDE DEF one
  <2> QED
    BY <2>1, <2>2, ConfigsOfFamily
<1> QED
  BY <1>4, <1>5, NoConfigs DEF IdentityConfigs

\* Every strategy expands a command line into configurations of its own family.
LEMMA ExpandOfFamily ==
  ASSUME NEW c \in CommandType, c.computation \in ComputationTypes, NEW size
  PROVE  OfFamily(Expand(c, size), ReportFamily(c.computation))
<1>1. CASE ~ c.threadsValid
  BY <1>1, NoConfigs DEF Expand
<1>2. CASE c.threadsValid /\ c.computation = "PdpDirect"
  <2>1. Expand(c, size) = DirectConfigs(c) /\ ReportFamily(c.computation) = "pdp"
    BY <1>2 DEF Expand, ReportFamily
  <2> QED
    BY <2>1, DirectOfFamily, Zenon
<1>3. CASE c.threadsValid /\ c.computation = "PdpFixedRatio"
  <2>1. Expand(c, size) = FixedRatioConfigs(c) /\ ReportFamily(c.computation) = "pdp"
    BY <1>3 DEF Expand, ReportFamily
  <2> QED
    BY <2>1, FixedRatioOfFamily, Zenon
<1>4. CASE c.threadsValid /\ c.computation = "PdpInverseConfidence"
  <2>1. Expand(c, size) = InverseConfigs(c, size) /\ ReportFamily(c.computation) = "pdp"
    BY <1>4 DEF Expand, ReportFamily
  <2> QED
    BY <2>1, InverseOfFamily, Zenon
<1>5. CASE c.threadsValid /\ c.computation = "IdentityVerify"
  <2>1. Expand(c, size) = IdentityConfigs(c) /\ ReportFamily(c.computation) = "identity"
    BY <1>5 DEF Expand, ReportFamily
  <2> QED
    BY <2>1, IdentityOfFamily, Zenon
<1> QED
  BY <1>1, <1>2, <1>3, <1>4, <1>5 DEF ComputationTypes

------------------------------------------------------------------------------
(* The invariant. *)

\* What the command line of a run is.
LEMMA CommandTyped ==
  ASSUME command \in Commands
  PROVE  /\ command \in CommandType
         /\ command.executable \in {"pdp", "identity"}
         /\ command.json \in BOOLEAN
         /\ command.iterations \in Nat
BY SweepAppAssumption, CommandFields

\* main has not begun.
LEMMA SweepInit == Init => SweepInv
<1> SUFFICES ASSUME Init PROVE SweepInv
  OBVIOUS
<1>1. Len(<<>>) = 0 /\ <<>> \in Seq(ResultType)
  BY EmptySeq
<1>2. configs = <<>> /\ results = <<>> /\ pc = "scan" /\ exit = "none"
  BY DEF Init
<1>3. ConfigsInv
  BY <1>1, <1>2 DEF ConfigsInv
<1>4. ResultsInv
  BY <1>1, <1>2 DEF ResultsInv
<1>5. RunInv
  BY DEF Init, RunInv
<1>6. PlaceInv
  BY <1>2 DEF PlaceInv
<1>7. ShownInv
  BY DEF Init, ShownInv
<1>8. command \in Commands /\ PcTypeOK
  BY <1>2 DEF Init, PcTypeOK
<1> QED
  BY <1>3, <1>4, <1>5, <1>6, <1>7, <1>8 DEF SweepInv

\* A step that leaves the lists alone keeps what the invariant says of them.
LEMMA ListsUnchanged ==
  ASSUME SweepInv, UNCHANGED <<command, configs, results>>
  PROVE  command' \in Commands /\ ConfigsInv' /\ ResultsInv'
BY DEF SweepInv, ConfigsInv, ResultsInv

\* So does a step that leaves the current run alone, wherever main goes on to.
LEMMA RunUnchanged ==
  ASSUME SweepInv, UNCHANGED <<command, runVars>>,
         pc' \in {"scan", "load", "select", "sweep"} => outcome = "pending",
         pc' \in {"next", "report", "json"} => outcome = "returned"
  PROVE  RunInv'
BY DEF SweepInv, RunInv, runVars

\* main before its sweep, or at a point where it gives up.
LEMMA BeforeSweepStep ==
  ASSUME SweepInv, Scan \/ LoadLibrary \/ LoadThrows \/ Refuse \/ WorkerCrashes \/ EndSweep
  PROVE  SweepInv'
<1> USE DEF Scan, LoadLibrary, LoadThrows, Refuse, WorkerCrashes, EndSweep, GoTo, Exit
<1>1. UNCHANGED <<command, configs, results, console, json, runVars>>
  OBVIOUS
<1>2. command' \in Commands /\ ConfigsInv' /\ ResultsInv'
  BY <1>1, ListsUnchanged
<1>3. RunInv'
  <2>1. pc' \in {"scan", "load", "select", "sweep"} => pc \in {"scan", "load", "select", "sweep"}
    OBVIOUS
  <2>2. pc' \in {"next", "report", "json"} => pc \in {"next", "report", "json"}
    OBVIOUS
  <2> QED
    BY <1>1, <2>1, <2>2, RunUnchanged DEF SweepInv, RunInv
<1>4. PcTypeOK'
  BY DEF SweepInv, PcTypeOK
<1>5. PlaceInv'
  BY DEF SweepInv, PlaceInv
<1>6. ShownInv'
  <2>1. console = NotPrinted /\ json = Untouched /\ exit = "none"
    BY DEF SweepInv, ShownInv, PcTypeOK
  <2>2. pc' # "json" /\ (exit' = "0" => command.help \/ command.list)
    BY <2>1
  <2> QED
    BY <1>1, <2>1, <2>2 DEF ShownInv
<1> QED
  BY <1>2, <1>3, <1>4, <1>5, <1>6 DEF SweepInv

\* The strategy expands the command line.
LEMMA ExpandStep ==
  ASSUME SweepInv, ExpandConfigs
  PROVE  SweepInv'
<1>1. UNCHANGED <<command, results, console, json, runVars>> /\ pc = "select"
  BY DEF ExpandConfigs
<1>2. command.computation \in ComputationTypes /\ command \in CommandType
  BY CommandTyped DEF ExpandConfigs, Buildable, SweepInv
<1>3. OfFamily(configs', ReportFamily(command.computation))
  <2>1. PICK size : configs' = Expand(command, size)
    BY DEF ExpandConfigs
  <2> QED
    BY <1>2, <2>1, ExpandOfFamily
<1>4. pc' \in {"ended", "sweep"} /\ (pc' = "ended" <=> configs' = <<>>)
      /\ exit' = IF configs' = <<>> THEN "1" ELSE exit
  BY DEF ExpandConfigs, GoTo, Exit
<1>5. results = <<>> /\ Len(results) = 0 /\ console = NotPrinted /\ json = Untouched /\ exit = "none"
  BY <1>1, EmptySeq DEF SweepInv, PlaceInv, ShownInv, PcTypeOK
<1>6. ConfigsInv'
  BY <1>1, <1>2, <1>3 DEF ConfigsInv, OfFamily
<1>7. ResultsInv'
  BY <1>1, <1>3, <1>5 DEF ResultsInv, SweepInv, OfFamily
<1>8. RunInv'
  BY <1>1, <1>4, RunUnchanged DEF SweepInv, RunInv
<1>9. PlaceInv'
  BY <1>1, <1>3, <1>4, <1>5 DEF SweepInv, PlaceInv, OfFamily
<1>10. ShownInv' /\ PcTypeOK'
  BY <1>1, <1>4, <1>5 DEF ShownInv, SweepInv, PcTypeOK
<1> QED
  BY <1>1, <1>6, <1>7, <1>8, <1>9, <1>10 DEF SweepInv

\* The configuration of the current run is of the strategy's family.
LEMMA CurrentFields ==
  ASSUME SweepInv, pc = "sweep"
  PROVE  /\ Len(results) \in Nat /\ Len(results) + 1 \in 1 .. Len(configs)
         /\ Current = configs[Len(results) + 1]
         /\ Current.family = ReportFamily(command.computation)
         /\ Current.total \in Nat
         /\ command.computation \in ComputationTypes
<1>1. Len(results) \in Nat /\ Len(configs) \in Nat
  BY LenProperties DEF SweepInv, ResultsInv, ConfigsInv
<1>2. Len(results) + 1 \in 1 .. Len(configs)
  BY <1>1 DEF SweepInv, PlaceInv
<1>3. /\ configs[Len(results) + 1].family = ReportFamily(command.computation)
      /\ configs[Len(results) + 1].total \in Nat
  BY <1>2 DEF SweepInv, ConfigsInv
<1>4. command.computation \in ComputationTypes
  BY DEF SweepInv, PlaceInv, ConfigsInv
<1> QED
  BY <1>1, <1>2, <1>3, <1>4 DEF Current

\* The workers of a run.
LEMMA WorkerStep ==
  ASSUME SweepInv, WorkerStarts \/ WorkerEnds
  PROVE  SweepInv'
<1>1. UNCHANGED appVars /\ pc = "sweep"
  BY DEF WorkerStarts, WorkerEnds, Sweeping
<1>2. UNCHANGED <<command, configs, results, console, json, pc, exit>>
  BY <1>1 DEF appVars
<1>3. command' \in Commands /\ ConfigsInv' /\ ResultsInv'
  BY <1>2, ListsUnchanged
<1>4. RunInv'
  <2> USE DEF SweepInv, RunInv
  <2>1. CASE WorkerStarts
    <3>1. PICK w : /\ w \notin started
                   /\ started' = started \cup {w} /\ running' = running \cup {w}
                   /\ UNCHANGED <<iterations, failed, outcome, reported>>
      BY <2>1 DEF WorkerStarts, Run!Start
    <3> QED
      BY <1>1, <1>2, <3>1
  <2>2. CASE WorkerEnds
    <3>1. PICK w : /\ w \in running /\ running' = running \ {w}
                   /\ failed' \in {failed, failed \cup {w}}
                   /\ UNCHANGED <<iterations, started, outcome, reported>>
                   /\ WrongClass => w \in failed'
      BY <2>2 DEF WorkerEnds, Run!Finish
    <3>2. WrongClass <=> ReportFamily(command.computation) # command.executable
      BY <1>1, CurrentFields DEF WrongClass
    <3>3. running' \subseteq started' /\ failed \subseteq failed'
      BY <3>1
    <3>4. ReportFamily(command.computation) # command.executable
            => started' \ running' \subseteq failed'
      BY <3>1, <3>2, <3>3
    <3> QED
      BY <1>1, <1>2, <3>1, <3>3, <3>4
  <2> QED
    BY <2>1, <2>2
<1>5. outcome = "pending"
  BY <1>1 DEF SweepInv, RunInv
<1>6. PcTypeOK' /\ PlaceInv'
  BY <1>2 DEF SweepInv, PcTypeOK, PlaceInv
<1>7. ShownInv'
  <2>1. console = NotPrinted /\ json = Untouched /\ exit = "none"
    BY <1>1 DEF SweepInv, ShownInv, PcTypeOK
  <2> QED
    BY <1>1, <1>2, <2>1 DEF ShownInv
<1> QED
  BY <1>3, <1>4, <1>6, <1>7 DEF SweepInv

\* A run returns, and its result is one more.
LEMMA ReturnStep ==
  ASSUME SweepInv, RunReturns
  PROVE  SweepInv'
<1>1. /\ pc = "sweep" /\ pc' = "next" /\ exit' = exit
      /\ UNCHANGED <<command, library, configs, console, json>>
  BY DEF RunReturns, GoTo
<1>2. /\ outcome = "pending" /\ running = {} /\ failed = {} /\ started # {}
      /\ outcome' = "returned" /\ reported' = iterations
      /\ UNCHANGED <<iterations, started, running, failed>>
  BY DEF RunReturns, Run!Return
<1>3. ReportFamily(command.computation) = command.executable
  BY <1>2 DEF SweepInv, RunInv
<1>4. iterations = command.iterations /\ command.iterations \in Nat
  BY CommandTyped DEF SweepInv, RunInv
<1> DEFINE n      == Len(results)
           result == [ family |-> command.executable, total |-> Current.total,
                       iterations |-> command.iterations ]
<1>5. results' = Append(results, result)
  BY <1>2, <1>4 DEF RunReturns
<1>6. /\ n \in Nat /\ n + 1 \in 1 .. Len(configs) /\ Current = configs[n + 1]
      /\ Current.total \in Nat
  BY <1>1, CurrentFields
<1>7. result \in ResultType
  BY <1>4, <1>6, CommandTyped DEF ResultType, SweepInv
<1> HIDE DEF result
<1>8. /\ results' \in Seq(ResultType) /\ Len(results') = n + 1
      /\ \A i \in 1 .. n : results'[i] = results[i]
      /\ results'[n + 1] = result
  <2>1. results \in Seq(ResultType)
    BY DEF SweepInv, ResultsInv
  <2> QED
    BY <1>5, <1>7, <2>1, AppendProperties
<1>9. ResultsInv'
  <2>1. Len(results') <= Len(configs')
    BY <1>1, <1>6, <1>8 DEF SweepInv, ConfigsInv
  <2>2. ASSUME NEW i \in 1 .. Len(results')
        PROVE  results'[i] = [ family |-> command.executable, total |-> configs[i].total,
                               iterations |-> command.iterations ]
    <3>1. CASE i = n + 1
      BY <1>6, <1>8, <3>1 DEF result
    <3>2. CASE i # n + 1
      <4>1. i \in 1 .. n
        BY <1>6, <1>8, <3>2
      <4> QED
        BY <1>8, <4>1 DEF SweepInv, ResultsInv
    <3> QED
      BY <3>1, <3>2
  <2> QED
    BY <1>1, <1>3, <1>8, <2>1, <2>2 DEF ResultsInv
<1>10. results' # <<>> /\ configs # <<>>
  <2>1. results' # <<>>
    BY <1>6, <1>8, EmptySeq
  <2> QED
    BY <1>1, <2>1 DEF SweepInv, PlaceInv
<1>11. command' \in Commands /\ ConfigsInv'
  BY <1>1 DEF SweepInv, ConfigsInv
<1>12. RunInv'
  BY <1>1, <1>2, <1>3, <1>4 DEF SweepInv, RunInv
<1>13. PcTypeOK' /\ PlaceInv'
  BY <1>1, <1>10 DEF SweepInv, PcTypeOK, PlaceInv
<1>14. ShownInv'
  <2>1. console = NotPrinted /\ json = Untouched /\ exit = "none"
    BY <1>1 DEF SweepInv, ShownInv, PcTypeOK
  <2> QED
    BY <1>1, <2>1 DEF ShownInv
<1> QED
  BY <1>9, <1>11, <1>12, <1>13, <1>14 DEF SweepInv

\* The next configuration's run begins.
LEMMA NextConfigStep ==
  ASSUME SweepInv, NextConfig
  PROVE  SweepInv'
<1>1. /\ pc = "next" /\ pc' = "sweep" /\ exit' = exit /\ Len(results) < Len(configs)
      /\ UNCHANGED <<command, configs, results, console, json>>
  BY DEF NextConfig, GoTo
<1>2. command' \in Commands /\ ConfigsInv' /\ ResultsInv'
  BY <1>1, ListsUnchanged
<1>3. RunInv'
  BY <1>1 DEF NextConfig, RunInv
<1>4. PcTypeOK' /\ PlaceInv'
  BY <1>1 DEF SweepInv, PcTypeOK, PlaceInv
<1>5. ShownInv'
  <2>1. console = NotPrinted /\ json = Untouched /\ exit = "none"
    BY <1>1 DEF SweepInv, ShownInv, PcTypeOK
  <2> QED
    BY <1>1, <2>1 DEF ShownInv
<1> QED
  BY <1>2, <1>3, <1>4, <1>5 DEF SweepInv

\* A run throws, and the process ends.
LEMMA ThrowStep ==
  ASSUME SweepInv, RunThrows
  PROVE  SweepInv'
<1>1. /\ pc = "sweep" /\ pc' = "ended" /\ exit' = "killed"
      /\ UNCHANGED <<command, configs, results, console, json>>
  BY DEF RunThrows, Exit
<1>2. command' \in Commands /\ ConfigsInv' /\ ResultsInv'
  BY <1>1, ListsUnchanged
<1>3. RunInv'
  BY <1>1 DEF SweepInv, RunInv, RunThrows, Run!Throw
<1>4. PcTypeOK' /\ PlaceInv'
  BY <1>1 DEF SweepInv, PcTypeOK, PlaceInv
<1>5. ShownInv'
  <2>1. console = NotPrinted /\ json = Untouched
    BY <1>1 DEF SweepInv, ShownInv
  <2> QED
    BY <1>1, <2>1 DEF ShownInv
<1> QED
  BY <1>2, <1>3, <1>4, <1>5 DEF SweepInv

\* The report: its console text, then its file.
LEMMA ReportStep ==
  ASSUME SweepInv, PrintReport \/ WriteJson \/ JsonNotOpened
  PROVE  SweepInv'
<1>1. /\ pc \in {"report", "json"} /\ pc' \in {"json", "ended"}
      /\ UNCHANGED <<command, configs, results, runVars>>
  BY DEF PrintReport, WriteJson, JsonNotOpened, GoTo, Exit
<1>2. UNCHANGED outcome
  BY <1>1 DEF runVars
<1>3. command' \in Commands /\ ConfigsInv' /\ ResultsInv'
  BY <1>1, ListsUnchanged
<1>4. outcome = "returned" /\ ~ command.help /\ ~ command.list /\ exit = "none" /\ json = Untouched
      /\ command.json \in BOOLEAN
  BY <1>1, CommandTyped DEF SweepInv, RunInv, PlaceInv, PcTypeOK, ShownInv
<1>5. RunInv'
  BY <1>1, <1>4, RunUnchanged
<1>6. Complete /\ Complete'
  BY <1>1, <1>2, <1>4 DEF SweepInv, PlaceInv, Complete
<1>7. CASE PrintReport
  <2>1. /\ pc = "report" /\ console' = Console(command.computation, results)
        /\ IF command.json THEN pc' = "json" /\ exit' = exit ELSE pc' = "ended" /\ exit' = "0"
        /\ UNCHANGED json
    BY <1>7 DEF PrintReport, GoTo, Exit
  <2>2. ConsoleShown'
    BY <1>1, <1>6, <2>1 DEF ConsoleShown
  <2>3. PcTypeOK' /\ PlaceInv'
    BY <1>1, <1>4, <2>1 DEF SweepInv, PcTypeOK, PlaceInv
  <2>4. ShownInv'
    BY <1>1, <1>4, <2>1, <2>2 DEF ShownInv
  <2> QED
    BY <1>3, <1>5, <2>3, <2>4 DEF SweepInv
<1>8. CASE WriteJson
  <2>1. /\ pc = "json" /\ pc' = "ended" /\ exit' = "0" /\ UNCHANGED console
    BY <1>8 DEF WriteJson, Exit
  <2>2. ConsoleShown /\ command.json
    BY <2>1 DEF SweepInv, ShownInv
  <2>3. ConsoleShown'
    BY <1>1, <1>6, <2>1, <2>2 DEF ConsoleShown
  <2>4. json'.state \in {"written", "cut"} /\ json'.text = Json(command.computation, results)
    BY <1>8 DEF WriteJson
  <2>5. JsonShown'
    BY <1>1, <2>2, <2>3, <2>4 DEF JsonShown
  <2>6. PcTypeOK' /\ PlaceInv'
    BY <1>1, <1>4, <2>1 DEF SweepInv, PcTypeOK, PlaceInv
  <2>7. ShownInv'
    BY <1>1, <2>1, <2>2, <2>3, <2>5 DEF ShownInv
  <2> QED
    BY <1>3, <1>5, <2>6, <2>7 DEF SweepInv
<1>9. CASE JsonNotOpened
  <2>1. /\ pc = "json" /\ pc' = "ended" /\ exit' = "1" /\ UNCHANGED <<console, json>>
    BY <1>9 DEF JsonNotOpened, Exit
  <2>2. ConsoleShown
    BY <2>1 DEF SweepInv, ShownInv
  <2>3. ConsoleShown'
    BY <1>1, <1>6, <2>1, <2>2 DEF ConsoleShown
  <2>4. PcTypeOK' /\ PlaceInv'
    BY <1>1, <1>4, <2>1 DEF SweepInv, PcTypeOK, PlaceInv
  <2>5. ShownInv'
    BY <1>4, <2>1, <2>3 DEF ShownInv
  <2> QED
    BY <1>3, <1>5, <2>4, <2>5 DEF SweepInv
<1> QED
  BY <1>7, <1>8, <1>9

\* Nothing changes.
LEMMA SweepStutters ==
  ASSUME SweepInv, UNCHANGED vars
  PROVE  SweepInv'
<1>1. UNCHANGED <<command, configs, results, runVars, pc, exit, console, json>>
  BY DEF vars, appVars
<1>2. UNCHANGED outcome
  BY <1>1 DEF runVars
<1>3. command' \in Commands /\ ConfigsInv' /\ ResultsInv' /\ RunInv'
  BY <1>1, ListsUnchanged, RunUnchanged DEF SweepInv, RunInv
<1>4. PcTypeOK' /\ PlaceInv'
  BY <1>1 DEF SweepInv, PcTypeOK, PlaceInv
<1>5. ShownInv'
  BY <1>1, <1>2 DEF SweepInv, ShownInv, JsonShown, ConsoleShown, Complete
<1> QED
  BY <1>3, <1>4, <1>5 DEF SweepInv

(***************************************************************************)
(* The invariant of the sweep executables, for any command line, library,  *)
(* number of threads and length of name: results stand for the first       *)
(* configurations, nothing is shown before the sweep is complete.          *)
(***************************************************************************)
THEOREM SweepInvariant == Spec => []SweepInv
<1>1. Init => SweepInv
  BY SweepInit
<1>2. SweepInv /\ [Next]_vars => SweepInv'
  <2> SUFFICES ASSUME SweepInv, [Next]_vars PROVE SweepInv'
    OBVIOUS
  <2>1. CASE Scan \/ LoadLibrary \/ LoadThrows \/ Refuse \/ WorkerCrashes \/ EndSweep
    BY <2>1, BeforeSweepStep
  <2>2. CASE ExpandConfigs
    BY <2>2, ExpandStep
  <2>3. CASE WorkerStarts \/ WorkerEnds
    BY <2>3, WorkerStep
  <2>4. CASE RunReturns
    BY <2>4, ReturnStep
  <2>5. CASE NextConfig
    BY <2>5, NextConfigStep
  <2>6. CASE RunThrows
    BY <2>6, ThrowStep
  <2>7. CASE PrintReport \/ WriteJson \/ JsonNotOpened
    BY <2>7, ReportStep
  <2>8. CASE PadOn \/ Done \/ UNCHANGED vars
    BY <2>8, SweepStutters DEF PadOn, Done
  <2> QED
    BY <2>1, <2>2, <2>3, <2>4, <2>5, <2>6, <2>7, <2>8 DEF Next
<1> QED
  BY <1>1, <1>2, PTL DEF Spec

------------------------------------------------------------------------------
(* The properties. *)

(***************************************************************************)
(* A sweep that fails shows nothing, and a computation made for the other  *)
(* executable has no result.                                               *)
(***************************************************************************)
THEOREM FailedSweepShowsNothing == Spec => []NothingFromFailedSweep
<1>1. SweepInv => NothingFromFailedSweep
  <2> SUFFICES ASSUME SweepInv PROVE NothingFromFailedSweep
    OBVIOUS
  <2>1. ASSUME console # NotPrinted \/ json # Untouched
        PROVE  exit # "killed" /\ outcome = "returned" /\ Len(results) = Len(configs)
    BY <2>1 DEF SweepInv, ShownInv, JsonShown, ConsoleShown, Complete
  <2>2. ASSUME ReportFamily(command.computation) # command.executable
        PROVE  results = <<>> /\ (exit = "0" => command.help \/ command.list)
    <3>1. results = <<>> /\ Len(results) = 0
      BY <2>2, EmptySeq DEF SweepInv, ResultsInv
    <3>2. ~ Complete
      BY <3>1 DEF Complete, SweepInv, ConfigsInv
    <3> QED
      BY <3>1, <3>2 DEF SweepInv, ShownInv, ConsoleShown
  <2> QED
    BY <2>1, <2>2 DEF NothingFromFailedSweep
<1> QED
  BY <1>1, SweepInvariant, PTL

\* What a report of the executable's own family keeps of a complete sweep: all of it.
LEMMA AllShown ==
  ASSUME SweepInv, Complete
  PROVE  LET pointers == Downcast(command.computation, results)
         IN  /\ results # <<>> /\ Len(results) \in Nat /\ Len(results) = Len(configs)
             /\ pointers = [ i \in 1 .. Len(results) |-> i ]
             /\ Len(pointers) = Len(results)
             /\ Shown(pointers) = 1 .. Len(results)
<1> DEFINE pointers == Downcast(command.computation, results)
           n        == Len(results)
<1>1. results # <<>> /\ n \in Nat /\ n = Len(configs)
  BY LenProperties, EmptySeq DEF SweepInv, ConfigsInv, ResultsInv, Complete
<1>2. ReportFamily(command.computation) = command.executable
  BY <1>1 DEF SweepInv, ResultsInv
<1>3. ASSUME NEW i \in 1 .. n PROVE results[i].family = ReportFamily(command.computation)
  <2>1. results[i] = [ family |-> command.executable, total |-> configs[i].total,
                       iterations |-> command.iterations ]
    BY DEF SweepInv, ResultsInv
  <2>2. results[i].family = command.executable
    BY <2>1
  <2> QED
    BY <1>2, <2>2
<1>4. pointers = [ i \in 1 .. n |-> i ]
  BY <1>3 DEF Downcast
<1>5. Len(pointers) = n
  <2>1. pointers \in [ 1 .. n -> Nat ]
    BY <1>1, <1>4
  <2> HIDE DEF pointers
  <2> QED
    BY <1>1, <2>1, LengthOfMap
<1>6. Shown(pointers) = 1 .. n
  <2>1. \A i \in 1 .. n : pointers[i] = i
    BY <1>4
  <2> HIDE DEF pointers
  <2> QED
    BY <1>1, <1>5, <2>1 DEF Shown, Null
<1> QED
  BY <1>1, <1>4, <1>5, <1>6

\* What the console has of a complete sweep.
LEMMA ConsoleOfSweep ==
  ASSUME SweepInv, ConsoleShown
  PROVE  /\ console.blocks = 1 .. Len(configs)
         /\ console.rows = { i \in 1 .. Len(configs) :
                               DividesBySize(command.computation) => results[i].total # 0 }
         /\ console.texts = UNION { RowTexts(command.computation, results[i]) : i \in console.rows }
         /\ console.kind # "Unknown"
<1> DEFINE pointers == Downcast(command.computation, results)
<1>1. /\ results # <<>> /\ Len(results) \in Nat /\ Len(results) = Len(configs)
      /\ pointers = [ i \in 1 .. Len(results) |-> i ]
      /\ Shown(pointers) = 1 .. Len(results)
  BY AllShown, Zenon DEF ConsoleShown
<1>2. Rows(command.computation, results, pointers)
        = { i \in 1 .. Len(configs) : DividesBySize(command.computation) => results[i].total # 0 }
  BY <1>1 DEF Rows
<1>3. pointers[1] # Null
  <2>1. 1 \in 1 .. Len(results)
    BY <1>1 DEF SweepInv, ConfigsInv, ConsoleShown, Complete
  <2>2. pointers[1] = 1
    BY <1>1, <2>1
  <2> QED
    BY <2>2 DEF Null
<1>4. ConsoleKind(command.computation, pointers) # "Unknown"
  BY <1>3 DEF ConsoleKind
<1> HIDE DEF pointers
<1>5. console = [ rows   |-> Rows(command.computation, results, pointers),
                  blocks |-> Shown(pointers),
                  texts  |-> UNION { RowTexts(command.computation, results[i]) :
                                       i \in Rows(command.computation, results, pointers) },
                  kind   |-> ConsoleKind(command.computation, pointers) ]
  BY <1>1 DEF ConsoleShown, Console, pointers
<1> QED
  BY <1>1, <1>2, <1>4, <1>5

\* What the file has of a complete sweep.
LEMMA JsonOfSweep ==
  ASSUME SweepInv, JsonShown
  PROVE  /\ json.text.elements = 1 .. Len(configs)
         /\ json.text.commas = { i \in 1 .. Len(configs) : i + 1 <= Len(configs) }
         /\ json.text.texts = UNION { ElementTexts(command.computation, results[i]) :
                                        i \in 1 .. Len(configs) }
<1> DEFINE pointers == Downcast(command.computation, results)
<1>1. /\ Len(results) = Len(configs) /\ Len(pointers) = Len(results)
      /\ Shown(pointers) = 1 .. Len(results)
  BY AllShown, Zenon DEF JsonShown, ConsoleShown
<1> HIDE DEF pointers
<1>2. json.text = [ elements |-> Shown(pointers),
                    commas   |-> Commas(pointers),
                    texts    |-> UNION { ElementTexts(command.computation, results[i]) :
                                           i \in Shown(pointers) } ]
  BY DEF JsonShown, Json, pointers
<1> QED
  BY <1>1, <1>2 DEF Commas

\* What was not shown.
LEMMA NothingShown ==
  /\ Len(Downcast("PdpDirect", <<>>)) = 0
  /\ Untouched.state = "untouched"
  /\ Untouched.text.elements = {} /\ Untouched.text.commas = {} /\ Untouched.text.texts = {}
  /\ NotPrinted.texts = {} /\ NotPrinted.kind = "none"
<1> DEFINE pointers == Downcast("PdpDirect", <<>>)
<1>1. Len(pointers) = 0
  <2>1. Len(<<>>) = 0
    BY EmptySeq
  <2>2. pointers = <<>>
    BY <2>1 DEF Downcast
  <2> QED
    BY <2>1, <2>2
<1>2. Shown(pointers) = {} /\ Commas(pointers) = {}
  <2> HIDE DEF pointers
  <2> QED
    BY <1>1 DEF Shown, Commas
<1>3. Untouched = [ state |-> "untouched",
                    text  |-> [ elements |-> Shown(pointers), commas |-> Commas(pointers),
                                texts |-> UNION { ElementTexts("PdpDirect", <<>>[i]) :
                                                    i \in Shown(pointers) } ] ]
  BY DEF Untouched, Json
<1> HIDE DEF pointers
<1>4. Untouched.text.texts = {}
  BY <1>2, <1>3
<1> QED
  BY <1>1, <1>2, <1>3, <1>4 DEF NotPrinted, pointers

(***************************************************************************)
(* Exit code 0 of a sweep means that all of it was run and all of it was   *)
(* shown.                                                                  *)
(***************************************************************************)
THEOREM ExitZeroIsComplete == Spec => []ExitZeroDelivers
<1>1. SweepInv => ExitZeroDelivers
  <2> SUFFICES ASSUME SweepInv, exit = "0", ~ command.help, ~ command.list
               PROVE  /\ configs # <<>> /\ Len(results) = Len(configs)
                      /\ \A i \in 1 .. Len(configs) :
                           /\ results[i].total = configs[i].total
                           /\ results[i].iterations = command.iterations
                           /\ i \in console.blocks
                           /\ i \notin console.rows =>
                                /\ configs[i].total = 0
                                /\ command.computation \in {"PdpFixedRatio", "PdpInverseConfidence"}
                      /\ command.json <=> json.state # "untouched"
                      /\ json.state = "written" => json.text.elements = 1 .. Len(configs)
    BY DEF ExitZeroDelivers
  <2>1. ConsoleShown /\ IF command.json THEN JsonShown ELSE json = Untouched
    BY DEF SweepInv, ShownInv
  <2>2. configs # <<>> /\ Len(results) = Len(configs)
    BY <2>1 DEF ConsoleShown, Complete
  <2>3. ASSUME NEW i \in 1 .. Len(configs)
        PROVE  /\ results[i].total = configs[i].total
               /\ results[i].iterations = command.iterations
               /\ i \in console.blocks
               /\ i \notin console.rows =>
                    /\ configs[i].total = 0
                    /\ command.computation \in {"PdpFixedRatio", "PdpInverseConfidence"}
    <3>1. results[i] = [ family |-> command.executable, total |-> configs[i].total,
                         iterations |-> command.iterations ]
      BY <2>2 DEF SweepInv, ResultsInv
    <3>2. results[i].total = configs[i].total /\ results[i].iterations = command.iterations
      BY <3>1
    <3>3. /\ console.blocks = 1 .. Len(configs)
          /\ console.rows = { k \in 1 .. Len(configs) :
                                DividesBySize(command.computation) => results[k].total # 0 }
      BY <2>1, ConsoleOfSweep
    <3> QED
      BY <3>2, <3>3 DEF DividesBySize
  <2>4. /\ command.json <=> json.state # "untouched"
        /\ json.state = "written" => json.text.elements = 1 .. Len(configs)
    <3>1. CASE command.json
      <4>1. json.state \in {"written", "cut"}
        BY <2>1, <3>1 DEF JsonShown
      <4> QED
        BY <2>1, <3>1, <4>1, JsonOfSweep
    <3>2. CASE ~ command.json
      BY <2>1, <3>2, NothingShown
    <3> QED
      BY <3>1, <3>2
  <2> QED
    BY <2>2, <2>3, <2>4
<1> QED
  BY <1>1, SweepInvariant, PTL

\* No text of a row or an element is the quotient 0/0.
LEMMA NoNan ==
  ASSUME NEW computation, NEW result
  PROVE  /\ (DividesBySize(computation) => result.total # 0)
              => "nan" \notin RowTexts(computation, result)
         /\ "nan" \notin ElementTexts(computation, result)
BY DEF RowTexts, ElementTexts, IntervalText, ShareText, Quotient

(***************************************************************************)
(* What was printed can be read: commas between the elements only, and no  *)
(* number that could not be computed.                                      *)
(***************************************************************************)
THEOREM ReportsAreReadable == Spec => []ReportReadable
<1>1. SweepInv => ReportReadable
  <2> SUFFICES ASSUME SweepInv PROVE ReportReadable
    OBVIOUS
  <2>1. "nan" \notin console.texts /\ console.kind # "Unknown"
    <3>1. CASE console = NotPrinted
      BY <3>1, NothingShown
    <3>2. CASE ConsoleShown
      <4>1. /\ console.rows = { i \in 1 .. Len(configs) :
                                  DividesBySize(command.computation) => results[i].total # 0 }
            /\ console.texts = UNION { RowTexts(command.computation, results[i]) :
                                         i \in console.rows }
            /\ console.kind # "Unknown"
        BY <3>2, ConsoleOfSweep
      <4>2. ASSUME NEW i \in console.rows
            PROVE  "nan" \notin RowTexts(command.computation, results[i])
        <5>1. DividesBySize(command.computation) => results[i].total # 0
          BY <4>1
        <5> QED
          BY <5>1, NoNan
      <4> QED
        BY <4>1, <4>2
    <3> QED
      BY <3>1, <3>2 DEF SweepInv, ShownInv
  <2>2. /\ json.text.commas = { i \in json.text.elements : \E j \in json.text.elements : j > i }
        /\ "nan" \notin json.text.texts
    <3>1. CASE json = Untouched
      BY <3>1, NothingShown
    <3>2. CASE JsonShown
      <4>1. /\ json.text.elements = 1 .. Len(configs)
            /\ json.text.commas = { i \in 1 .. Len(configs) : i + 1 <= Len(configs) }
            /\ json.text.texts = UNION { ElementTexts(command.computation, results[i]) :
                                           i \in 1 .. Len(configs) }
        BY <3>2, JsonOfSweep
      <4>2. ASSUME NEW i \in 1 .. Len(configs)
            PROVE  i + 1 <= Len(configs) <=> \E j \in 1 .. Len(configs) : j > i
        <5>1. Len(configs) \in Nat
          BY DEF SweepInv, ConfigsInv
        <5>2. i + 1 <= Len(configs) => i + 1 \in 1 .. Len(configs) /\ i + 1 > i
          BY <5>1
        <5> QED
          BY <5>1, <5>2
      <4>3. "nan" \notin json.text.texts
        BY <4>1, NoNan
      <4> QED
        BY <4>1, <4>2, <4>3
    <3> QED
      BY <3>1, <3>2 DEF SweepInv, ShownInv
  <2> QED
    BY <2>1, <2>2 DEF ReportReadable
<1> QED
  BY <1>1, SweepInvariant, PTL

------------------------------------------------------------------------------
(* Which pairs of points a sweep over two axes measures, and how often. *)

\* Of two numbers of whole groups the smaller is a group short of the larger.
LEMMA GroupShort ==
  ASSUME NEW m \in Nat, NEW p \in Nat, NEW q \in Nat, p < q
  PROVE  m * p + m <= m * q /\ m * p \in Nat /\ m * q \in Nat
<1>1. PICK d \in Nat : q = p + 1 + d
  <2>1. q - (p + 1) \in Nat /\ q = p + 1 + (q - (p + 1))
    OBVIOUS
  <2> QED
    BY <2>1
<1>2. m * q = m * p + m + m * d /\ m * d \in Nat /\ m * p \in Nat
  BY <1>1
<1> QED
  BY <1>2

\* A number of whole groups and less than a group more: these are its quotient and remainder.
LEMMA DivisionUnique ==
  ASSUME NEW m \in Nat \ {0}, NEW k \in Nat, NEW q \in Nat, NEW r \in 0 .. m - 1,
         k = m * q + r
  PROVE  k \div m = q /\ k % m = r
<1> DEFINE p == k \div m
           s == k % m
<1>1. p \in Nat /\ s \in 0 .. m - 1 /\ k = m * p + s
  BY SMT
<1> HIDE DEF p, s
<1>2. m * p \in Nat /\ m * q \in Nat
  BY <1>1
<1>3. ~ p < q
  BY <1>1, <1>2, GroupShort
<1>4. ~ q < p
  BY <1>1, <1>2, GroupShort
<1>5. p = q
  BY <1>1, <1>3, <1>4
<1>6. s = r
  BY <1>1, <1>2, <1>5
<1> QED
  BY <1>5, <1>6 DEF p, s

\* A place in a list of n groups of m: the group and the place in it name it, and only it.
LEMMA PlaceOfPair ==
  ASSUME NEW n \in Nat, NEW m \in Nat, NEW i \in 1 .. n, NEW j \in 1 .. m,
         NEW k, k = (i - 1) * m + j
  PROVE  k \in 1 .. n * m /\ (k - 1) \div m = i - 1 /\ (k - 1) % m = j - 1
<1>1. i - 1 \in Nat /\ (i - 1) * m \in Nat /\ m > 0
  OBVIOUS
<1>2. PICK d \in Nat : n = i + d
  <2>1. n - i \in Nat /\ n = i + (n - i)
    OBVIOUS
  <2> QED
    BY <2>1
<1>3. n * m = (i - 1) * m + m + d * m /\ d * m \in Nat
  BY <1>2
<1>4. k \in 1 .. n * m
  BY <1>1, <1>3
<1>5. k - 1 \in Nat /\ k - 1 = m * (i - 1) + (j - 1) /\ j - 1 \in 0 .. m - 1
  BY <1>1
<1>6. (k - 1) \div m = i - 1 /\ (k - 1) % m = j - 1
  <2> DEFINE l == k - 1
             p == i - 1
             r == j - 1
  <2>1. l \in Nat /\ p \in Nat /\ r \in 0 .. m - 1 /\ m \in Nat \ {0} /\ l = m * p + r
    BY <1>1, <1>5
  <2>2. l \div m = p /\ l % m = r
    <3> HIDE DEF l, p, r
    <3> QED
      BY <2>1, DivisionUnique
  <2> QED
    BY <2>2
<1> QED
  BY <1>4, <1>6

\* And every place is the place of a pair.
LEMMA PairOfPlace ==
  ASSUME NEW n \in Nat, NEW m \in Nat, NEW k \in 1 .. n * m
  PROVE  /\ ((k - 1) \div m) + 1 \in 1 .. n /\ ((k - 1) % m) + 1 \in 1 .. m
         /\ ((k - 1) \div m) * m + (((k - 1) % m) + 1) = k
<1>1. m # 0 /\ n * m \in Nat /\ k - 1 \in Nat /\ k - 1 < n * m
  <2>1. n * 0 = 0 /\ n * m \in Nat
    OBVIOUS
  <2> QED
    BY <2>1
<1> DEFINE q == (k - 1) \div m
           r == (k - 1) % m
           l == k - 1
<1>2. q \in Nat /\ r \in 0 .. m - 1 /\ l = m * q + r
  <2>1. l \in Nat /\ m \in Nat \ {0}
    BY <1>1
  <2>2. l \div m \in Nat /\ l % m \in 0 .. m - 1 /\ l = m * (l \div m) + (l % m)
    <3> HIDE DEF l
    <3> QED
      BY <2>1, SMT
  <2> QED
    BY <2>2
<1> HIDE DEF q, r
<1>3. q < n
  <2>1. l < n * m /\ n * m = m * n /\ l \in Nat
    BY <1>1
  <2>2. ASSUME n <= q PROVE FALSE
    <3>1. m * n <= m * q /\ m * n \in Nat /\ m * q \in Nat
      <4>1. CASE n = q
        BY <1>2, <4>1
      <4>2. CASE n < q
        BY <1>2, <4>2, GroupShort
      <4> QED
        BY <1>2, <2>2, <4>1, <4>2
    <3> HIDE DEF l
    <3> QED
      BY <1>2, <2>1, <3>1
  <2> QED
    BY <1>2, <2>2
<1>4. m * q = q * m /\ q * m \in Nat
  BY <1>2
<1>5. q + 1 \in 1 .. n /\ r + 1 \in 1 .. m /\ q * m + (r + 1) = k
  BY <1>2, <1>3, <1>4
<1> QED
  BY <1>5 DEF q, r

\* What a pair is made of.
LEMMA PairParts ==
  ASSUME NEW A, NEW B, NEW pair \in A \X B
  PROVE  pair[1] \in A /\ pair[2] \in B /\ pair = <<pair[1], pair[2]>>
OBVIOUS

\* P has the places of a list of n groups of m whose group is one of A and whose place in it
\* is one of B.
PlacesOf(P, n, m, A, B) ==
  /\ n \in Nat /\ m \in Nat /\ A \subseteq 1 .. n /\ B \subseteq 1 .. m
  /\ \A k : k \in P <=> /\ k \in 1 .. n * m
                       /\ ((k - 1) \div m) + 1 \in A
                       /\ ((k - 1) % m) + 1 \in B

\* Of the places of a list of n groups of m, those whose group is one of A and whose place
\* in it is one of B: as many as there are pairs.
LEMMA PairsCounted ==
  ASSUME NEW P, NEW n, NEW m, NEW A, NEW B, PlacesOf(P, n, m, A, B)
  PROVE  Cardinality(P) = Cardinality(A) * Cardinality(B)
<1>0. n \in Nat /\ m \in Nat /\ A \in SUBSET (1 .. n) /\ B \in SUBSET (1 .. m)
  BY DEF PlacesOf
<1> DEFINE f == [ pair \in A \X B |-> (pair[1] - 1) * m + pair[2] ]
<1>1. IsFiniteSet(A) /\ IsFiniteSet(B)
  <2>1. IsFiniteSet(1 .. n) /\ IsFiniteSet(1 .. m)
    BY <1>0, FS_Interval
  <2> QED
    BY <1>0, <2>1, FS_Subset
<1>2. IsFiniteSet(A \X B) /\ Cardinality(A \X B) = Cardinality(A) * Cardinality(B)
  BY <1>1, FS_Product
<1>3. ASSUME NEW pair \in A \X B
      PROVE  /\ pair[1] \in A /\ pair[2] \in B /\ pair = <<pair[1], pair[2]>>
             /\ pair[1] \in 1 .. n /\ pair[2] \in 1 .. m
             /\ f[pair] \in 1 .. n * m
             /\ (f[pair] - 1) \div m = pair[1] - 1 /\ (f[pair] - 1) % m = pair[2] - 1
  <2>1. pair[1] \in A /\ pair[2] \in B /\ pair = <<pair[1], pair[2]>>
    BY PairParts
  <2>2. pair[1] \in 1 .. n /\ pair[2] \in 1 .. m
    BY <1>0, <2>1
  <2>3. f[pair] = (pair[1] - 1) * m + pair[2]
    OBVIOUS
  <2>4. /\ f[pair] \in 1 .. n * m
        /\ (f[pair] - 1) \div m = pair[1] - 1 /\ (f[pair] - 1) % m = pair[2] - 1
    <3> DEFINE i == pair[1]
               j == pair[2]
               k == f[pair]
    <3>1. i \in 1 .. n /\ j \in 1 .. m /\ k = (i - 1) * m + j
      BY <2>2, <2>3
    <3> HIDE DEF i, j, k
    <3>2. k \in 1 .. n * m /\ (k - 1) \div m = i - 1 /\ (k - 1) % m = j - 1
      BY <1>0, <3>1, PlaceOfPair
    <3> QED
      BY <3>2 DEF i, j, k
  <2> HIDE DEF f
  <2> QED
    BY <2>1, <2>2, <2>4, Zenon
<1>4. ASSUME NEW pair \in A \X B PROVE f[pair] \in P
  <2> HIDE DEF f
  <2>1. pair[1] \in A /\ pair[2] \in B /\ pair[1] \in 1 .. n /\ pair[2] \in 1 .. m
    BY <1>3
  <2>2. (pair[1] - 1) + 1 = pair[1] /\ (pair[2] - 1) + 1 = pair[2]
    BY <1>0, <2>1
  <2> QED
    BY <1>3, <2>1, <2>2 DEF PlacesOf
<1>5. f \in [ A \X B -> P ]
  <2> QED
    BY <1>4
<1>6. ASSUME NEW p \in A \X B, NEW q \in A \X B, f[p] = f[q] PROVE p = q
  <2>1. p[1] - 1 = q[1] - 1 /\ p[2] - 1 = q[2] - 1
    <3> HIDE DEF f
    <3> QED
      BY <1>3, <1>6
  <2> HIDE DEF f
  <2>2. p[1] \in 1 .. n /\ q[1] \in 1 .. n /\ p[2] \in 1 .. m /\ q[2] \in 1 .. m
    BY <1>3
  <2>3. p[1] = q[1] /\ p[2] = q[2]
    BY <1>0, <2>1, <2>2
  <2>4. p = <<p[1], p[2]>> /\ q = <<q[1], q[2]>>
    BY <1>3, Zenon
  <2> QED
    BY <2>3, <2>4, Zenon
<1>7. ASSUME NEW k \in P PROVE \E pair \in A \X B : f[pair] = k
  <2> DEFINE pair == << ((k - 1) \div m) + 1, ((k - 1) % m) + 1 >>
  <2>1. k \in 1 .. n * m /\ pair \in A \X B
    BY DEF PlacesOf
  <2>2. ((k - 1) \div m) * m + (((k - 1) % m) + 1) = k
        /\ ((k - 1) \div m) + 1 \in 1 .. n /\ ((k - 1) % m) + 1 \in 1 .. m
    BY <1>0, <2>1, PairOfPlace
  <2>3. ((((k - 1) \div m) + 1) - 1) = (k - 1) \div m
    <3> DEFINE q == (k - 1) \div m
    <3>1. q + 1 \in 1 .. n
      BY <2>2
    <3>2. q \in Int
      BY <1>0, <2>1, SMT
    <3> HIDE DEF q
    <3>3. (q + 1) - 1 = q
      BY <3>2
    <3> QED
      BY <3>3 DEF q
  <2>4. f[pair] = (pair[1] - 1) * m + pair[2]
    BY <2>1
  <2>5. f[pair] = k
    BY <2>2, <2>3, <2>4
  <2> QED
    BY <2>1, <2>5
<1>8. f \in Bijection(A \X B, P)
  <2> HIDE DEF f
  <2> QED
    BY <1>5, <1>6, <1>7 DEF Bijection, Injection, Surjection, IsInjective
<1>9. Cardinality(P) = Cardinality(A \X B)
  <2> HIDE DEF f
  <2> QED
    BY <1>2, <1>8, FS_Bijection DEF ExistsBijection
<1> QED
  BY <1>2, <1>9

\* How many of the first n elements are x.
CountIn(n, s, x) == Cardinality({ i \in 1 .. n : s[i] = x })

\* The places of x among the first n elements are finitely many.
LEMMA CountType ==
  ASSUME NEW n \in Nat, NEW s, NEW x
  PROVE  IsFiniteSet({ i \in 1 .. n : s[i] = x }) /\ CountIn(n, s, x) \in Nat
<1> DEFINE P == { i \in 1 .. n : s[i] = x }
<1>1. IsFiniteSet(1 .. n) /\ P \in SUBSET (1 .. n)
  BY FS_Interval
<1> HIDE DEF P
<1>2. IsFiniteSet(P)
  BY <1>1, FS_Subset
<1>3. Cardinality(P) \in Nat
  BY <1>2, FS_CardinalityType
<1> QED
  BY <1>2, <1>3 DEF P, CountIn

\* One element more is one place more, if it is x.
LEMMA OneMore ==
  ASSUME NEW n \in Nat, NEW s, NEW t, NEW x, \A i \in 1 .. n : t[i] = s[i]
  PROVE  CountIn(n + 1, t, x) = CountIn(n, s, x) + IF t[n + 1] = x THEN 1 ELSE 0
<1> DEFINE P == { i \in 1 .. n : s[i] = x }
           Q == { i \in 1 .. n + 1 : t[i] = x }
<1>1. IsFiniteSet(P) /\ Cardinality(P) \in Nat
  BY CountType DEF CountIn
<1>2. n + 1 \notin P
  OBVIOUS
<1>3. 1 .. n + 1 = (1 .. n) \cup {n + 1}
  OBVIOUS
<1>4. Q = IF t[n + 1] = x THEN P \cup {n + 1} ELSE P
  BY <1>3
<1> HIDE DEF P, Q
<1>5. Cardinality(P \cup {n + 1}) = Cardinality(P) + 1
  BY <1>1, <1>2, FS_AddElement
<1>6. Cardinality(Q) = Cardinality(P) + IF t[n + 1] = x THEN 1 ELSE 0
  BY <1>1, <1>4, <1>5
<1> QED
  BY <1>6 DEF P, Q, CountIn

\* How many of the configurations cs are of a file of total blocks with x of them corrupted
\* and y challenged.
PairsIn(cs, total, x, y) ==
  Cardinality({ k \in 1 .. Len(cs) :
                  /\ cs[k].total = total
                  /\ cs[k].corrupted = x /\ cs[k].sample = y })

\* The cross product has every pair as often as its two sequences have its parts.
LEMMA CrossProductCounts ==
  ASSUME NEW total \in Nat, NEW ts \in Seq(Nat), NEW rs \in Seq(Nat),
         NEW cs, cs = CrossProduct(total, ts, rs), NEW x, NEW y
  PROVE  /\ Len(cs) = Len(ts) * Len(rs)
         /\ PairsIn(cs, total, x, y) = Occurrences(x, ts) * Occurrences(y, rs)
<1> DEFINE n == Len(ts)
           m == Len(rs)
           A == { i \in 1 .. n : ts[i] = x }
           B == { j \in 1 .. m : rs[j] = y }
           group(k) == ((k - 1) \div m) + 1
           place(k) == ((k - 1) % m) + 1
<1>1. n \in Nat /\ m \in Nat /\ n * m \in Nat
  BY LenProperties
<1>2. \A k \in 1 .. n * m : cs[k] = PdpConfig(total, ts[group(k)], rs[place(k)])
  BY Zenon DEF CrossProduct
<1>3. Len(cs) = n * m
  <2> DEFINE S == { cs[k] : k \in 1 .. n * m }
  <2>1. cs = [ k \in 1 .. n * m |-> PdpConfig(total, ts[group(k)], rs[place(k)]) ]
    BY Zenon DEF CrossProduct
  <2>2. cs \in [ 1 .. n * m -> S ]
    BY <1>2, <2>1
  <2> HIDE DEF S, n, m
  <2> QED
    BY <1>1, <2>2, LengthOfMap
<1>4. ASSUME NEW k \in 1 .. n * m
      PROVE  /\ cs[k].total = total
             /\ cs[k].corrupted = ts[group(k)] /\ cs[k].sample = rs[place(k)]
  <2>1. cs[k] = PdpConfig(total, ts[group(k)], rs[place(k)])
    BY <1>2
  <2> HIDE DEF group, place, n, m
  <2> QED
    BY <2>1 DEF PdpConfig
<1>5. ASSUME NEW k \in 1 .. n * m PROVE group(k) \in 1 .. n /\ place(k) \in 1 .. m
  <2> HIDE DEF n, m
  <2> QED
    BY <1>1, PairOfPlace
<1>6. { k \in 1 .. Len(cs) : /\ cs[k].total = total
                             /\ cs[k].corrupted = x /\ cs[k].sample = y }
        = { k \in 1 .. n * m : group(k) \in A /\ place(k) \in B }
  <2> HIDE DEF group, place, n, m
  <2> QED
    BY <1>3, <1>4, <1>5
<1>7. Cardinality({ k \in 1 .. n * m : group(k) \in A /\ place(k) \in B })
        = Cardinality(A) * Cardinality(B)
  <2> DEFINE P == { k \in 1 .. n * m : group(k) \in A /\ place(k) \in B }
  <2>1. A \in SUBSET (1 .. n) /\ B \in SUBSET (1 .. m)
    OBVIOUS
  <2> HIDE DEF n, m, A, B
  <2>2. PlacesOf(P, n, m, A, B)
    BY <1>1, <2>1 DEF PlacesOf
  <2>3. Cardinality(P) = Cardinality(A) * Cardinality(B)
    <3> HIDE DEF P, group, place
    <3> QED
      BY <2>2, PairsCounted
  <2> QED
    BY <2>3
<1>8. Cardinality(A) = Occurrences(x, ts) /\ Cardinality(B) = Occurrences(y, rs)
  BY DEF Occurrences
<1> QED
  <2> HIDE DEF n, m, A, B, group, place
  <2>1. Len(cs) = n * m
    BY <1>3
  <2>2. PairsIn(cs, total, x, y) = Occurrences(x, ts) * Occurrences(y, rs)
    BY <1>6, <1>7, <1>8 DEF PairsIn
  <2> QED
    BY <2>1, <2>2 DEF n, m

------------------------------------------------------------------------------
(* What a sweep over the files of one axis measures. *)

\* A share of a file of n blocks, at least a block and at most all of it.
LEMMA ShareOfFile ==
  ASSUME NEW n \in Nat, NEW ratio \in RatioType
  PROVE  /\ AtMost(Atleast1(Share(n, ratio)), n) <= n
         /\ n > 0 => AtMost(Atleast1(Share(n, ratio)), n) > 0
<1> DEFINE s == Share(n, ratio)
<1>1. s \in Nat
  <2>1. ratio[1] \in Nat /\ ratio[2] \in Nat /\ ratio[2] # 0
    BY DEF RatioType
  <2> DEFINE a == n * ratio[1]
             b == ratio[2]
  <2>2. a \in Nat /\ b \in Nat \ {0}
    BY <2>1
  <2>3. a \div b \in Nat
    <3> HIDE DEF a, b
    <3> QED
      BY <2>2, SMT
  <2> QED
    BY <2>3 DEF Share
<1> HIDE DEF s
<1>2. AtMost(Atleast1(s), n) <= n /\ (n > 0 => AtMost(Atleast1(s), n) > 0)
  BY <1>1 DEF AtMost, Atleast1
<1> QED
  BY <1>2 DEF s

\* cs measures the files of points, in order, with challenges each of them can answer.
Measured(cs, points) ==
  /\ Len(cs) = Len(points)
  /\ \A i \in 1 .. Len(points) :
       /\ cs[i].total = points[i]
       /\ cs[i].corrupted <= points[i] /\ cs[i].sample <= points[i]
       /\ points[i] > 0 => cs[i].corrupted > 0

\* A list made point by point is as long as the points.
LEMMA MadeByPoint ==
  ASSUME NEW points \in Seq(Nat), NEW cs, cs = [ i \in 1 .. Len(points) |-> cs[i] ]
  PROVE  Len(cs) = Len(points)
<1> DEFINE S == { cs[i] : i \in 1 .. Len(points) }
<1>1. cs \in [ 1 .. Len(points) -> S ]
  OBVIOUS
<1> HIDE DEF S
<1> QED
  BY <1>1, LenProperties, LengthOfMap

\* What the fields of a command line for one axis are.
LEMMA FileFields ==
  ASSUME NEW c \in CommandType
  PROVE  c.corruptedRatio \in RatioType /\ c.sampleRatio \in RatioType
BY DEF CommandType

\* What a configuration of a file is.
LEMMA PdpMeasures ==
  ASSUME NEW config, NEW total, NEW corrupted, NEW sample,
         config = PdpConfig(total, corrupted, sample)
  PROVE  config.total = total /\ config.corrupted = corrupted /\ config.sample = sample
BY DEF PdpConfig

\* PdpFixedRatioStrategy measures every point once.
LEMMA FixedRatioMeasures ==
  ASSUME NEW c \in CommandType, c.axis.accepted
  PROVE  Measured(FixedRatioConfigs(c), c.axis.points)
<1> DEFINE points == c.axis.points
           cs == [ i \in 1 .. Len(points) |->
                     FixedRatioConfig(points[i], c.corruptedRatio, c.sampleRatio) ]
<1>1. points \in Seq(Nat)
  BY CommandFields, AxisFields
<1>2. FixedRatioConfigs(c) = cs
  BY DEF FixedRatioConfigs
<1>3. Len(cs) = Len(points)
  <2>1. cs = [ i \in 1 .. Len(points) |-> cs[i] ]
    OBVIOUS
  <2> HIDE DEF cs, points
  <2> QED
    BY <1>1, <2>1, MadeByPoint
<1>4. ASSUME NEW i \in 1 .. Len(points)
      PROVE  /\ cs[i].total = points[i]
             /\ cs[i].corrupted <= points[i] /\ cs[i].sample <= points[i]
             /\ points[i] > 0 => cs[i].corrupted > 0
  <2> DEFINE n == points[i]
             damaged == AtMost(Atleast1(Share(n, c.corruptedRatio)), n)
             asked   == AtMost(Atleast1(Share(n, c.sampleRatio)), n)
             config  == cs[i]
  <2>1. config = PdpConfig(n, damaged, asked)
    BY DEF FixedRatioConfig
  <2>2. n \in Nat
    BY <1>1, ElementOfSeq
  <2>3. damaged <= n /\ (n > 0 => damaged > 0) /\ asked <= n
    <3> HIDE DEF n
    <3> QED
      BY <2>2, FileFields, ShareOfFile
  <2>4. config.total = n /\ config.corrupted = damaged /\ config.sample = asked
    <3> HIDE DEF config, n, damaged, asked
    <3> QED
      BY <2>1, PdpMeasures
  <2> HIDE DEF damaged, asked
  <2> QED
    BY <2>3, <2>4
<1> QED
  <2> HIDE DEF cs, points
  <2>1. Measured(cs, points)
    BY <1>3, <1>4 DEF Measured
  <2> QED
    BY <1>2, <2>1 DEF points

\* PdpInverseConfidenceStrategy does, with sizes inverseSampleSize may return.
LEMMA InverseMeasures ==
  ASSUME NEW c \in CommandType, c.axis.accepted,
         NEW size \in SizesFor(c.axis.points, c.targetPositive)
  PROVE  Measured(InverseConfigs(c, size), c.axis.points)
<1> DEFINE points == c.axis.points
           damaged(n) == AtMost(Atleast1(Share(n, c.corruptedRatio)), n)
           cs == [ i \in 1 .. Len(points) |->
                     LET n == points[i] IN PdpConfig(n, damaged(n), size[i]) ]
<1>1. points \in Seq(Nat)
  BY CommandFields, AxisFields
<1>2. InverseConfigs(c, size) = cs
  BY DEF InverseConfigs
<1>3. Len(cs) = Len(points)
  <2>1. cs = [ i \in 1 .. Len(points) |-> cs[i] ]
    OBVIOUS
  <2> HIDE DEF cs, points
  <2> QED
    BY <1>1, <2>1, MadeByPoint
<1>4. ASSUME NEW i \in 1 .. Len(points)
      PROVE  /\ cs[i].total = points[i]
             /\ cs[i].corrupted <= points[i] /\ cs[i].sample <= points[i]
             /\ points[i] > 0 => cs[i].corrupted > 0
  <2> DEFINE n == points[i]
             config  == cs[i]
  <2>1. config = PdpConfig(n, damaged(n), size[i])
    OBVIOUS
  <2>2. n \in Nat
    BY <1>1, ElementOfSeq
  <2>3. damaged(n) <= n /\ (n > 0 => damaged(n) > 0)
    <3> HIDE DEF n
    <3> QED
      BY <2>2, FileFields, ShareOfFile
  <2>4. size[i] <= n
    <3>1. size[i] \in IF c.targetPositive /\ n > 0 THEN 1 .. n ELSE {0}
      BY DEF SizesFor
    <3> HIDE DEF n
    <3> QED
      BY <2>2, <3>1
  <2>5. config.total = n /\ config.corrupted = damaged(n) /\ config.sample = size[i]
    <3> HIDE DEF config, n, damaged
    <3> QED
      BY <2>1, PdpMeasures
  <2> HIDE DEF damaged
  <2> QED
    BY <2>3, <2>4, <2>5
<1> QED
  <2> HIDE DEF cs, points
  <2>1. Measured(cs, points)
    BY <1>3, <1>4 DEF Measured
  <2> QED
    BY <1>2, <2>1 DEF points

------------------------------------------------------------------------------
(* What a sweep over numbers of users measures. *)

\* A sequence of numbers of users, all of them enough, that has x as often as the first k
\* points do, if x is enough.
KeepsOf(seq, points, k) ==
  /\ seq \in Seq(Nat)
  /\ \A i \in 1 .. Len(seq) : EnoughUsers(seq[i])
  /\ \A x \in Nat : EnoughUsers(x) =>
       CountIn(Len(seq), seq, x) = CountIn(k, points, x)

\* Nothing is kept of no points.
LEMMA KeepsNothing ==
  ASSUME NEW points
  PROVE  KeepsOf(<<>>, points, 0)
<1>1. <<>> \in Seq(Nat) /\ Len(<<>>) = 0
  BY EmptySeq
<1>2. 1 .. 0 = {}
  OBVIOUS
<1> QED
  BY <1>1, <1>2 DEF KeepsOf, CountIn

\* A point with enough users is kept behind the others.
LEMMA KeepsPoint ==
  ASSUME NEW points \in Seq(Nat), NEW k \in Nat, k + 1 <= Len(points),
         NEW seq, KeepsOf(seq, points, k), EnoughUsers(points[k + 1])
  PROVE  KeepsOf(Append(seq, points[k + 1]), points, k + 1)
<1> DEFINE point == points[k + 1]
           more  == Append(seq, point)
           n     == Len(seq)
<1>1. point \in Nat /\ seq \in Seq(Nat) /\ n \in Nat
  <2>1. k + 1 \in 1 .. Len(points)
    BY LenProperties
  <2>2. seq \in Seq(Nat)
    BY DEF KeepsOf
  <2> QED
    BY <2>1, <2>2, ElementOfSeq, LenProperties
<1>2. /\ more \in Seq(Nat) /\ Len(more) = n + 1
      /\ \A i \in 1 .. n : more[i] = seq[i]
      /\ more[n + 1] = point
  BY <1>1, AppendProperties
<1>3. ASSUME NEW i \in 1 .. Len(more) PROVE EnoughUsers(more[i])
  <2>1. i \in 1 .. n \/ i = n + 1
    BY <1>1, <1>2
  <2> HIDE DEF more, point
  <2> QED
    BY <1>2, <2>1 DEF KeepsOf, point
<1>4. ASSUME NEW x \in Nat, EnoughUsers(x)
      PROVE  CountIn(Len(more), more, x) = CountIn(k + 1, points, x)
  <2> DEFINE a == CountIn(n + 1, more, x)
             b == CountIn(n, seq, x)
             c == CountIn(k, points, x)
             d == CountIn(k + 1, points, x)
  <2>1. a = b + IF more[n + 1] = x THEN 1 ELSE 0
    <3>1. n \in Nat /\ \A i \in 1 .. n : more[i] = seq[i]
      BY <1>1, <1>2
    <3> HIDE DEF more, n, point
    <3> QED
      BY <3>1, OneMore
  <2>2. d = c + IF points[k + 1] = x THEN 1 ELSE 0
    BY OneMore
  <2>3. b = c
    BY <1>4 DEF KeepsOf
  <2>4. a = d
    <3> HIDE DEF a, b, c, d, more
    <3> QED
      BY <1>2, <2>1, <2>2, <2>3
  <2> HIDE DEF more
  <2> QED
    BY <1>2, <2>4
<1> HIDE DEF more, n, point
<1>5. KeepsOf(more, points, k + 1)
  BY <1>2, <1>3, <1>4 DEF KeepsOf
<1> QED
  BY <1>5 DEF more, point

\* One without is left out.
LEMMA SkipsPoint ==
  ASSUME NEW points \in Seq(Nat), NEW k \in Nat, k + 1 <= Len(points),
         NEW seq, KeepsOf(seq, points, k), ~ EnoughUsers(points[k + 1])
  PROVE  KeepsOf(seq, points, k + 1)
<1>1. ASSUME NEW x \in Nat, EnoughUsers(x)
      PROVE  CountIn(Len(seq), seq, x) = CountIn(k + 1, points, x)
  <2> DEFINE c == CountIn(k, points, x)
             d == CountIn(k + 1, points, x)
  <2>1. points[k + 1] # x
    BY <1>1
  <2>2. d = c + IF points[k + 1] = x THEN 1 ELSE 0
    BY OneMore
  <2>3. c \in Nat
    BY CountType
  <2>4. d = c
    <3> HIDE DEF c, d
    <3> QED
      BY <2>1, <2>2, <2>3
  <2> QED
    BY <1>1, <2>4 DEF KeepsOf
<1> QED
  BY <1>1 DEF KeepsOf

\* The points an identity sweep keeps: those with enough users, as often as they were given.
LEMMA PointsWithUsersKeep ==
  ASSUME NEW points \in Seq(Nat)
  PROVE  KeepsOf(PointsWithUsers(points), points, Len(points))
<1> DEFINE n == Len(points)
           f == CHOOSE f : Kept(f, points, n)
           S == { k \in Nat : k <= n => KeepsOf(f[k], points, k) }
<1>1. n \in Nat
  BY LenProperties
<1>2. Kept(f, points, n)
  <2>1. n \in 0 .. n
    BY <1>1
  <2>2. \E g : Kept(g, points, n)
    BY <2>1, KeptExists
  <2> QED
    BY <2>2
<1>3. PointsWithUsers(points) = f[n]
  BY DEF PointsWithUsers, Kept
<1> HIDE DEF f
<1>4. \A i \in 0 .. n :
        f[i] = IF i = 0 THEN <<>>
               ELSE IF EnoughUsers(points[i]) THEN Append(f[i - 1], points[i])
               ELSE f[i - 1]
  BY <1>2, Zenon DEF Kept
<1>5. 0 \in S
  <2>1. 0 \in 0 .. n
    BY <1>1
  <2>2. f[0] = <<>>
    BY <1>4, <2>1, Zenon
  <2> QED
    BY <2>2, KeepsNothing
<1>6. ASSUME NEW k \in Nat, k \in S PROVE k + 1 \in S
  <2> SUFFICES ASSUME k + 1 <= n PROVE KeepsOf(f[k + 1], points, k + 1)
    OBVIOUS
  <2>1. k + 1 \in 0 .. n /\ k + 1 # 0 /\ (k + 1) - 1 = k
    BY <1>1
  <2>2. KeepsOf(f[k], points, k)
    BY <1>1, <1>6
  <2>3. f[k + 1] = IF EnoughUsers(points[k + 1]) THEN Append(f[k], points[k + 1]) ELSE f[k]
    <3>1. f[k + 1] = IF EnoughUsers(points[k + 1]) THEN Append(f[(k + 1) - 1], points[k + 1])
                     ELSE f[(k + 1) - 1]
      BY <1>4, <2>1, Zenon
    <3> QED
      BY <2>1, <3>1
  <2>4. CASE EnoughUsers(points[k + 1])
    BY <2>2, <2>3, <2>4, KeepsPoint
  <2>5. CASE ~ EnoughUsers(points[k + 1])
    BY <2>2, <2>3, <2>5, SkipsPoint
  <2> QED
    BY <2>4, <2>5
<1>7. n \in S
  <2> HIDE DEF S
  <2> QED
    BY <1>1, <1>5, <1>6, SetInduction
<1> QED
  BY <1>1, <1>3, <1>7

\* cs measures every number of users of points that is enough, as often as it is there, and
\* none that is not.
UsersMeasured(cs, points) ==
  /\ \A k \in 1 .. Len(cs) : cs[k].users > 1
  /\ \A i \in 1 .. Len(points) : points[i] > 1 =>
       Occurrences(IdentityConfig(points[i]), cs) = Occurrences(points[i], points)

\* IdentityVerifyStrategy does, in a sweep.
LEMMA IdentityMeasures ==
  ASSUME NEW c \in CommandType, c.sweep, IdentityConfigs(c) # <<>>
  PROVE  c.axis.accepted /\ UsersMeasured(IdentityConfigs(c), c.axis.points)
<1> DEFINE points == c.axis.points
           users  == PointsWithUsers(points)
           cs     == [ i \in 1 .. Len(users) |-> IdentityConfig(users[i]) ]
<1>1. points \in Seq(Nat)
  BY CommandFields, AxisFields
<1>2. c.axis.accepted /\ IdentityConfigs(c) = cs
  BY DEF IdentityConfigs
<1>3. KeepsOf(users, points, Len(points))
  BY <1>1, PointsWithUsersKeep
<1> HIDE DEF users
<1>4. users \in Seq(Nat) /\ Len(users) \in Nat
  BY <1>3, LenProperties DEF KeepsOf
<1>5. Len(cs) = Len(users)
  <2>1. cs = [ i \in 1 .. Len(users) |-> cs[i] ]
    OBVIOUS
  <2> HIDE DEF cs
  <2> QED
    BY <1>4, <2>1, MadeByPoint
<1>6. ASSUME NEW k \in 1 .. Len(users)
      PROVE  cs[k].users > 1 /\ \A x : cs[k] = IdentityConfig(x) <=> users[k] = x
  <2> DEFINE config == cs[k]
  <2>1. config = IdentityConfig(users[k])
    OBVIOUS
  <2>2. users[k] \in Nat /\ EnoughUsers(users[k])
    BY <1>3, <1>4, ElementOfSeq DEF KeepsOf
  <2> HIDE DEF cs, config
  <2>3. config.users = users[k]
    BY <2>1 DEF IdentityConfig
  <2>4. config.users > 1
    BY <2>2, <2>3 DEF EnoughUsers
  <2>5. \A x : config = IdentityConfig(x) <=> users[k] = x
    <3>1. \A x : IdentityConfig(x).users = x
      BY DEF IdentityConfig
    <3> QED
      BY <2>1, <2>3, <3>1
  <2> QED
    BY <2>4, <2>5 DEF config
<1>7. ASSUME NEW i \in 1 .. Len(points), points[i] > 1
      PROVE  Occurrences(IdentityConfig(points[i]), cs) = Occurrences(points[i], points)
  <2>1. points[i] \in Nat
    BY <1>1, ElementOfSeq
  <2>2. EnoughUsers(points[i])
    BY <1>7, <2>1 DEF EnoughUsers
  <2> DEFINE x == points[i]
  <2>3. { k \in 1 .. Len(cs) : cs[k] = IdentityConfig(x) } = { k \in 1 .. Len(users) : users[k] = x }
    <3> HIDE DEF cs, x
    <3> QED
      BY <1>5, <1>6
  <2>4. CountIn(Len(users), users, x) = CountIn(Len(points), points, x)
    <3> HIDE DEF points
    <3> QED
      BY <1>3, <2>1, <2>2 DEF KeepsOf
  <2> HIDE DEF cs, points
  <2> QED
    BY <2>3, <2>4 DEF Occurrences, CountIn
<1>8. UsersMeasured(cs, points)
  <2> HIDE DEF cs, points
  <2> QED
    BY <1>5, <1>6, <1>7 DEF UsersMeasured
<1> QED
  BY <1>2, <1>8

------------------------------------------------------------------------------
(* What is measured is what the axes say. *)

\* The configurations are made once, and of the command line.
LEMMA ExpandedStep ==
  ASSUME ExpandedInv, [Next]_vars
  PROVE  ExpandedInv'
<1>1. CASE ExpandConfigs
  <2>1. PICK size \in SizesFor(command.axis.points, command.targetPositive) :
          configs' = Expand(command, size)
    BY <1>1 DEF ExpandConfigs
  <2>2. command' = command
    BY <1>1 DEF ExpandConfigs
  <2> QED
    BY <2>1, <2>2 DEF ExpandedInv
<1>2. CASE UNCHANGED <<command, configs>>
  BY <1>2 DEF ExpandedInv
<1>3. ExpandConfigs \/ UNCHANGED <<command, configs>>
  <2>1. CASE Scan \/ LoadLibrary \/ LoadThrows \/ Refuse \/ WorkerCrashes \/ EndSweep
    BY <2>1 DEF Scan, LoadLibrary, LoadThrows, Refuse, WorkerCrashes, EndSweep
  <2>2. CASE WorkerStarts \/ WorkerEnds
    BY <2>2 DEF WorkerStarts, WorkerEnds, Sweeping, appVars
  <2>3. CASE RunReturns \/ NextConfig \/ RunThrows
    BY <2>3 DEF RunReturns, NextConfig, RunThrows
  <2>4. CASE PrintReport \/ WriteJson \/ JsonNotOpened
    BY <2>4 DEF PrintReport, WriteJson, JsonNotOpened
  <2>5. CASE PadOn \/ Done \/ UNCHANGED vars
    BY <2>5 DEF PadOn, Done, vars, appVars
  <2> QED
    BY <2>1, <2>2, <2>3, <2>4, <2>5 DEF Next
<1> QED
  BY <1>1, <1>2, <1>3

\* A sweep of the direct strategy covers the pairs of points of its two axes.
LEMMA DirectCovers ==
  ASSUME command \in CommandType, configs = DirectConfigs(command), configs # <<>>
  PROVE  /\ DirectAccepts(command.t, command.tAxis) /\ DirectAccepts(command.r, command.rAxis)
         /\ CoversPairs(DirectPoints(command.t, command.tAxis),
                        DirectPoints(command.r, command.rAxis))
<1> DEFINE ts == DirectPoints(command.t, command.tAxis)
           rs == DirectPoints(command.r, command.rAxis)
<1>1. /\ DirectAccepts(command.t, command.tAxis) /\ DirectAccepts(command.r, command.rAxis)
      /\ configs = CrossProduct(command.total, ts, rs)
  BY DEF DirectConfigs
<1>2. ts \in Seq(Nat) /\ rs \in Seq(Nat) /\ command.total \in Nat
  BY CommandFields, DirectPointsType
<1> HIDE DEF ts, rs
<1>3. Len(configs) = Len(ts) * Len(rs)
  BY <1>1, <1>2, CrossProductCounts
<1>4. \A x, y : Measures(command.total, x, y) = Occurrences(x, ts) * Occurrences(y, rs)
  <2>1. ASSUME NEW x, NEW y
        PROVE  Measures(command.total, x, y) = Occurrences(x, ts) * Occurrences(y, rs)
    <3>1. PairsIn(configs, command.total, x, y) = Occurrences(x, ts) * Occurrences(y, rs)
      BY <1>1, <1>2, CrossProductCounts
    <3>2. Measures(command.total, x, y) = PairsIn(configs, command.total, x, y)
      BY DEF Measures, PairsIn
    <3> QED
      BY <3>1, <3>2
  <2> QED
    BY <2>1
<1>5. CoversPairs(ts, rs)
  BY <1>3, <1>4 DEF CoversPairs
<1> QED
  BY <1>1, <1>5 DEF ts, rs

\* A list that measures the files of its points covers them.
LEMMA FilesCovered ==
  ASSUME NEW points, Measured(configs, points)
  PROVE  CoversFiles(points)
BY DEF Measured, CoversFiles

\* And so does one for numbers of users.
LEMMA UsersCovered ==
  ASSUME NEW points, UsersMeasured(configs, points)
  PROVE  CoversUsers(points)
BY DEF UsersMeasured, CoversUsers

(***************************************************************************)
(* What a sweep measures is what its axes say, each point or pair of       *)
(* points as often as it was asked for, whatever the command line: no list *)
(* that was refused is replaced by a default, no pair is lost where a      *)
(* point is there twice, and no challenge is longer than its file.         *)
(***************************************************************************)
THEOREM SweepCoversAxes == Spec => []ConfigsCoverAxes
<1>1. Init => ExpandedInv
  BY DEF Init, ExpandedInv
<1>2. ExpandedInv /\ [Next]_vars => ExpandedInv'
  BY ExpandedStep
<1>3. SweepInv /\ ExpandedInv => ConfigsCoverAxes
  <2> SUFFICES ASSUME SweepInv, ExpandedInv, configs # <<>> PROVE ConfigsCoverAxes
    BY DEF ConfigsCoverAxes
  <2>1. command \in CommandType /\ command.computation \in ComputationTypes
    BY CommandTyped DEF SweepInv, ConfigsInv
  <2>2. PICK size \in SizesFor(command.axis.points, command.targetPositive) :
          configs = Expand(command, size)
    BY DEF ExpandedInv
  <2>3. command.threadsValid
    BY <2>2 DEF Expand
  <2>4. CASE command.computation = "PdpDirect"
    <3>1. configs = DirectConfigs(command)
      BY <2>2, <2>3, <2>4 DEF Expand
    <3>2. /\ DirectAccepts(command.t, command.tAxis) /\ DirectAccepts(command.r, command.rAxis)
          /\ CoversPairs(DirectPoints(command.t, command.tAxis),
                         DirectPoints(command.r, command.rAxis))
      BY <2>1, <3>1, DirectCovers
    <3>3. /\ DirectPoints(command.t, command.tAxis)
               = IF command.tAxis.given \/ ~ command.t.set
                 THEN command.tAxis.points ELSE <<command.t.value>>
          /\ DirectPoints(command.r, command.rAxis)
               = IF command.rAxis.given \/ ~ command.r.set
                 THEN command.rAxis.points ELSE <<command.r.value>>
      BY DEF DirectPoints, SingleCounts
    <3>4. /\ command.tAxis.given => command.tAxis.accepted
          /\ command.rAxis.given => command.rAxis.accepted
      BY <3>2 DEF DirectAccepts, SingleCounts
    <3> QED
      BY <2>4, <3>2, <3>3, <3>4 DEF ConfigsCoverAxes
  <2>5. CASE command.computation = "PdpFixedRatio"
    <3>1. configs = FixedRatioConfigs(command)
      BY <2>2, <2>3, <2>5 DEF Expand
    <3>2. command.axis.accepted
      BY <3>1 DEF FixedRatioConfigs
    <3>3. CoversFiles(command.axis.points)
      BY <2>1, <3>1, <3>2, FixedRatioMeasures, FilesCovered
    <3> QED
      BY <2>5, <3>2, <3>3 DEF ConfigsCoverAxes
  <2>6. CASE command.computation = "PdpInverseConfidence"
    <3>1. configs = InverseConfigs(command, size)
      BY <2>2, <2>3, <2>6 DEF Expand
    <3>2. command.axis.accepted
      BY <3>1 DEF InverseConfigs
    <3>3. CoversFiles(command.axis.points)
      BY <2>1, <2>2, <3>1, <3>2, InverseMeasures, FilesCovered
    <3> QED
      BY <2>6, <3>2, <3>3 DEF ConfigsCoverAxes
  <2>7. CASE command.computation = "IdentityVerify"
    <3>1. configs = IdentityConfigs(command)
      BY <2>2, <2>3, <2>7 DEF Expand
    <3>2. command.sweep => command.axis.accepted /\ CoversUsers(command.axis.points)
      BY <2>1, <3>1, IdentityMeasures, UsersCovered
    <3> QED
      BY <2>7, <3>2 DEF ConfigsCoverAxes
  <2> QED
    BY <2>1, <2>4, <2>5, <2>6, <2>7 DEF ComputationTypes
<1> QED
  BY <1>1, <1>2, <1>3, SweepInvariant, PTL DEF Spec
==============================================================================
