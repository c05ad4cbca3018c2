----------------------------- MODULE MCSweepApp ------------------------------
(***************************************************************************)
(* Command lines for SweepApp.  Each family varies what its strategy reads *)
(* and leaves the rest at the default; the last varies what both           *)
(* executables read before they get to a strategy.                         *)
(***************************************************************************)
EXTENDS SweepAppInv

Axis(given, accepted, points) == [ given |-> given, accepted |-> accepted, points |-> points ]
Single(value)   == [ set |-> TRUE, value |-> value ]
NoSingle        == [ set |-> FALSE, value |-> 0 ]
NoAxis          == Axis(FALSE, TRUE, <<1, 2>>)       \* nothing given: the default list
StepOnly        == Axis(FALSE, FALSE, <<1, 2>>)      \* a step without a start
BadList         == Axis(TRUE, FALSE, <<1, 2>>)
List(points)    == Axis(TRUE, TRUE, points)

Default ==
  [ executable |-> "pdp", help |-> FALSE, list |-> FALSE, json |-> TRUE, algorithm |-> TRUE,
    computation |-> "PdpDirect", iterations |-> 1, threadsValid |-> TRUE,
    total |-> 3, t |-> NoSingle, tAxis |-> NoAxis, r |-> NoSingle, rAxis |-> NoAxis,
    axis |-> NoAxis, corruptedRatio |-> <<1, 100>>, sampleRatio |-> <<1, 2>>,
    targetPositive |-> TRUE, ratioSum |-> <<1, 2>>, sweep |-> FALSE, users |-> 2 ]

Axes    == { NoAxis, StepOnly, BadList, List(<<3>>), List(<<2, 2>>), List(<<3, 1>>) }
Singles == { NoSingle, Single(3) }

Direct ==
  { [ Default EXCEPT !.t = single, !.tAxis = axis, !.r = other, !.rAxis = second ] :
      single \in Singles, axis \in Axes, other \in Singles, second \in Axes }

\* A list with an empty file among its points.
Files == { NoAxis, StepOnly, List(<<0, 3>>), List(<<2, 0>>) }

PerFile ==
  { [ Default EXCEPT !.computation = c, !.axis = axis, !.iterations = n,
                     !.corruptedRatio = ratio, !.sampleRatio = ratio, !.targetPositive = positive ] :
      c \in {"PdpFixedRatio", "PdpInverseConfidence"}, axis \in Files, n \in {0, 1},
      ratio \in { <<0, 1>>, <<1, 2>>, <<3, 2>> }, positive \in BOOLEAN }

Identity ==
  { [ Default EXCEPT !.executable = "identity", !.computation = "IdentityVerify",
                     !.axis = axis, !.sweep = sweep, !.users = users, !.ratioSum = sum ] :
      axis \in { NoAxis, StepOnly, List(<<1>>), List(<<3, 1, 2>>) }, sweep \in BOOLEAN,
      users \in {1, 2}, sum \in { <<1, 1>>, <<3, 2>> } }

Common ==
  { [ Default EXCEPT !.executable = executable, !.computation = c, !.help = help, !.list = list,
                     !.json = wanted, !.algorithm = named, !.threadsValid = valid, !.t = Single(1) ] :
      executable \in {"pdp", "identity"}, c \in ComputationTypes \cup {"unknown"},
      help \in BOOLEAN, list \in BOOLEAN, wanted \in BOOLEAN, named \in BOOLEAN, valid \in BOOLEAN }

SomeCommands == Direct \cup PerFile \cup Identity \cup Common

\* A name that fits every banner, one for some of them, one for none.
SomeLengths == {10, 25, 40}
==============================================================================
