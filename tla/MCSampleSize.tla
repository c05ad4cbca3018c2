---------------------------- MODULE MCSampleSize -----------------------------
(***************************************************************************)
(* SampleSize on every file of a few blocks, with targets below, at and    *)
(* above the rates its challenges have.                                    *)
(***************************************************************************)
EXTENDS SampleSize

Sizes    == 0 .. 9
Fractions == { <<-1, 2>>, <<0, 1>>, <<1, 9>>, <<1, 2>>, <<3, 5>>, <<5, 6>>, <<24, 25>>,
               <<44, 45>>, <<1, 1>>, <<3, 2>> }
==============================================================================
