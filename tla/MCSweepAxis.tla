----------------------------- MODULE MCSweepAxis -----------------------------
\* SweepAxis and its invariant with a size_t of four bits.
EXTENDS SweepAxisInv

Width4   == 16
SomeOf   == {0, 1, 2, 3, 5, 11, 12, 15}
Growth   == { <<1, 2>>, <<1, 1>>, <<5, 4>>, <<3, 2>>, <<2, 1>>, <<4, 1>> }
CsvLists == { <<>>, <<3>>, <<12, 1, 2>> }
Portions == { <<0, 1>>, <<1, 100>>, <<1, 2>>, <<3, 2>> }
==============================================================================
