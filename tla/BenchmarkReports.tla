-------------------------- MODULE BenchmarkReports ---------------------------
(***************************************************************************)
(* What the four sweep reports show of a sequence of results               *)
(* (benchmark_report.cpp, .h): which results have a row, a block and a     *)
(* JSON element, where the commas are, and what stands for a number that   *)
(* cannot be computed.  Wording, widths and digits are left out.           *)
(*                                                                         *)
(* A result is its configuration's family and numbers, and the iterations  *)
(* it accounts for.  A report keeps pointers: the results' indices, or     *)
(* Null where the result is of another class than the report's.            *)
(***************************************************************************)
EXTENDS Integers, Sequences

Null == 0

ReportFamily(computation) == IF computation = "IdentityVerify" THEN "identity" ELSE "pdp"

Downcast(computation, results) ==
  [ i \in 1 .. Len(results) |->
      IF results[i].family = ReportFamily(computation) THEN i ELSE Null ]

\* The results a report can show.
Shown(pointers) == { i \in 1 .. Len(pointers) : pointers[i] # Null }

------------------------------------------------------------------------------
(* The banner: the algorithm's name, padded to the width of the frame. *)

\* Columns the title leaves for the name.
Room(computation) ==
  CASE computation = "PdpDirect"            -> 60 - 27 - 3
    [] computation = "PdpFixedRatio"        -> 60 - 31 - 3
    [] computation = "PdpInverseConfidence" -> 60 - 38 - 3
    [] computation = "IdentityVerify"       -> 19

\* Turns of the padding loop: size_t arithmetic, below zero it wraps.
PadLen(computation, nameLength, modulus) == (Room(computation) - nameLength) % modulus

------------------------------------------------------------------------------
(* Numbers. *)

\* Text of a quotient: 0/0 is printed as "nan".
Quotient(divisor) == IF divisor = 0 THEN "nan" ELSE "number"

\* Mutated form of IntervalText: the interval of no trial is computed.
IntervalTextComputed(result) == Quotient(result.iterations)

\* wilsonInterval divides by the trials; both texts of it ask for them first.
IntervalText(result) == IF result.iterations = 0 THEN "none" ELSE Quotient(result.iterations)

\* Corrupted and sampled shares of the file, in JSON.
ShareText(result) == IF result.total = 0 THEN "number" ELSE Quotient(result.total)

------------------------------------------------------------------------------
(* toConsole. *)

DividesBySize(computation) == computation \in {"PdpFixedRatio", "PdpInverseConfidence"}

\* These tables divide by the file's size, and leave out the rows of empty files.
Rows(computation, results, pointers) ==
  { i \in Shown(pointers) : DividesBySize(computation) => results[i].total # 0 }

RowTexts(computation, result) ==
  (IF ReportFamily(computation) = "pdp" THEN {IntervalText(result)} ELSE {})
    \cup (IF DividesBySize(computation) THEN {Quotient(result.total)} ELSE {})

NotPrinted == [ rows |-> {}, blocks |-> {}, texts |-> {}, kind |-> "none" ]

\* The identity report names the algorithm kind of its first result.
ConsoleKind(computation, pointers) ==
  IF ReportFamily(computation) = "pdp" THEN "none"
  ELSE IF pointers[1] = Null THEN "Unknown" ELSE "known"

\* "(no results)" without any; otherwise a row each, then a performance block each.
Console(computation, results) ==
  LET pointers == Downcast(computation, results)
      rows     == Rows(computation, results, pointers)
  IN  IF results = <<>> THEN NotPrinted
      ELSE [ rows   |-> rows,
             blocks |-> Shown(pointers),
             texts  |-> UNION { RowTexts(computation, results[i]) : i \in rows },
             kind   |-> ConsoleKind(computation, pointers) ]

------------------------------------------------------------------------------
(* toJson. *)

\* A comma follows an element unless it is at the end of the list, which a skipped
\* result may be.
Commas(pointers) == { i \in Shown(pointers) : i + 1 <= Len(pointers) }

ElementTexts(computation, result) ==
  (IF ReportFamily(computation) = "pdp" THEN {IntervalText(result)} ELSE {})
    \cup (IF DividesBySize(computation) THEN {ShareText(result)} ELSE {})

Json(computation, results) ==
  LET pointers == Downcast(computation, results)
  IN  [ elements |-> Shown(pointers),
        commas   |-> Commas(pointers),
        texts    |-> UNION { ElementTexts(computation, results[i]) : i \in Shown(pointers) } ]
==============================================================================
