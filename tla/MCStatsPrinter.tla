--------------------------- MODULE MCStatsPrinter ---------------------------
(***************************************************************************)
(* StatsPrinter for TLC.                                                   *)
(***************************************************************************)
EXTENDS StatsPrinter, TLC

\* The publications are interchangeable, and so are the heap blocks.
Symmetry == Permutations(Writer) \cup Permutations(PongWriter) \cup Permutations(Buffer)
=============================================================================
