--------------------------- MODULE MCSeqTracking ---------------------------
(***************************************************************************)
(* SeqTracking for TLC.                                                    *)
(***************************************************************************)
EXTENDS SeqTracking, TLC

\* The publications are interchangeable.
Symmetry == Permutations(Writer)
=============================================================================
