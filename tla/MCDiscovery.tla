---------------------------- MODULE MCDiscovery -----------------------------
(***************************************************************************)
(* Discovery for TLC.                                                      *)
(***************************************************************************)
EXTENDS Discovery

\* The peers send flagged data samples and pings.
MCAsking == (Participant \ {Self}) \X PongKind
=============================================================================
