------------------------------- MODULE MCScan -------------------------------
(***************************************************************************)
(* Instance of Scan for TLC.                                               *)
(***************************************************************************)
EXTENDS Scan

CONSTANTS e1, e2, p1, p2, s1, s2
=============================================================================
