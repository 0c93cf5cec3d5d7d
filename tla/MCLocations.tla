---------------------------- MODULE MCLocations ----------------------------
(***************************************************************************)
(* Instance of Locations for TLC: two locations with overlapping roots.    *)
(***************************************************************************)
EXTENDS Locations, TLC

CONSTANTS l1, l2, q1, q2, q3, k1, k2

MCOverlapping == {{l1, l2}}

Symmetry == Permutations({l1, l2}) \cup Permutations({q1, q2, q3}) \cup Permutations({k1, k2})
=============================================================================
