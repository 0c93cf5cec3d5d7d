--------------------------- MODULE MCVectorStore ---------------------------
(***************************************************************************)
(* Instance of VectorStore for TLC.                                        *)
(***************************************************************************)
EXTENDS VectorStore, TLC

CONSTANTS e1, e2, k1, k2, i1, i2, i3, i4

Symmetry == Permutations({e1, e2}) \cup Permutations({k1, k2}) \cup Permutations({i1, i2, i3, i4})
=============================================================================
