-------------------------- MODULE MCReconcileLoop --------------------------
(***************************************************************************)
(* Instance of ReconcileLoop for TLC.                                      *)
(***************************************************************************)
EXTENDS ReconcileLoop

CONSTANTS e1, e2, e3, e4, p1, p2, p3, s1, s2

EntrySymmetry == Permutations({e1, e2, e3, e4})
=============================================================================
