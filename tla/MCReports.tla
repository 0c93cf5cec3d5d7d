----------------------------- MODULE MCReports -----------------------------
(***************************************************************************)
(* Instance of Reports for TLC: two paths in each of two locations, two    *)
(* files of equal text and one of another.                                 *)
(***************************************************************************)
EXTENDS Reports

CONSTANTS x, y, z, s, t, r1, r2

MCTextOf == (x :> "a") @@ (y :> "a") @@ (z :> "b")
MCLocOf == <<s, s, t, t>>
MCPathOf == <<1, 2, 1, 2>>
MCMaxChanges == [plan |-> 1, rebuild |-> 1, listing |-> 2]

Symmetry == Permutations({x, y}) \cup Permutations({r1, r2})
=============================================================================
