------------------------------ MODULE MCBackup ------------------------------
(***************************************************************************)
(* Instance of Backup for TLC.                                             *)
(***************************************************************************)
EXTENDS Backup, TLC

CONSTANTS r1, r2

\* Cut short before the first file, and after all but the last.
MCInterrupted == {NoDir, [NoDir EXCEPT !["globals"] = "good", !["dump"] = "bad"]}

Symmetry == Permutations({r1, r2})
=============================================================================
