------------------------------ MODULE MCIndex ------------------------------
(***************************************************************************)
(* Instance of Index for TLC.                                              *)
(***************************************************************************)
EXTENDS Index

CONSTANTS s1, s2, s3
=============================================================================
