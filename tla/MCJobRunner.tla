------------------------------ MODULE MCJobRunner ------------------------------
(***************************************************************************)
(* Small instances of JobRunner.                                           *)
(***************************************************************************)
EXTENDS JobRunner

CONSTANTS r1, r2, r3, r4
===============================================================================
