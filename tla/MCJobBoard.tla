----------------------------- MODULE MCJobBoard -----------------------------
(***************************************************************************)
(* JobBoard for TLC.                                                       *)
(***************************************************************************)
EXTENDS JobBoard, TLC
=============================================================================
