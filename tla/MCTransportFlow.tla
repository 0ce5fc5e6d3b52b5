-------------------------- MODULE MCTransportFlow --------------------------
(***************************************************************************)
(* TransportFlow for TLC.  Requests, carriers and slots are model values   *)
(* no definition tells apart, so permuting them is a symmetry.             *)
(***************************************************************************)
EXTENDS TransportFlow, TLC

Symmetry ==
    Permutations(Requests) \cup Permutations(Carriers) \cup Permutations(Calls)
=============================================================================
