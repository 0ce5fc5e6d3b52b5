--------------------------- MODULE MCSearchSync ---------------------------
(***************************************************************************)
(* SearchSync for TLC.                                                     *)
(***************************************************************************)
EXTENDS SearchSync, TLC

Symmetry ==
    Permutations(Listings) \cup Permutations(Events)
        \cup Permutations(Replicas) \cup Permutations(Sweeps)
=============================================================================
