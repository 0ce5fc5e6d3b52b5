----------------------------- MODULE MCSessions -----------------------------
(***************************************************************************)
(* Sessions for TLC.  No definition tells tokens, or handlers, apart.      *)
(***************************************************************************)
EXTENDS Sessions, TLC

Symmetry == Permutations(Tokens) \cup Permutations(Calls)
=============================================================================
