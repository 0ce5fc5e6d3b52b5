----------------------------- MODULE MCAccounts -----------------------------
(***************************************************************************)
(* Accounts for TLC.                                                       *)
(***************************************************************************)
EXTENDS Accounts, TLC

Symmetry == Permutations(Calls) \cup Permutations(Fills)
=============================================================================
