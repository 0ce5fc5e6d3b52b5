--------------------------- MODULE MCPaymentFlow ---------------------------
(***************************************************************************)
(* PaymentFlow for TLC.                                                    *)
(***************************************************************************)
EXTENDS PaymentFlow, TLC

Symmetry ==
    Permutations(Payments) \cup Permutations(Targets)
        \cup Permutations(Users) \cup Permutations(Jobs)
=============================================================================
