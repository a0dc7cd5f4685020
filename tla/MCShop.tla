------------------------------- MODULE MCShop -------------------------------
(***************************************************************************)
(* One customer, one variant, and cart requests that overtake each other.  *)
(***************************************************************************)
EXTENDS CheckoutScreen, TLC

CONSTANTS v1, r1, r2

MCVariants == {v1}
MCRequests == {r1, r2}
MCSymmetry == Permutations(MCRequests)
=============================================================================
