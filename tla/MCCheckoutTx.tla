---------------------------- MODULE MCCheckoutTx ----------------------------
(***************************************************************************)
(* Two checkouts and two cart requests, of one customer or of two, with    *)
(* points for one redemption and one idempotency key between them.         *)
(***************************************************************************)
EXTENDS CheckoutTx, TLC

CONSTANTS ama, kofi, latte, k1, c1, c2, e1, e2

MCUsers == {ama, kofi}
MCOneUser == {ama}
MCItems == {latte}
MCSubtotal(c) == 120 * c[latte]
MCRequests == {0, 100}
MCKeys == {k1}
MCOpeningPoints == [u \in Users |-> 150]
MCCheckouts == {c1, c2}
MCEdits == {e1, e2}

Requests == Permutations(MCCheckouts) \cup Permutations(Edits)
=============================================================================
