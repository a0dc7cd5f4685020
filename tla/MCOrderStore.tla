---------------------------- MODULE MCOrderStore ----------------------------
(***************************************************************************)
(* A shop small enough to exhaust: a member with points, a guest, and two  *)
(* orders of a menu entry that is worth one point and costs less than the  *)
(* larger redemption, so that the discount cap bites, a second request is  *)
(* more than is left and one key serves twice.  Two calls move the orders  *)
(* at the same time.                                                       *)
(***************************************************************************)
EXTENDS TransitionTx, TLC

CONSTANTS ama, guest, latte, k1, m1, m2

MCUsers == {ama, guest}
MCGuests == {guest}
MCItems == {latte}
MCSubtotal(c) == 120 * c[latte]
MCOpeningPoints == [u \in MCUsers |-> IF u = ama THEN 200 ELSE 0]
MCOrderIds == 1..2
MCDeliveryFee == 30
MCRequests == {0, 60, 150}
MCKeys == {k1}
MCMovers == {m1, m2}

MCSymmetry == Permutations(MCMovers)

\* Once every order id is taken no cart and no menu can matter to an order any
\* more: behaviours that go on editing them are not followed further.  (Each of
\* them has a twin in which those edits were never made.)
CartsMatter == (\E o \in OrderIds : ~Exists(o)) \/ (offMenu = {} /\ \A u \in Users : Lines(u) = {})
=============================================================================
