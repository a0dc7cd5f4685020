----------------------------- MODULE MCPayments -----------------------------
(***************************************************************************)
(* The money path for one member with points to redeem: checkout requests, *)
(* two webhook requests at a time, and staff.                              *)
(***************************************************************************)
EXTENDS Payments

CONSTANTS ama, latte, w1, w2

MCUsers == {ama}
MCItems == {latte}
MCSubtotal(c) == 120 * c[latte]
MCOpeningPoints == [u \in MCUsers |-> 200]
MCOneOrder == 1..1
MCRequests == {0, 150}
MCTwoDeliveries == {w1, w2}
=============================================================================
