----------------------------- MODULE MCSessions -----------------------------
(***************************************************************************)
(* One user, two requests at once.                                         *)
(***************************************************************************)
EXTENDS Sessions, TLC

CONSTANTS u1, t1, t2, l1, l2, r1, r2

MCUsers == {u1}
MCTokens == {t1, t2}
MCLinks == {l1, l2}
MCRequests == {r1, r2}
=============================================================================
