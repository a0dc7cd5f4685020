--------------------------- MODULE MCTokenRefresh ---------------------------
(***************************************************************************)
(* One browser.  Its first tab makes two calls at once; a second one, when *)
(* there is one, makes none.                                               *)
(***************************************************************************)
EXTENDS TokenRefresh, TLC

CONSTANTS u1, t1, t2, t3, r1, r2, a, b, c1, c2

MCUsers == {u1}
MCTokens == {t1, t2, t3}
MCLinks == {}
MCRequests == {r1, r2}
MCOneTab == {a}
MCTwoTabs == {a, b}
MCCalls == {c1, c2}
MCTabOf == c1 :> a @@ c2 :> a
=============================================================================
