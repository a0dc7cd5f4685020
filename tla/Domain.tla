------------------------------- MODULE Domain -------------------------------
(***************************************************************************)
(* The pure rules of the backend: the order lifecycle of                   *)
(* internal/domain/order.go and the loyalty arithmetic of                  *)
(* internal/domain/loyalty.go.  Every other module takes its legality      *)
(* checks and its point arithmetic from here, as the Go packages do.       *)
(* Amounts are integer pesewas, points are integers.                       *)
(***************************************************************************)
EXTENDS Integers

\* The seven values of orders.status.
Statuses == {"pending_payment", "paid", "preparing", "ready",
             "out_for_delivery", "completed", "cancelled"}

Fulfilments == {"pickup", "delivery"}

IsTerminal(s) == s \in {"completed", "cancelled"}

\* A transition to the current status: a success that writes nothing.
IsNoOp(from, to) == from = to

-----------------------------------------------------------------------------
(* The lifecycle graph: the edges both fulfilments share, and the fork     *)
(* after "ready".                                                          *)

CommonTransitions ==
    {<<"pending_payment", "paid">>,   <<"pending_payment", "cancelled">>,
     <<"paid", "preparing">>,         <<"paid", "cancelled">>,
     <<"preparing", "ready">>}

FulfilmentTransitions(f) ==
    IF f = "pickup"
    THEN {<<"ready", "completed">>}
    ELSE {<<"ready", "out_for_delivery">>, <<"out_for_delivery", "completed">>}

AllowedTargets(f, from) ==
    {to \in Statuses : <<from, to>> \in CommonTransitions \cup FulfilmentTransitions(f)}

CanTransition(f, from, to) ==
    /\ f \in Fulfilments
    /\ from \in Statuses
    /\ to \in Statuses
    /\ ~IsTerminal(from)
    /\ to \in AllowedTargets(f, from)

-----------------------------------------------------------------------------
(* Loyalty.                                                                *)

PesewasPerPoint == 1

\* Mutant: the discount may exceed the subtotal.
RedemptionUncapped(request, balance, subtotal) ==
    LET granted == request <= balance
        worth   == IF granted THEN request ELSE 0
    IN  [granted |-> granted, discount |-> worth, spent |-> worth]

\* Mutant: when the cap bites, the surplus points are burned.
RedemptionBurning(request, balance, subtotal) ==
    LET granted  == request <= balance
        discount == IF request > subtotal THEN subtotal ELSE request
    IN  [granted  |-> granted,
         discount |-> IF granted THEN discount ELSE 0,
         spent    |-> IF granted THEN request ELSE 0]

\* What a request to redeem points is worth against a balance and a subtotal.
Redemption(request, balance, subtotal) ==
    LET wanted   == request * PesewasPerPoint
        discount == IF wanted > subtotal THEN subtotal ELSE wanted
        granted  == request >= 0 /\ subtotal >= 0 /\ (request = 0 \/ request <= balance)
    IN  [granted  |-> granted,
         discount |-> IF granted THEN discount ELSE 0,
         spent    |-> IF granted THEN discount \div PesewasPerPoint ELSE 0]

\* One point per whole GHS of subtotal; guests earn nothing.
EarnedPoints(subtotal, isGuest) == IF isGuest THEN 0 ELSE subtotal \div 100
=============================================================================
