---------------------------- MODULE OrderPromise ----------------------------
(***************************************************************************)
(* What an order promises its customer, with everything about carts,       *)
(* handlers, fulfilment and tables left out: points offered towards an     *)
(* order are put aside when it is placed, leave for good when it is        *)
(* completed and come back in full when it is cancelled; only a paid order *)
(* is ever completed; and both ends are final.                             *)
(***************************************************************************)
EXTENDS Integers

CONSTANTS
    Users,
    OrderIds,
    NoUser        \* the owner of an order not placed yet

VARIABLES
    phase,      \* phase[o]: how far the order has come
    owner,      \* owner[o]: the customer who placed it
    escrow,     \* escrow[o]: points put aside for the order
    balance     \* balance[u]: points the customer can spend

promise == <<phase, owner, escrow, balance>>

Init ==
    /\ phase = [o \in OrderIds |-> "none"]
    /\ owner = [o \in OrderIds |-> NoUser]
    /\ escrow = [o \in OrderIds |-> 0]
    /\ balance \in [Users -> Nat]

Place(o, u, held) ==
    /\ phase[o] = "none"
    /\ held \in 0..balance[u]
    /\ phase' = [phase EXCEPT ![o] = "open"]
    /\ owner' = [owner EXCEPT ![o] = u]
    /\ escrow' = [escrow EXCEPT ![o] = held]
    /\ balance' = [balance EXCEPT ![u] = @ - held]

Pay(o) ==
    /\ phase[o] = "open"
    /\ phase' = [phase EXCEPT ![o] = "paid"]
    /\ UNCHANGED <<owner, escrow, balance>>

Complete(o, reward) ==
    /\ phase[o] = "paid"
    /\ reward \in Nat
    /\ phase' = [phase EXCEPT ![o] = "completed"]
    /\ escrow' = [escrow EXCEPT ![o] = 0]
    /\ balance' = [balance EXCEPT ![owner[o]] = @ + reward]
    /\ UNCHANGED owner

Cancel(o) ==
    /\ phase[o] \in {"open", "paid"}
    /\ phase' = [phase EXCEPT ![o] = "cancelled"]
    /\ escrow' = [escrow EXCEPT ![o] = 0]
    /\ balance' = [balance EXCEPT ![owner[o]] = @ + escrow[o]]
    /\ UNCHANGED owner

\* Points put aside and rewards are any natural numbers: each is read off
\* what the step left behind.
Next ==
    \E o \in OrderIds :
        \/ \E u \in Users : Place(o, u, escrow'[o])
        \/ Pay(o)
        \/ Complete(o, balance'[owner[o]] - balance[owner[o]])
        \/ Cancel(o)

Spec == Init /\ [][Next]_promise
=============================================================================
