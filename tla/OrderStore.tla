----------------------------- MODULE OrderStore -----------------------------
(***************************************************************************)
(* The order tables of internal/store (orders.go, and cart.go as far as    *)
(* checkout reads it): orders, order_events, loyalty_ledger and            *)
(* cart_lines, with one action per committed transaction.  The statements  *)
(* inside the checkout transaction and the row locks that let it count as  *)
(* one step are the subject of CheckoutTx; the handlers that call these    *)
(* transactions are the subject of Payments.                               *)
(***************************************************************************)
EXTENDS Domain, Sequences

CONSTANTS
    Users, Guests,      \* customers, and those with users.is_guest
    OrderIds,           \* the ids orders.id can generate
    Items,              \* item variants: what a cart line is of
    MaxQuantity,        \* bound on the quantity of a line
    Subtotal(_),        \* pesewas of a cart: price times quantity, summed
    DeliveryFee,        \* the flat fee of the configuration
    RedeemRequests,     \* points a checkout may ask to redeem
    Keys,               \* idempotency keys clients generate
    OpeningPoints,      \* points[u] from orders before the modelled ones
    NoKey, NoUser

ASSUME OrderIdsAssumption == OrderIds \subseteq Nat
ASSUME GuestsAssumption == Guests \subseteq Users
ASSUME QuantityAssumption == MaxQuantity \in Nat \ {0}
ASSUME SubtotalAssumption == \A c \in [Items -> 0..MaxQuantity] : Subtotal(c) \in Nat
ASSUME FeeAssumption == DeliveryFee \in Nat
ASSUME RequestAssumption == RedeemRequests \subseteq Nat
ASSUME OpeningAssumption ==
    /\ OpeningPoints \in [Users -> Nat]
    /\ \A u \in Guests : OpeningPoints[u] = 0
ASSUME NoneAssumption == NoKey \notin Keys /\ NoUser \notin Users

VARIABLES
    cart,         \* cart[u][i]: the quantity of i in the user's cart, 0 without a line
    offMenu,      \* variants of items whose is_available is false
    orders,       \* orders[o]: the columns written once, at checkout
    status,       \* orders.status, "absent" while the row does not exist
    referenced,   \* referenced[o]: paystack_reference is not NULL
    history,      \* history[o]: the order_events rows of o, by id
    ledger,       \* ledger[o][reason]: what o's rows of that reason add up to
    points        \* points[u]: SUM(delta) over the user's ledger rows

storeVars == <<cart, offMenu, orders, status, referenced, history, ledger, points>>

Actors == {"staff", "system"}
Reasons == {"redeem_at_checkout", "earn_on_completion", "refund_on_cancel"}

OrderRow == [user : Users \cup {NoUser}, fulfilment : Fulfilments,
             subtotal : Nat, fee : Nat, discount : Nat, total : Nat,
             key : Keys \cup {NoKey}]
EventRow == [from : Statuses, to : Statuses, actor : Actors]

\* The row of an order id nothing was inserted under.
BlankRow == [user |-> NoUser, fulfilment |-> "pickup", subtotal |-> 0, fee |-> 0,
             discount |-> 0, total |-> 0, key |-> NoKey]

Exists(o) == status[o] # "absent"

\* The identity column hands out ids in increasing order (a rolled-back
\* checkout skips one, which nothing can tell).
NextId(o) == ~Exists(o) /\ \A p \in OrderIds : p < o => Exists(p)
-----------------------------------------------------------------------------
(* Carts and the menu, as far as checkout depends on them.                 *)

EmptyCart == [i \in Items |-> 0]
Lines(u) == {i \in Items : cart[u][i] > 0}

\* The quantity of an existing line goes up.
AddCartItem(u, i, quantity) ==
    /\ i \notin offMenu
    /\ cart[u][i] + quantity <= MaxQuantity
    /\ cart' = [cart EXCEPT ![u][i] = @ + quantity]
    /\ UNCHANGED <<offMenu, orders, status, referenced, history, ledger, points>>

\* Availability is not looked at.
UpdateCartLine(u, i, quantity) ==
    /\ i \in Lines(u)
    /\ cart' = [cart EXCEPT ![u][i] = quantity]
    /\ UNCHANGED <<offMenu, orders, status, referenced, history, ledger, points>>

RemoveCartLine(u, i) ==
    /\ i \in Lines(u)
    /\ cart' = [cart EXCEPT ![u][i] = 0]
    /\ UNCHANGED <<offMenu, orders, status, referenced, history, ledger, points>>

SetItemAvailability(i, available) ==
    /\ offMenu' = IF available THEN offMenu \ {i} ELSE offMenu \cup {i}
    /\ UNCHANGED <<cart, orders, status, referenced, history, ledger, points>>
-----------------------------------------------------------------------------
\* Mutant: the delta is entered with the wrong sign.
PostLedgerNegated(o, u, reason, delta) ==
    /\ ledger' = [ledger EXCEPT ![o][reason] = @ - delta]
    /\ points' = [points EXCEPT ![u] = @ - delta]

\* INSERT INTO loyalty_ledger: a row for order o moves its owner's sum.
PostLedger(o, u, reason, delta) ==
    /\ ledger' = [ledger EXCEPT ![o][reason] = @ + delta]
    /\ points' = [points EXCEPT ![u] = @ + delta]

KeyTaken(key) == key # NoKey /\ \E o \in OrderIds : Exists(o) /\ orders[o].key = key

\* The checks of Store.Checkout in the order the code makes them.
CheckoutReply(u, request, key) ==
    IF Lines(u) = {} THEN "empty_cart"
    ELSE IF Lines(u) \cap offMenu # {} THEN "unavailable"
    ELSE IF ~Redemption(request, points[u], Subtotal(cart[u])).granted THEN "insufficient_points"
    ELSE IF KeyTaken(key) THEN "duplicate_order"
    ELSE "created"

\* A checkout that commits; any other reply rolls everything back.
Checkout(o, u, f, request, key) ==
    LET subtotal   == Subtotal(cart[u])
        fee        == IF f = "delivery" THEN DeliveryFee ELSE 0
        redemption == Redemption(request, points[u], subtotal)
    IN  /\ NextId(o)
        /\ CheckoutReply(u, request, key) = "created"
        /\ orders' = [orders EXCEPT ![o] =
               [user |-> u, fulfilment |-> f, subtotal |-> subtotal, fee |-> fee,
                discount |-> redemption.discount,
                total |-> subtotal + fee - redemption.discount, key |-> key]]
        /\ status' = [status EXCEPT ![o] = "pending_payment"]
        /\ PostLedger(o, u, "redeem_at_checkout", -redemption.spent)
        /\ cart' = [cart EXCEPT ![u] = EmptyCart]
        /\ UNCHANGED <<offMenu, referenced, history>>

SetPaystackReference(o) ==
    /\ Exists(o)
    /\ referenced' = [referenced EXCEPT ![o] = TRUE]
    /\ UNCHANGED <<cart, offMenu, orders, status, history, ledger, points>>
-----------------------------------------------------------------------------
TransitionReply(o, to) ==
    IF ~Exists(o) THEN "not_found"
    ELSE IF IsNoOp(status[o], to) THEN "noop"
    ELSE IF ~CanTransition(orders[o].fulfilment, status[o], to) THEN "invalid_transition"
    ELSE "applied"

\* Mutant: a cancelled order keeps the points it was paid with.
SettleWithoutRefund(o, to) ==
    LET row == orders[o] IN
    IF to = "completed"
    THEN PostLedger(o, row.user, "earn_on_completion",
                    EarnedPoints(row.subtotal, row.user \in Guests))
    ELSE UNCHANGED <<ledger, points>>

\* The ledger rows a transition writes beside the status and the event.
Settle(o, to) ==
    LET row == orders[o] IN
    \/ /\ to = "completed"
       /\ PostLedger(o, row.user, "earn_on_completion",
                     EarnedPoints(row.subtotal, row.user \in Guests))
    \/ /\ to = "cancelled"
       /\ PostLedger(o, row.user, "refund_on_cancel", row.discount \div PesewasPerPoint)
    \/ /\ to \notin {"completed", "cancelled"}
       /\ UNCHANGED <<ledger, points>>

\* A transition that changes the order; the other replies change nothing.
TransitionOrder(o, to, actor) ==
    /\ TransitionReply(o, to) = "applied"
    /\ status' = [status EXCEPT ![o] = to]
    /\ history' = [history EXCEPT ![o] =
           Append(@, [from |-> status[o], to |-> to, actor |-> actor])]
    /\ Settle(o, to)
    /\ UNCHANGED <<cart, offMenu, orders, referenced>>
-----------------------------------------------------------------------------
StoreInit ==
    /\ cart = [u \in Users |-> EmptyCart]
    /\ offMenu = {}
    /\ orders = [o \in OrderIds |-> BlankRow]
    /\ status = [o \in OrderIds |-> "absent"]
    /\ referenced = [o \in OrderIds |-> FALSE]
    /\ history = [o \in OrderIds |-> <<>>]
    /\ ledger = [o \in OrderIds |-> [r \in Reasons |-> 0]]
    /\ points = OpeningPoints

\* Who asks for a transition: the webhook (no actor) for "paid", cancelDangling
\* (no actor) or staff for "cancelled", staff for everything else.
ActorsFor(to) ==
    CASE to = "paid"      -> {"system"}
      [] to = "cancelled" -> Actors
      [] OTHER            -> {"staff"}

EditCart(u) ==
    \E i \in Items :
        \/ \E quantity \in 1..MaxQuantity : AddCartItem(u, i, quantity) \/ UpdateCartLine(u, i, quantity)
        \/ RemoveCartLine(u, i)

StoreNext ==
    \/ \E u \in Users : EditCart(u)
    \/ \E i \in Items, available \in BOOLEAN : SetItemAvailability(i, available)
    \/ \E o \in OrderIds, u \in Users, f \in Fulfilments,
          request \in RedeemRequests, key \in Keys \cup {NoKey} :
              Checkout(o, u, f, request, key)
    \/ \E o \in OrderIds : SetPaystackReference(o)
    \/ \E o \in OrderIds, to \in Statuses :
          \E actor \in ActorsFor(to) : TransitionOrder(o, to, actor)

StoreSpec == StoreInit /\ [][StoreNext]_storeVars
-----------------------------------------------------------------------------
(* Properties.                                                             *)

\* The shape of the tables: ledger rows carry the sign their reason says
\* (orders.go inserts -pointsSpent, +points and +discount).
TypeOK ==
    /\ cart \in [Users -> [Items -> 0..MaxQuantity]]
    /\ offMenu \subseteq Items
    /\ orders \in [OrderIds -> OrderRow]
    /\ status \in [OrderIds -> Statuses \cup {"absent"}]
    /\ referenced \in [OrderIds -> BOOLEAN]
    /\ history \in [OrderIds -> Seq(EventRow)]
    /\ ledger \in [OrderIds -> [Reasons -> Int]]
    /\ points \in [Users -> Int]
    /\ \A o \in OrderIds : /\ ledger[o]["redeem_at_checkout"] <= 0
                           /\ ledger[o]["earn_on_completion"] >= 0
                           /\ ledger[o]["refund_on_cancel"] >= 0

\* However checkouts, completions and cancellations of a user's orders are
\* ordered, the ledger never adds up to less than nothing, and a guest, who
\* can never log in again to spend points, never holds any.
BalancesAreSound ==
    /\ \A u \in Users : points[u] >= 0
    /\ \A u \in Guests : points[u] = 0

\* Points and lifecycle never disagree: an order's redemption is debited once,
\* given back once and only if the order is cancelled, and the earning is
\* credited once and only if it is completed (TransitionOrder's comments).
LedgerMatchesLifecycle ==
    \A o \in OrderIds :
        LET row == orders[o] IN
        /\ ledger[o]["redeem_at_checkout"] = -row.discount
        /\ ledger[o]["refund_on_cancel"] = IF status[o] = "cancelled" THEN row.discount ELSE 0
        /\ ledger[o]["earn_on_completion"] =
               IF status[o] = "completed" THEN EarnedPoints(row.subtotal, row.user \in Guests) ELSE 0

\* A discount eats into the subtotal only: the total of an order that exists
\* never falls below its delivery fee (the rule of domain.Redemption).
TotalCoversDelivery ==
    \A o \in OrderIds : /\ orders[o].total >= orders[o].fee
                        /\ orders[o].total + orders[o].discount = orders[o].subtotal + orders[o].fee

\* order_events is a faithful trail: it starts at pending_payment, each row is
\* a legal edge that starts where the one before ended, and it ends at
\* orders.status.
HistoryIsLegalPath ==
    \A o \in OrderIds :
        LET path == history[o]
            last == IF path = <<>> THEN "pending_payment" ELSE path[Len(path)].to
        IN  /\ Exists(o) => status[o] = last
            /\ ~Exists(o) => path = <<>>
            /\ \A i \in 1..Len(path) :
                   /\ CanTransition(orders[o].fulfilment, path[i].from, path[i].to)
                   /\ path[i].from = IF i = 1 THEN "pending_payment" ELSE path[i - 1].to

\* No order is handled before it was paid, and none is marked paid twice:
\* exactly one paid event precedes every status behind "paid".
PaidOnceBeforeHandling ==
    \A o \in OrderIds :
        LET paid == {i \in 1..Len(history[o]) : history[o][i].to = "paid"} IN
        /\ \A i, j \in paid : i = j
        /\ status[o] \in {"paid", "preparing", "ready", "out_for_delivery", "completed"}
               => paid # {}

\* Nothing that happens later touches a settled order: its status, its trail,
\* its ledger rows and the snapshot taken at checkout are final.
SettledIsFinal ==
    [][\A o \in OrderIds :
           /\ Exists(o) => orders'[o] = orders[o]
           /\ IsTerminal(status[o]) => /\ status'[o] = status[o]
                                       /\ history'[o] = history[o]
                                       /\ ledger'[o] = ledger[o]]_storeVars
-----------------------------------------------------------------------------
(* The tables keep the promise: points are in escrow exactly while the     *)
(* order is neither completed nor cancelled.                               *)

PromisedPhase ==
    [o \in OrderIds |->
        CASE status[o] = "absent"          -> "none"
          [] status[o] = "pending_payment" -> "open"
          [] IsTerminal(status[o])         -> status[o]
          [] OTHER                         -> "paid"]

PromisedOwner == [o \in OrderIds |-> orders[o].user]

Escrow ==
    [o \in OrderIds |-> IF status[o] \in Statuses /\ ~IsTerminal(status[o])
                        THEN -ledger[o]["redeem_at_checkout"] ELSE 0]

Promise == INSTANCE OrderPromise WITH
    phase <- PromisedPhase, owner <- PromisedOwner, escrow <- Escrow, balance <- points

\* Every transaction on the tables is a step the order promises, or changes
\* nothing the promise is about.
KeepsPromise == Promise!Spec
=============================================================================
