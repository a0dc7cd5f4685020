----------------------------- MODULE CheckoutTx -----------------------------
(***************************************************************************)
(* What OrderStore takes as one step: the statements of Store.Checkout     *)
(* inside their transaction, against other checkouts, against the cart     *)
(* edits of internal/store/cart.go, whose statements commit one by one,    *)
(* and against TransitionOrder's ledger rows.  PostgreSQL runs at READ     *)
(* COMMITTED: a statement sees what had committed when it started, and a   *)
(* row lock is held until its transaction ends.  Each request of the model *)
(* runs once.                                                              *)
(***************************************************************************)
EXTENDS Domain, FiniteSets

CONSTANTS
    Users, Items,
    MaxQuantity,        \* bound on the quantity of a line
    Subtotal(_),        \* pesewas of a cart
    RedeemRequests,     \* points a checkout may ask to redeem
    Keys, NoKey,        \* idempotency keys, and none given
    OpeningPoints,      \* balances before the modelled orders
    Checkouts, Edits    \* checkout requests and cart requests

ASSUME QuantityAssumption == MaxQuantity \in Nat \ {0}
ASSUME SubtotalAssumption == \A c \in [Items -> 0..MaxQuantity] : Subtotal(c) \in Nat
ASSUME RequestAssumption == RedeemRequests \subseteq Nat
ASSUME OpeningAssumption == OpeningPoints \in [Users -> Nat]
ASSUME EditsAssumption == IsFiniteSet(Edits)

VARIABLES
    cart,       \* cart[u][i]: committed quantity of i in the user's cart, 0 without a row
    lineId,     \* lineId[u][i]: id of the latest cart_lines row of i, 0 before the first
    offMenu,    \* variants whose item is not available
    orders,     \* committed orders
    points,     \* points[u]: committed sum of the user's ledger
    tx,         \* tx[c]: the checkout request c and what it has read so far
    held,       \* held[c]: the row and index locks of its transaction
    edit        \* edit[e]: the cart request e

tables == <<cart, lineId, offMenu, orders, points>>
vars == <<tables, tx, held, edit>>

Refusals == {"empty_cart", "unavailable", "insufficient_points", "duplicate_order", "error"}
TxStages == {"cart", "read", "user", "balance", "insert", "clear", "commit"}
EditStages == {"cart", "menu", "write"}

EmptyCart == [i \in Items |-> 0]
Lines(c) == {i \in Items : c[i] > 0}

CartLock(u) == <<"carts", u>>
UserLock(u) == <<"users", u>>
KeyLock(k) == <<"orders_idempotency_key", k>>
LineLock(u, i) == <<"cart_lines", u, i>>

\* No other open transaction holds it.
Free(lock, c) == \A d \in Checkouts \ {c} : lock \notin held[d]

\* Mutant: the statements run on the pool, not on the transaction.
HoldsNothing(c, locks) == held' = [held EXCEPT ![c] = {}]

\* Locks stay until the transaction ends.
Holds(c, locks) == held' = [held EXCEPT ![c] = @ \cup locks]
-----------------------------------------------------------------------------
(* Store.Checkout.                                                         *)

BeginCheckout(c, u, request, key) ==
    /\ tx[c].stage = "idle"
    /\ tx' = [tx EXCEPT ![c] =
           [stage |-> "cart", user |-> u, request |-> request, key |-> key,
            view |-> EmptyCart, rows |-> {}, discount |-> 0]]
    /\ UNCHANGED <<tables, held, edit>>

\* Mutant: the transaction of a refused checkout is left open.
EndTxLeaking(c, reply) == tx' = [tx EXCEPT ![c].stage = reply] /\ UNCHANGED held

\* defer tx.Rollback(), or the end of the commit.
EndTx(c, reply) ==
    /\ tx' = [tx EXCEPT ![c].stage = reply]
    /\ held' = [held EXCEPT ![c] = {}]

\* Mutant: the cart is looked up, not upserted.
LockCartPlain(c) ==
    /\ tx[c].stage = "cart"
    /\ tx' = [tx EXCEPT ![c].stage = "read"]
    /\ UNCHANGED <<tables, held, edit>>

\* getOrCreateCartID: the upsert locks the cart's row.
LockCart(c) ==
    /\ tx[c].stage = "cart"
    /\ Free(CartLock(tx[c].user), c)
    /\ Holds(c, {CartLock(tx[c].user)})
    /\ tx' = [tx EXCEPT ![c].stage = "read"]
    /\ UNCHANGED <<tables, edit>>

\* cartView, and the two checks on it.
ReadCart(c) ==
    LET view == cart[tx[c].user] IN
    /\ tx[c].stage = "read"
    /\ \/ /\ Lines(view) = {}
          /\ EndTx(c, "empty_cart")
       \/ /\ Lines(view) \cap offMenu # {}
          /\ EndTx(c, "unavailable")
       \/ /\ Lines(view) # {}
          /\ Lines(view) \cap offMenu = {}
          /\ tx' = [tx EXCEPT ![c].view = view,
                              ![c].rows = {<<i, lineId[tx[c].user][i]>> : i \in Lines(view)},
                              ![c].stage = IF tx[c].request = 0 THEN "insert" ELSE "user"]
          /\ UNCHANGED held
    /\ UNCHANGED <<tables, edit>>

\* SELECT id FROM users ... FOR UPDATE.
LockUser(c) ==
    /\ tx[c].stage = "user"
    /\ Free(UserLock(tx[c].user), c)
    /\ Holds(c, {UserLock(tx[c].user)})
    /\ tx' = [tx EXCEPT ![c].stage = "balance"]
    /\ UNCHANGED <<tables, edit>>

ReadBalance(c) ==
    LET redemption == Redemption(tx[c].request, points[tx[c].user], Subtotal(tx[c].view)) IN
    /\ tx[c].stage = "balance"
    /\ \/ /\ redemption.granted
          /\ tx' = [tx EXCEPT ![c].discount = redemption.discount, ![c].stage = "insert"]
          /\ UNCHANGED held
       \/ /\ ~redemption.granted
          /\ EndTx(c, "insufficient_points")
    /\ UNCHANGED <<tables, edit>>

\* Mutant: the unique index on the key is missing.
KeyCommittedNever(key) == FALSE

KeyCommitted(key) == key # NoKey /\ \E o \in orders : o.key = key

\* INSERT INTO orders: the unique index waits for an open insert of the same
\* key, the foreign key for a lock on the user.  The order's lines and its
\* redemption row go in unseen by others until the commit.
InsertOrder(c) ==
    LET key == tx[c].key IN
    /\ tx[c].stage = "insert"
    /\ Free(UserLock(tx[c].user), c)
    /\ \/ /\ KeyCommitted(key)
          /\ EndTx(c, "duplicate_order")
       \/ /\ ~KeyCommitted(key)
          /\ key # NoKey => Free(KeyLock(key), c)
          /\ Holds(c, IF key = NoKey THEN {} ELSE {KeyLock(key)})
          /\ tx' = [tx EXCEPT ![c].stage = "clear"]
    /\ UNCHANGED <<tables, edit>>

\* DELETE FROM cart_lines: whatever rows the cart has now.
ClearCart(c) ==
    LET u == tx[c].user IN
    /\ tx[c].stage = "clear"
    /\ \A i \in Lines(cart[u]) : Free(LineLock(u, i), c)
    /\ Holds(c, {LineLock(u, i) : i \in Lines(cart[u])})
    /\ tx' = [tx EXCEPT ![c].stage = "commit"]
    /\ UNCHANGED <<tables, edit>>

\* The points a discount stands for, spent or given back.
PointsOf(row) == row.discount \div PesewasPerPoint

Commit(c) ==
    LET u == tx[c].user
        cleared == {i \in Items : LineLock(u, i) \in held[c]} IN
    /\ tx[c].stage = "commit"
    /\ orders' = orders \cup
           {[by |-> c, user |-> u, key |-> tx[c].key, lines |-> tx[c].view,
             rows |-> tx[c].rows, discount |-> tx[c].discount, settled |-> FALSE]}
    /\ points' = [points EXCEPT ![u] = @ - PointsOf(tx[c])]
    /\ cart' = [cart EXCEPT ![u] = [i \in Items |-> IF i \in cleared THEN 0 ELSE @[i]]]
    /\ EndTx(c, "created")
    /\ UNCHANGED <<lineId, offMenu, edit>>

\* The client hangs up, a statement or the commit fails: all is rolled back.
Fail(c) ==
    /\ tx[c].stage \in TxStages
    /\ EndTx(c, "error")
    /\ UNCHANGED <<tables, edit>>
-----------------------------------------------------------------------------
(* AddCartItem, UpdateCartLine and RemoveCartLine: the upsert that finds   *)
(* the cart waits for its row and commits at once; the write comes later.  *)

BeginEdit(e, u, i, kind, quantity) ==
    /\ edit[e].stage = "idle"
    /\ kind # "add" => lineId[u][i] > 0
    /\ edit' = [edit EXCEPT ![e] =
           [stage |-> "cart", user |-> u, item |-> i, kind |-> kind,
            quantity |-> quantity, line |-> lineId[u][i]]]
    /\ UNCHANGED <<tables, tx, held>>

FindCart(e) ==
    /\ edit[e].stage = "cart"
    /\ \A c \in Checkouts : CartLock(edit[e].user) \notin held[c]
    /\ edit' = [edit EXCEPT ![e].stage = IF edit[e].kind = "add" THEN "menu" ELSE "write"]
    /\ UNCHANGED <<tables, tx, held>>

CheckMenu(e) ==
    /\ edit[e].stage = "menu"
    /\ edit' = [edit EXCEPT ![e].stage = IF edit[e].item \in offMenu THEN "unavailable" ELSE "write"]
    /\ UNCHANGED <<tables, tx, held>>

\* A row a checkout has deleted keeps the statement waiting until it is known
\* whether the row is gone.  (The foreign key of a new row may make the insert
\* wait for the cart as well; not requiring that only adds behaviours.)
WriteLine(e) ==
    LET u == edit[e].user
        i == edit[e].item
        q == edit[e].quantity
        hit == cart[u][i] > 0 /\ lineId[u][i] = edit[e].line IN
    /\ edit[e].stage = "write"
    /\ \A c \in Checkouts : LineLock(u, i) \notin held[c]
    /\ \/ /\ edit[e].kind = "add"
          /\ cart[u][i] + q <= MaxQuantity
          /\ cart' = [cart EXCEPT ![u][i] = @ + q]
          /\ lineId' = IF cart[u][i] = 0 THEN [lineId EXCEPT ![u][i] = @ + 1] ELSE lineId
          /\ edit' = [edit EXCEPT ![e].stage = "ok"]
       \/ /\ edit[e].kind # "add"
          /\ hit
          /\ cart' = [cart EXCEPT ![u][i] = IF edit[e].kind = "update" THEN q ELSE 0]
          /\ edit' = [edit EXCEPT ![e].stage = "ok"]
          /\ UNCHANGED lineId
       \/ /\ edit[e].kind # "add"
          /\ ~hit
          /\ edit' = [edit EXCEPT ![e].stage = "not_found"]
          /\ UNCHANGED <<cart, lineId>>
    /\ UNCHANGED <<offMenu, orders, points, tx, held>>
-----------------------------------------------------------------------------
SetItemAvailability(i, available) ==
    /\ offMenu' = IF available THEN offMenu \ {i} ELSE offMenu \cup {i}
    /\ UNCHANGED <<cart, lineId, orders, points, tx, held, edit>>

\* TransitionOrder's ledger row: the earning of a completed order or the
\* refund of a cancelled one.
Earning(o) == EarnedPoints(Subtotal(o.lines), FALSE)

\* Its foreign key waits for a lock on the user.
SettleOrder(o, delta) ==
    /\ o \in orders
    /\ ~o.settled
    /\ \A c \in Checkouts : UserLock(o.user) \notin held[c]
    /\ orders' = (orders \ {o}) \cup {[o EXCEPT !.settled = TRUE]}
    /\ points' = [points EXCEPT ![o.user] = @ + delta]
    /\ UNCHANGED <<cart, lineId, offMenu, tx, held, edit>>
-----------------------------------------------------------------------------
Init ==
    /\ cart = [u \in Users |-> EmptyCart]
    /\ lineId = [u \in Users |-> EmptyCart]
    /\ offMenu = {}
    /\ orders = {}
    /\ points = OpeningPoints
    /\ tx = [c \in Checkouts |-> [stage |-> "idle"]]
    /\ held = [c \in Checkouts |-> {}]
    /\ edit = [e \in Edits |-> [stage |-> "idle"]]

CheckoutStep(c) ==
    \/ LockCart(c) \/ ReadCart(c)
    \/ LockUser(c) \/ ReadBalance(c)
    \/ InsertOrder(c) \/ ClearCart(c) \/ Commit(c)

EditStep(e) == FindCart(e) \/ CheckMenu(e) \/ WriteLine(e)

Next ==
    \/ \E c \in Checkouts :
          \/ \E u \in Users, request \in RedeemRequests, key \in Keys \cup {NoKey} :
                 BeginCheckout(c, u, request, key)
          \/ CheckoutStep(c)
          \/ Fail(c)
    \/ \E e \in Edits :
          \/ \E u \in Users, i \in Items, kind \in {"add", "update", "remove"},
                quantity \in 1..MaxQuantity : BeginEdit(e, u, i, kind, quantity)
          \/ EditStep(e)
    \/ \E i \in Items, available \in BOOLEAN : SetItemAvailability(i, available)
    \/ \E o \in orders : SettleOrder(o, Earning(o)) \/ SettleOrder(o, PointsOf(o))

Spec == Init /\ [][Next]_vars
-----------------------------------------------------------------------------
(* Properties.                                                             *)

TypeOK ==
    /\ cart \in [Users -> [Items -> 0..MaxQuantity]]
    /\ lineId \in [Users -> [Items -> 0..Cardinality(Edits)]]
    /\ offMenu \subseteq Items
    /\ points \in [Users -> Int]
    /\ \A c \in Checkouts : tx[c].stage \in TxStages \cup Refusals \cup {"idle", "created"}
    /\ \A e \in Edits : edit[e].stage \in EditStages \cup {"idle", "ok", "not_found", "unavailable"}
    /\ \A c \in Checkouts : tx[c].stage \notin TxStages => held[c] = {}

\* Two tabs, a double click or a retry cannot turn one cart into two orders:
\* no cart_lines row is sold by two orders.
NoLineSoldTwice ==
    \A o1, o2 \in orders : o1.user = o2.user /\ o1 # o2 => o1.rows \cap o2.rows = {}

\* Concurrent checkouts never spend the same points (the promise of the
\* comment above the user lock and of its test).
NoDoubleSpend == \A u \in Users : points[u] >= 0

\* However the checkouts that carry one idempotency key overlap, even for
\* different users, at most one of them becomes an order.
KeysAreUnique ==
    \A o1, o2 \in orders : o1.key = o2.key /\ o1.key # NoKey => o1 = o2

\* The locks c's next statement asks for.
Wanted(c) ==
    CASE tx[c].stage = "cart"   -> {CartLock(tx[c].user)}
      [] tx[c].stage = "user"   -> {UserLock(tx[c].user)}
      [] tx[c].stage = "insert" -> {UserLock(tx[c].user)} \cup
                                   IF tx[c].key = NoKey \/ KeyCommitted(tx[c].key)
                                   THEN {} ELSE {KeyLock(tx[c].key)}
      [] tx[c].stage = "clear"  -> {LineLock(tx[c].user, i) : i \in Lines(cart[tx[c].user])}
      [] OTHER                  -> {}

Open == {c \in Checkouts : tx[c].stage \in TxStages}

WaitsFor(c, d) == c # d /\ Wanted(c) \cap held[d] # {}

\* No circle of checkouts waits for each other's cart, user, key or line
\* locks, and none waits for a transaction that is over: among any open
\* transactions one waits for none of the others.
NoDeadlock ==
    /\ \A c \in Open, d \in Checkouts : WaitsFor(c, d) => d \in Open
    /\ \A waiting \in SUBSET Open : waiting # {} =>
           \E c \in waiting : \A d \in waiting : ~WaitsFor(c, d)

\* orders.go:76-78: the transaction snapshots each line, writes the order and
\* clears the cart, all atomically: what a commit takes out of a cart is what
\* its order bought.
ClearsWhatItBought ==
    [][\A o \in orders' : (\A p \in orders : p.by # o.by) =>
           \A i \in Items : cart'[o.user][i] # cart[o.user][i] => cart[o.user][i] = o.lines[i]]_vars
=============================================================================
