-------------------------- MODULE CheckoutTxProofs --------------------------
(***************************************************************************)
(* The locks of the checkout transaction keep carts, points and keys from  *)
(* being used twice, and never make checkouts wait in a circle, for any    *)
(* number of checkouts, cart requests, customers and items.                *)
(***************************************************************************)
EXTENDS CheckoutTx, FiniteSetTheorems, TLAPS

Carts == [Items -> 0..MaxQuantity]
Outcomes == Refusals \cup {"created"}

NotBegun == [stage |-> "idle"]
Transactions ==
    [stage : TxStages \cup Outcomes, user : Users, request : RedeemRequests, key : Keys \cup {NoKey},
     view : Carts, rows : SUBSET (Items \X Nat), discount : Nat]
EditStarted ==
    [stage : EditStages \cup {"ok", "not_found", "unavailable"}, user : Users, item : Items,
     kind : {"add", "update", "remove"}, quantity : 1..MaxQuantity, line : Nat]
Orders ==
    [by : Checkouts, user : Users, key : Keys \cup {NoKey}, lines : Carts,
     rows : SUBSET (Items \X Nat), discount : Nat, settled : BOOLEAN]

\* The requests that made a row of item i, of which there are never more rows.
Added(u, i) ==
    {e \in Edits : edit[e].stage = "ok" /\ edit[e].kind = "add" /\ edit[e].user = u /\ edit[e].item = i}

Types ==
    /\ cart \in [Users -> Carts]
    /\ lineId \in [Users -> [Items -> Nat]]
    /\ offMenu \subseteq Items
    /\ points \in [Users -> Int]
    /\ orders \subseteq Orders
    /\ tx \in [Checkouts -> Transactions \cup {NotBegun}]
    /\ DOMAIN held = Checkouts /\ held = [c \in Checkouts |-> held[c]]
    /\ edit \in [Edits -> EditStarted \cup {NotBegun}]
    /\ \A u \in Users, i \in Items : lineId[u][i] <= Cardinality(Added(u, i))

\* What a transaction holds at each of its stages: the statements before have
\* asked for it.
Holding(c) ==
    LET t == tx[c] IN
    /\ \A lock \in held[c] :
          \/ lock = CartLock(t.user) /\ t.stage \in TxStages \ {"cart"}
          \/ lock = UserLock(t.user) /\ t.stage \in {"balance", "insert", "clear", "commit"}
          \/ lock = KeyLock(t.key) /\ t.stage \in {"clear", "commit"} /\ t.key # NoKey
          \/ t.stage = "commit" /\ \E i \in Items : lock = LineLock(t.user, i)
    /\ t.stage \in TxStages \ {"cart"} => CartLock(t.user) \in held[c]
    /\ t.stage = "balance" \/ (t.stage \in {"insert", "clear", "commit"} /\ t.request # 0) =>
           UserLock(t.user) \in held[c]
    /\ t.stage \in {"clear", "commit"} /\ t.key # NoKey => KeyLock(t.key) \in held[c]

Exclusive == \A c, d \in Checkouts : c # d => held[c] \cap held[d] = {}

\* The row that line <<i, n>> of a user names is no longer there and will not be.
Dead(u, line) == line[2] <= lineId[u][line[1]] /\ (line[2] = lineId[u][line[1]] => cart[u][line[1]] = 0)

\* What was sold is gone from the carts; what a transaction has read was not
\* sold before; and what it is about to delete it holds.
SoldIsGone == \A o \in orders : \A line \in o.rows : Dead(o.user, line)
Selling(c) ==
    LET t == tx[c] IN
    /\ t.stage \in {"user", "balance", "insert", "clear", "commit"} =>
          /\ \A line \in t.rows : line[2] <= lineId[t.user][line[1]]
          /\ \A o \in orders : o.user = t.user => o.rows \cap t.rows = {}
    /\ t.stage = "commit" =>
          \A line \in t.rows : LineLock(t.user, line[1]) \in held[c] \/ Dead(t.user, line)

\* What a transaction is about to spend is there, and nobody else spends it.
Spending(c) ==
    LET t == tx[c] IN
    /\ t.request = 0 \/ t.stage \in {"cart", "read", "user", "balance"} => t.discount = 0
    /\ t.stage \in {"insert", "clear", "commit"} => PointsOf(t) <= points[t.user]

\* A key that has been looked for is still free.
KeyIsFree(c) ==
    tx[c].stage \in {"clear", "commit"} => ~KeyCommitted(tx[c].key)

\* Everything that holds of one checkout.
Sound(c) ==
    IF tx[c] = NotBegun THEN held[c] = {} ELSE Holding(c) /\ Selling(c) /\ Spending(c) /\ KeyIsFree(c)

TxInv ==
    /\ Types
    /\ Exclusive
    /\ SoldIsGone /\ NoLineSoldTwice /\ NoDoubleSpend /\ KeysAreUnique
    /\ \A c \in Checkouts : Sound(c)
-----------------------------------------------------------------------------
(* Locks are told apart by kind and by what they lock.                     *)

\* A cart row is no user row, and no key.
LEMMA LocksDiffer ==
    ASSUME NEW u, NEW v, NEW k, NEW l, NEW i, NEW j
    PROVE  /\ CartLock(u) = CartLock(v) => u = v
           /\ UserLock(u) = UserLock(v) => u = v
           /\ KeyLock(k) = KeyLock(l) => k = l
           /\ LineLock(u, i) = LineLock(v, j) => u = v /\ i = j
           /\ CartLock(u) # UserLock(v) /\ CartLock(u) # KeyLock(k) /\ CartLock(u) # LineLock(v, i)
           /\ UserLock(u) # KeyLock(k) /\ UserLock(u) # LineLock(v, i)
           /\ KeyLock(k) # LineLock(u, i)
  BY DEF CartLock, UserLock, KeyLock, LineLock

\* A begun transaction is a record of its own shape.
LEMMA BegunTx ==
    ASSUME Types, NEW c \in Checkouts, tx[c].stage \in TxStages
    PROVE  tx[c] \in Transactions /\ tx[c] # NotBegun
  BY DEF Types, TxStages, NotBegun, Transactions

\* A transaction goes on to stage s and keeps what it has read.
Moves(c, s) ==
    /\ tx' \in [Checkouts -> Transactions \cup {NotBegun}]
    /\ tx'[c] \in Transactions /\ tx'[c] # NotBegun /\ tx'[c].stage = s
    /\ tx'[c].user = tx[c].user /\ tx'[c].request = tx[c].request /\ tx'[c].key = tx[c].key
    /\ \A d \in Checkouts \ {c} : tx'[d] = tx[d]
KeepsReads(c) == tx'[c].view = tx[c].view /\ tx'[c].rows = tx[c].rows /\ tx'[c].discount = tx[c].discount

\* A transaction that only goes on keeps what it has read.
LEMMA StageMoves ==
    ASSUME Types, NEW c \in Checkouts, tx[c].stage \in TxStages,
           NEW s \in TxStages \cup Outcomes, tx' = [tx EXCEPT ![c].stage = s]
    PROVE  Moves(c, s) /\ KeepsReads(c)
<1>1. tx[c] \in Transactions
  BY BegunTx
<1>2. tx'[c] = [tx[c] EXCEPT !.stage = s] /\ \A d \in Checkouts \ {c} : tx'[d] = tx[d]
  BY DEF Types
<1>3. tx'[c] \in Transactions /\ tx'[c].stage = s
  BY <1>1, <1>2 DEF Transactions
<1>4. tx'[c] # NotBegun
  BY <1>3 DEF NotBegun, TxStages, Outcomes, Refusals
<1>5. tx' \in [Checkouts -> Transactions \cup {NotBegun}]
  BY <1>2, <1>3 DEF Types
<1> QED
  BY <1>1, <1>2, <1>3, <1>4, <1>5 DEF Moves, KeepsReads, Transactions

\* Locks that are taken are added to those that are held.
LEMMA HoldsEffect ==
    ASSUME Types, NEW c \in Checkouts, NEW locks, Holds(c, locks)
    PROVE  /\ held'[c] = held[c] \cup locks /\ \A d \in Checkouts \ {c} : held'[d] = held[d]
           /\ held' = [d \in Checkouts |-> held'[d]]
  BY DEF Types, Holds

\* COMMIT and ROLLBACK release all locks.
LEMMA EndTxEffect ==
    ASSUME Types, NEW c \in Checkouts, tx[c].stage \in TxStages, NEW s \in Outcomes, EndTx(c, s)
    PROVE  /\ Moves(c, s) /\ KeepsReads(c)
           /\ held'[c] = {} /\ \A d \in Checkouts \ {c} : held'[d] = held[d]
           /\ held' = [d \in Checkouts |-> held'[d]]
  BY StageMoves DEF Types, EndTx

\* Locks that were free, and none besides, stay exclusive.
LEMMA ExclusiveStep ==
    ASSUME Exclusive, NEW c \in Checkouts, NEW locks,
           \A lock \in locks : Free(lock, c),
           held'[c] \subseteq held[c] \cup locks,
           \A d \in Checkouts \ {c} : held'[d] = held[d]
    PROVE  Exclusive'
  BY DEF Exclusive, Free
-----------------------------------------------------------------------------
(* A checkout's statements before its commit.                              *)

\* They change its transaction and its locks; the tables stay as they are.
LEMMA WithinTx ==
    ASSUME TxInv, NEW c \in Checkouts, Exclusive',
           tx' \in [Checkouts -> Transactions \cup {NotBegun}],
           \A d \in Checkouts \ {c} : tx'[d] = tx[d] /\ held'[d] = held[d],
           held' = [d \in Checkouts |-> held'[d]],
           UNCHANGED <<tables, edit>>, Sound(c)'
    PROVE  TxInv'
<1>1. UNCHANGED <<cart, lineId, offMenu, orders, points>>
  BY DEF tables
<1>2. Types'
  BY <1>1 DEF TxInv, Types, Added
<1>3. SoldIsGone' /\ NoLineSoldTwice' /\ NoDoubleSpend' /\ KeysAreUnique'
  BY <1>1 DEF TxInv, SoldIsGone, Dead, NoLineSoldTwice, NoDoubleSpend, KeysAreUnique
<1>4. ASSUME NEW d \in Checkouts, d # c PROVE Sound(d)'
  <2>1. tx'[d] = tx[d] /\ held'[d] = held[d] /\ Sound(d)
    BY <1>4 DEF TxInv
  <2> QED
    BY <1>1, <2>1 DEF Sound, Holding, Selling, Spending, KeyIsFree, KeyCommitted, Dead, PointsOf
<1> QED
  BY <1>2, <1>3, <1>4 DEF TxInv

\* A transaction that ends lets go of everything.
LEMMA EndsWell ==
    ASSUME TxInv, NEW c \in Checkouts, tx[c].stage \in TxStages, NEW s \in Refusals, EndTx(c, s),
           UNCHANGED <<tables, edit>>
    PROVE  TxInv'
<1>1. /\ Moves(c, s) /\ KeepsReads(c) /\ held'[c] = {}
      /\ \A d \in Checkouts \ {c} : held'[d] = held[d]
      /\ held' = [d \in Checkouts |-> held'[d]]
  BY EndTxEffect DEF TxInv, Outcomes
<1>2. Exclusive'
  BY <1>1 DEF TxInv, Exclusive
<1>3. tx[c] # NotBegun /\ Sound(c)
  BY BegunTx DEF TxInv
<1>4. s \notin TxStages
  BY DEF Refusals, TxStages
<1>5. Sound(c)'
  BY <1>1, <1>3, <1>4 DEF Sound, Holding, Selling, Spending, KeyIsFree, Moves, KeepsReads, TxStages
<1> QED
  BY <1>1, <1>2, <1>5, WithinTx DEF Moves

\* SELECT FOR UPDATE of the cart row.
LEMMA LockCartStep ==
    ASSUME TxInv, NEW c \in Checkouts, LockCart(c) PROVE TxInv'
<1>1. /\ tx[c].stage = "cart" /\ Free(CartLock(tx[c].user), c) /\ Holds(c, {CartLock(tx[c].user)})
      /\ tx' = [tx EXCEPT ![c].stage = "read"] /\ UNCHANGED <<tables, edit>>
  BY DEF LockCart
<1>2. tx[c].stage \in TxStages /\ "read" \in TxStages \cup Outcomes
  BY <1>1 DEF TxStages
<1>3. Moves(c, "read") /\ KeepsReads(c)
  BY <1>1, <1>2, StageMoves DEF TxInv
<1>4. /\ held'[c] = held[c] \cup {CartLock(tx[c].user)}
      /\ \A d \in Checkouts \ {c} : held'[d] = held[d]
      /\ held' = [d \in Checkouts |-> held'[d]]
  BY <1>1, HoldsEffect DEF TxInv
<1>5. Exclusive'
  BY <1>1, <1>4, ExclusiveStep DEF TxInv
<1>6. tx[c] # NotBegun /\ Sound(c)
  BY <1>2, BegunTx DEF TxInv
<1>7. Sound(c)'
  BY <1>1, <1>3, <1>4, <1>6 DEF Sound, Holding, Selling, Spending, KeyIsFree, Moves, KeepsReads, TxStages
<1> QED
  BY <1>1, <1>3, <1>4, <1>5, <1>7, WithinTx DEF Moves

\* SELECT FOR UPDATE of the user row.
LEMMA LockUserStep ==
    ASSUME TxInv, NEW c \in Checkouts, LockUser(c) PROVE TxInv'
<1>1. /\ tx[c].stage = "user" /\ Free(UserLock(tx[c].user), c) /\ Holds(c, {UserLock(tx[c].user)})
      /\ tx' = [tx EXCEPT ![c].stage = "balance"] /\ UNCHANGED <<tables, edit>>
  BY DEF LockUser
<1>2. tx[c].stage \in TxStages /\ "balance" \in TxStages \cup Outcomes
  BY <1>1 DEF TxStages
<1>3. Moves(c, "balance") /\ KeepsReads(c)
  BY <1>1, <1>2, StageMoves DEF TxInv
<1>4. /\ held'[c] = held[c] \cup {UserLock(tx[c].user)}
      /\ \A d \in Checkouts \ {c} : held'[d] = held[d]
      /\ held' = [d \in Checkouts |-> held'[d]]
  BY <1>1, HoldsEffect DEF TxInv
<1>5. Exclusive'
  BY <1>1, <1>4, ExclusiveStep DEF TxInv
<1>6. tx[c] # NotBegun /\ Sound(c)
  BY <1>2, BegunTx DEF TxInv
<1>7. UNCHANGED <<cart, lineId, orders, points>>
  BY <1>1 DEF tables
<1>8. Sound(c)'
  BY <1>1, <1>3, <1>4, <1>6, <1>7 DEF Sound, Holding, Selling, Spending, KeyIsFree, Moves, KeepsReads, TxStages
<1> QED
  BY <1>1, <1>3, <1>4, <1>5, <1>8, WithinTx DEF Moves

\* A checkout begins with no lock.
LEMMA BeginStep ==
    ASSUME TxInv, NEW c \in Checkouts, NEW u \in Users, NEW request \in RedeemRequests,
           NEW key \in Keys \cup {NoKey}, BeginCheckout(c, u, request, key)
    PROVE  TxInv'
<1> DEFINE begun == [stage |-> "cart", user |-> u, request |-> request, key |-> key,
                     view |-> EmptyCart, rows |-> {}, discount |-> 0]
<1>1. /\ tx[c].stage = "idle" /\ tx' = [tx EXCEPT ![c] = begun]
      /\ UNCHANGED <<tables, held, edit>>
  BY DEF BeginCheckout
<1>2. EmptyCart \in Carts
  BY QuantityAssumption DEF EmptyCart, Carts
<1>3. begun \in Transactions
  BY <1>2 DEF Transactions, TxStages
<1>4. begun # NotBegun /\ begun.stage = "cart" /\ begun.discount = 0
  BY DEF NotBegun
<1> HIDE DEF begun
<1>5. tx' \in [Checkouts -> Transactions \cup {NotBegun}] /\ tx'[c] = begun
  BY <1>1, <1>3 DEF TxInv, Types
<1>6. tx[c] = NotBegun
  BY <1>1 DEF TxInv, Types, Transactions, TxStages, Outcomes, Refusals
<1>7. held[c] = {}
  BY <1>6 DEF TxInv, Sound
<1>8. Sound(c)'
  BY <1>1, <1>4, <1>5, <1>7 DEF Sound, Holding, Selling, Spending, KeyIsFree
<1>9. Exclusive' /\ held' = [d \in Checkouts |-> held'[d]]
  BY <1>1 DEF TxInv, Types, Exclusive
<1>10. \A d \in Checkouts \ {c} : tx'[d] = tx[d] /\ held'[d] = held[d]
  BY <1>1 DEF TxInv, Types
<1> QED
  BY <1>1, <1>5, <1>8, <1>9, <1>10, WithinTx

\* What is read from the cart is not among what was sold.
LEMMA ReadCartStep ==
    ASSUME TxInv, NEW c \in Checkouts, ReadCart(c) PROVE TxInv'
<1> DEFINE u == tx[c].user
           view == cart[u]
           rows == {<<i, lineId[u][i]>> : i \in Lines(view)}
           s == IF tx[c].request = 0 THEN "insert" ELSE "user"
<1>1. tx[c].stage = "read" /\ UNCHANGED <<tables, edit>>
  BY DEF ReadCart
<1>2. tx[c].stage \in TxStages /\ "empty_cart" \in Refusals /\ "unavailable" \in Refusals
  BY <1>1 DEF TxStages, Refusals
<1>3. CASE EndTx(c, "empty_cart") \/ EndTx(c, "unavailable")
  BY <1>1, <1>2, <1>3, EndsWell
<1>4. CASE /\ tx' = [tx EXCEPT ![c].view = view, ![c].rows = rows, ![c].stage = s]
           /\ UNCHANGED held
  <2>1. tx[c] \in Transactions /\ tx[c] # NotBegun /\ Sound(c)
    BY <1>2, BegunTx DEF TxInv
  <2>2. u \in Users /\ view \in Carts /\ lineId[u] \in [Items -> Nat] /\ Lines(view) \subseteq Items
    BY <2>1 DEF TxInv, Types, Transactions, Lines
  <2>3. rows \in SUBSET (Items \X Nat)
    BY <2>2
  <2>4. s \in {"insert", "user"} /\ (s = "insert" => tx[c].request = 0)
    OBVIOUS
  <2>5. \A line \in rows : line[2] <= lineId[u][line[1]] /\ ~Dead(u, line)
    <3>1. ASSUME NEW i \in Lines(view) PROVE lineId[u][i] <= lineId[u][i] /\ ~Dead(u, <<i, lineId[u][i]>>)
      BY <2>2 DEF Lines, Dead, Carts
    <3> QED BY <3>1
  <2>6. \A o \in orders : o.user = u => o.rows \cap rows = {}
    BY <2>5 DEF TxInv, SoldIsGone
  <2> HIDE DEF u, view, rows, s
  <2>7. /\ tx'[c] = [tx[c] EXCEPT !.view = view, !.rows = rows, !.stage = s]
        /\ \A d \in Checkouts \ {c} : tx'[d] = tx[d]
        /\ DOMAIN tx' = Checkouts /\ tx' = [d \in Checkouts |-> tx'[d]]
    BY <1>4 DEF TxInv, Types
  <2>8. /\ tx'[c] \in Transactions /\ tx'[c].stage = s /\ tx'[c].rows = rows
        /\ tx'[c].user = u /\ tx'[c].request = tx[c].request /\ tx'[c].key = tx[c].key
        /\ tx'[c].discount = tx[c].discount
    BY <2>1, <2>2, <2>3, <2>4, <2>7 DEF Transactions, TxStages, u
  <2>9. tx'[c] # NotBegun
    BY <2>4, <2>8 DEF NotBegun
  <2>10. tx' \in [Checkouts -> Transactions \cup {NotBegun}]
    BY <2>7, <2>8 DEF TxInv, Types
  <2>11. Holding(c)' /\ KeyIsFree(c)'
    BY <1>1, <1>4, <2>1, <2>4, <2>8 DEF Sound, Holding, KeyIsFree, TxStages, u
  <2>12. Selling(c)'
    BY <1>1, <2>4, <2>5, <2>6, <2>8 DEF Selling, tables
  <2>13. Spending(c)'
    <3>1. tx[c].discount = 0 /\ points[u] >= 0
      BY <1>1, <2>1, <2>2 DEF Sound, Spending, TxInv, NoDoubleSpend
    <3> QED BY <1>1, <2>4, <2>8, <3>1 DEF Spending, PointsOf, PesewasPerPoint, tables
  <2>14. Exclusive' /\ held' = [d \in Checkouts |-> held'[d]]
    BY <1>4 DEF TxInv, Types, Exclusive
  <2> QED
    BY <1>1, <1>4, <2>7, <2>9, <2>10, <2>11, <2>12, <2>13, <2>14, WithinTx DEF Sound
<1> QED
  BY <1>1, <1>3, <1>4 DEF ReadCart

\* A redemption that is granted is covered by the balance it was asked of.
LEMMA GrantIsCovered ==
    ASSUME NEW request \in Nat, NEW balance \in Int, balance >= 0, NEW subtotal \in Nat
    PROVE  LET r == Redemption(request, balance, subtotal)
           IN  r.discount \in Nat /\ r.discount <= balance
  BY DEF Redemption, PesewasPerPoint

\* A discount is worth as many points.
LEMMA PointsOfNat ==
    ASSUME NEW row, row.discount \in Nat PROVE PointsOf(row) = row.discount
  BY DEF PointsOf, PesewasPerPoint

\* The balance is read under the lock of the user row.
LEMMA ReadBalanceStep ==
    ASSUME TxInv, NEW c \in Checkouts, ReadBalance(c) PROVE TxInv'
<1> DEFINE u == tx[c].user
           r == Redemption(tx[c].request, points[u], Subtotal(tx[c].view))
<1>1. tx[c].stage = "balance" /\ UNCHANGED <<tables, edit>>
  BY DEF ReadBalance
<1>2. tx[c].stage \in TxStages /\ "insufficient_points" \in Refusals
  BY <1>1 DEF TxStages, Refusals
<1>3. CASE EndTx(c, "insufficient_points")
  BY <1>1, <1>2, <1>3, EndsWell
<1>4. CASE /\ tx' = [tx EXCEPT ![c].discount = r.discount, ![c].stage = "insert"]
           /\ UNCHANGED held
  <2>1. tx[c] \in Transactions /\ tx[c] # NotBegun /\ Sound(c)
    BY <1>2, BegunTx DEF TxInv
  <2>2. /\ u \in Users /\ tx[c].request \in Nat /\ points[u] \in Int /\ points[u] >= 0
        /\ Subtotal(tx[c].view) \in Nat
    BY <2>1, RequestAssumption, SubtotalAssumption
       DEF TxInv, Types, NoDoubleSpend, Transactions, Carts
  <2>3. r.discount \in Nat /\ r.discount <= points[u]
    BY <2>2, GrantIsCovered
  <2>4. tx[c].request = 0 => r.discount = 0
    BY <2>2 DEF Redemption, PesewasPerPoint
  <2> HIDE DEF u, r
  <2>5. /\ tx'[c] = [tx[c] EXCEPT !.discount = r.discount, !.stage = "insert"]
        /\ \A d \in Checkouts \ {c} : tx'[d] = tx[d]
        /\ DOMAIN tx' = Checkouts /\ tx' = [d \in Checkouts |-> tx'[d]]
    BY <1>4 DEF TxInv, Types
  <2>6. /\ tx'[c] \in Transactions /\ tx'[c].stage = "insert" /\ tx'[c].rows = tx[c].rows
        /\ tx'[c].user = u /\ tx'[c].request = tx[c].request /\ tx'[c].key = tx[c].key
        /\ tx'[c].discount = r.discount
    BY <2>1, <2>3, <2>5 DEF Transactions, TxStages, u
  <2>7. tx'[c] # NotBegun
    BY <2>6 DEF NotBegun
  <2>8. tx' \in [Checkouts -> Transactions \cup {NotBegun}]
    BY <2>5, <2>6 DEF TxInv, Types
  <2>9. Holding(c)' /\ KeyIsFree(c)'
    BY <1>1, <1>4, <2>1, <2>6 DEF Sound, Holding, KeyIsFree, TxStages, u
  <2>10. Selling(c)'
    BY <1>1, <2>1, <2>6 DEF Sound, Selling, u, tables
  <2>11. Spending(c)'
    BY <1>1, <2>3, <2>4, <2>6, PointsOfNat DEF Spending, tables
  <2>12. Exclusive' /\ held' = [d \in Checkouts |-> held'[d]]
    BY <1>4 DEF TxInv, Types, Exclusive
  <2> QED
    BY <1>1, <1>4, <2>5, <2>7, <2>8, <2>9, <2>10, <2>11, <2>12, WithinTx DEF Sound
<1> QED
  BY <1>1, <1>3, <1>4 DEF ReadBalance

\* INSERT INTO orders waits for whoever has the key.
LEMMA InsertOrderStep ==
    ASSUME TxInv, NEW c \in Checkouts, InsertOrder(c) PROVE TxInv'
<1> DEFINE key == tx[c].key
           locks == IF key = NoKey THEN {} ELSE {KeyLock(key)}
<1>1. tx[c].stage = "insert" /\ UNCHANGED <<tables, edit>>
  BY DEF InsertOrder
<1>2. tx[c].stage \in TxStages /\ "duplicate_order" \in Refusals /\ "clear" \in TxStages \cup Outcomes
  BY <1>1 DEF TxStages, Refusals
<1>3. CASE EndTx(c, "duplicate_order")
  BY <1>1, <1>2, <1>3, EndsWell
<1>4. CASE /\ ~KeyCommitted(key) /\ (key # NoKey => Free(KeyLock(key), c))
           /\ Holds(c, locks) /\ tx' = [tx EXCEPT ![c].stage = "clear"]
  <2>1. Moves(c, "clear") /\ KeepsReads(c)
    BY <1>2, <1>4, StageMoves DEF TxInv
  <2>2. /\ held'[c] = held[c] \cup locks
        /\ \A d \in Checkouts \ {c} : held'[d] = held[d]
        /\ held' = [d \in Checkouts |-> held'[d]]
    BY <1>4, HoldsEffect DEF TxInv
  <2>3. Exclusive'
    BY <1>4, <2>2, ExclusiveStep DEF TxInv
  <2>4. tx[c] # NotBegun /\ Sound(c)
    BY <1>2, BegunTx DEF TxInv
  <2>5. UNCHANGED <<cart, lineId, orders, points>>
    BY <1>1 DEF tables
  <2>6. Holding(c)'
    BY <1>1, <2>1, <2>2, <2>4 DEF Sound, Holding, Moves, TxStages
  <2>7. Selling(c)' /\ Spending(c)'
    BY <1>1, <2>1, <2>4, <2>5 DEF Sound, Selling, Spending, PointsOf, Moves, KeepsReads
  <2>8. KeyIsFree(c)'
    BY <1>4, <2>1, <2>5 DEF KeyIsFree, KeyCommitted, Moves
  <2> QED
    BY <1>1, <2>1, <2>2, <2>3, <2>6, <2>7, <2>8, WithinTx DEF Moves, Sound
<1> QED
  BY <1>1, <1>3, <1>4 DEF InsertOrder

\* What was read and is not deleted here is gone already.
LEMMA ClearCartStep ==
    ASSUME TxInv, NEW c \in Checkouts, ClearCart(c) PROVE TxInv'
<1> DEFINE u == tx[c].user
           locks == {LineLock(u, i) : i \in Lines(cart[u])}
<1>1. /\ tx[c].stage = "clear" /\ UNCHANGED <<tables, edit>>
      /\ \A lock \in locks : Free(lock, c)
      /\ Holds(c, locks) /\ tx' = [tx EXCEPT ![c].stage = "commit"]
  BY DEF ClearCart
<1>2. tx[c].stage \in TxStages /\ "commit" \in TxStages \cup Outcomes
  BY <1>1 DEF TxStages
<1>3. Moves(c, "commit") /\ KeepsReads(c)
  BY <1>1, <1>2, StageMoves DEF TxInv
<1>4. /\ held'[c] = held[c] \cup locks
      /\ \A d \in Checkouts \ {c} : held'[d] = held[d]
      /\ held' = [d \in Checkouts |-> held'[d]]
  BY <1>1, HoldsEffect DEF TxInv
<1>5. Exclusive'
  BY <1>1, <1>4, ExclusiveStep DEF TxInv
<1>6. tx[c] \in Transactions /\ tx[c] # NotBegun /\ Sound(c)
  BY <1>2, BegunTx DEF TxInv
<1>7. UNCHANGED <<cart, lineId, orders, points>>
  BY <1>1 DEF tables
<1>8. u \in Users /\ cart[u] \in Carts /\ tx[c].rows \subseteq Items \X Nat
  BY <1>6 DEF TxInv, Types, Transactions
<1>9. \A line \in tx[c].rows : LineLock(u, line[1]) \in held'[c] \/ Dead(u, line)
  <2>1. TAKE line \in tx[c].rows
  <2>2. line[1] \in Items /\ line[2] <= lineId[u][line[1]]
    BY <1>1, <1>6, <1>8 DEF Sound, Selling
  <2>3. CASE line[1] \in Lines(cart[u])
    BY <1>4, <2>3
  <2>4. CASE line[1] \notin Lines(cart[u])
    BY <1>8, <2>2, <2>4 DEF Dead, Lines, Carts
  <2> QED BY <2>3, <2>4
<1>10. Lines(cart[u]) \subseteq Items
  BY DEF Lines
<1>11. Holding(c)'
  <2>1. \A lock \in locks : \E i \in Items : lock = LineLock(u, i)
    BY <1>10
  <2> HIDE DEF locks
  <2> QED BY <1>1, <1>3, <1>4, <1>6, <2>1 DEF Sound, Holding, Moves, TxStages
<1>12. Selling(c)'
  BY <1>1, <1>3, <1>6, <1>7, <1>9 DEF Sound, Selling, Moves, KeepsReads, Dead
<1>13. Spending(c)' /\ KeyIsFree(c)'
  BY <1>1, <1>3, <1>6, <1>7 DEF Sound, Spending, PointsOf, KeyIsFree, KeyCommitted, Moves, KeepsReads
<1> QED
  BY <1>1, <1>3, <1>4, <1>5, <1>11, <1>12, <1>13, WithinTx DEF Moves, Sound
-----------------------------------------------------------------------------
(* The commit: what it publishes was covered by its locks.                 *)

\* A step leaves the row that item i of a cart has, empties it, or makes a new
\* one: no row that is gone comes back.
RowKept(v, i) ==
    \/ lineId'[v][i] > lineId[v][i]
    \/ lineId'[v][i] = lineId[v][i] /\ (cart[v][i] > 0 \/ cart'[v][i] \in {0, cart[v][i]})

\* A row that is gone does not come back, since ids only grow.
LEMMA DeadStaysDead ==
    ASSUME Types, NEW v \in Users, NEW line \in Items \X Nat, Dead(v, line),
           RowKept(v, line[1]), lineId'[v][line[1]] \in Nat
    PROVE  Dead(v, line)'
<1>1. line[1] \in Items /\ line[2] \in Nat /\ lineId[v][line[1]] \in Nat /\ cart[v][line[1]] \in Nat
  BY QuantityAssumption DEF Types, Carts
<1> QED BY <1>1 DEF Dead, RowKept

\* COMMIT: the lines go, the points are booked, the order is there.
LEMMA CommitStep ==
    ASSUME TxInv, NEW c \in Checkouts, Commit(c) PROVE TxInv'
<1> DEFINE t == tx[c]
           u == t.user
           cleared == {i \in Items : LineLock(u, i) \in held[c]}
           sold == [by |-> c, user |-> u, key |-> t.key, lines |-> t.view,
                    rows |-> t.rows, discount |-> t.discount, settled |-> FALSE]
<1>1. /\ t.stage = "commit" /\ EndTx(c, "created") /\ UNCHANGED <<lineId, offMenu, edit>>
      /\ orders' = orders \cup {sold}
      /\ points' = [points EXCEPT ![u] = @ - PointsOf(t)]
      /\ cart' = [cart EXCEPT ![u] = [i \in Items |-> IF i \in cleared THEN 0 ELSE @[i]]]
  BY DEF Commit
<1>2. t.stage \in TxStages /\ "created" \in Outcomes
  BY <1>1 DEF TxStages, Outcomes
<1>3. t \in Transactions /\ t # NotBegun /\ Sound(c)
  BY <1>2, BegunTx DEF TxInv
<1>4. /\ Moves(c, "created") /\ KeepsReads(c) /\ held'[c] = {}
      /\ \A d \in Checkouts \ {c} : held'[d] = held[d]
      /\ held' = [d \in Checkouts |-> held'[d]]
  BY <1>1, <1>2, EndTxEffect DEF TxInv
<1>5. /\ u \in Users /\ t.key \in Keys \cup {NoKey} /\ t.view \in Carts
      /\ t.rows \in SUBSET (Items \X Nat) /\ t.discount \in Nat
  BY <1>3 DEF Transactions
<1>6. PointsOf(t) = t.discount /\ points[u] \in Int /\ PointsOf(t) <= points[u]
  BY <1>1, <1>3, <1>5, PointsOfNat DEF Sound, Spending, TxInv, Types
<1>7. /\ sold.user = u /\ sold.key = t.key /\ sold.rows = t.rows
      /\ sold \in Orders
  BY <1>5 DEF Orders
<1>8. /\ \A v \in Users \ {u} : cart'[v] = cart[v] /\ points'[v] = points[v]
      /\ \A i \in Items : cart'[u][i] = IF i \in cleared THEN 0 ELSE cart[u][i]
      /\ points'[u] = points[u] - t.discount
      /\ cart' \in [Users -> Carts] /\ points' \in [Users -> Int]
  <2>1. cart[u] \in Carts /\ cart \in [Users -> Carts] /\ points \in [Users -> Int]
    BY <1>5 DEF TxInv, Types
  <2> HIDE DEF cleared
  <2>2. [i \in Items |-> IF i \in cleared THEN 0 ELSE cart[u][i]] \in Carts
    BY <2>1, QuantityAssumption DEF Carts
  <2>3. points[u] - t.discount \in Int
    BY <1>5, <1>6
  <2> HIDE DEF u, t
  <2> QED BY <1>1, <1>5, <1>6, <2>1, <2>2, <2>3
<1>9. /\ CartLock(u) \in held[c]
      /\ t.key # NoKey => KeyLock(t.key) \in held[c]
      /\ \A o \in orders : o.user = u => o.rows \cap t.rows = {}
      /\ \A line \in t.rows : line[2] <= lineId[u][line[1]]
                              /\ (line[1] \in cleared \/ Dead(u, line))
      /\ ~KeyCommitted(t.key)
  <2>1. \A line \in t.rows : line[1] \in Items
    BY <1>5
  <2> QED BY <1>1, <1>3, <2>1 DEF Sound, Holding, Selling, KeyIsFree, TxStages
<1> HIDE DEF sold, cleared, u, t
<1>10. \A v \in Users, i \in Items :
           lineId'[v][i] \in Nat /\ lineId'[v][i] = lineId[v][i] /\ RowKept(v, i)
  <2>1. \A v \in Users, i \in Items :
           lineId'[v][i] \in Nat /\ lineId'[v][i] = lineId[v][i] /\ cart'[v][i] \in {0, cart[v][i]}
    BY <1>1, <1>8 DEF TxInv, Types
  <2> QED BY <2>1 DEF RowKept
<1>11. \A v \in Users, line \in Items \X Nat : Dead(v, line) => Dead(v, line)'
  <2>1. ASSUME NEW v \in Users, NEW line \in Items \X Nat, Dead(v, line) PROVE Dead(v, line)'
    <3>1. line[1] \in Items
      OBVIOUS
    <3> QED BY <1>10, <2>1, <3>1, DeadStaysDead DEF TxInv
  <2> QED BY <2>1
<1>12. ASSUME NEW v \in Users, v = u, NEW line \in t.rows PROVE Dead(v, line)'
  <2>1. line \in Items \X Nat /\ line[1] \in Items
    BY <1>5, <1>12
  <2>2. CASE line[1] \in cleared
    BY <1>1, <1>8, <1>9, <1>12, <2>1, <2>2 DEF Dead
  <2> QED BY <1>9, <1>11, <1>12, <2>1, <2>2
<1>13. orders \subseteq Orders /\ orders' \subseteq Orders
  BY <1>1, <1>7 DEF TxInv, Types
<1>14. \A o \in orders : o.user \in Users /\ o.rows \subseteq Items \X Nat
  BY <1>13 DEF Orders
<1>15. SoldIsGone'
  <2>1. \A o \in orders : \A line \in o.rows : Dead(o.user, line)'
    BY <1>11, <1>14 DEF TxInv, SoldIsGone
  <2>2. ASSUME NEW o, o = sold, NEW line \in o.rows PROVE Dead(o.user, line)'
    <3>1. o.user = u /\ o.user \in Users /\ line \in t.rows
      BY <1>5, <1>7, <2>2
    <3> QED BY <1>12, <3>1
  <2>3. \A o \in orders' : o \in orders \/ o = sold
    BY <1>1
  <2>4. \A o \in orders' : \A line \in o.rows : Dead(o.user, line)'
    BY <2>1, <2>2, <2>3
  <2> QED BY <2>4 DEF SoldIsGone
<1>16. NoLineSoldTwice'
  BY <1>1, <1>7, <1>9 DEF TxInv, NoLineSoldTwice
<1>17. KeysAreUnique'
  BY <1>1, <1>7, <1>9 DEF TxInv, KeysAreUnique, KeyCommitted
<1>18. NoDoubleSpend'
  BY <1>5, <1>6, <1>8 DEF TxInv, NoDoubleSpend
<1>19. Types'
  BY <1>1, <1>4, <1>8, <1>13 DEF TxInv, Types, Moves, Added
<1>20. Exclusive'
  BY <1>4 DEF TxInv, Exclusive
<1>21. Sound(c)'
  BY <1>3, <1>4 DEF Sound, Holding, Selling, Spending, KeyIsFree, Moves, KeepsReads, TxStages, t
<1>22. ASSUME NEW d \in Checkouts, d # c PROVE Sound(d)'
  <2>1. tx'[d] = tx[d] /\ held'[d] = held[d] /\ Sound(d)
    BY <1>4, <1>22 DEF TxInv, Moves
  <2>2. CASE tx[d] = NotBegun
    BY <2>1, <2>2 DEF Sound
  <2>3. CASE tx[d] # NotBegun
    <3>1. tx[d] \in Transactions
      BY <2>3 DEF TxInv, Types
    <3>2. tx[d].user \in Users /\ tx[d].rows \subseteq Items \X Nat
      BY <3>1 DEF Transactions
    <3>3. /\ tx[d].stage \in {"user", "balance", "insert", "clear", "commit"} => tx[d].user # u
          /\ tx[d].stage \in {"clear", "commit"} /\ tx[d].key # NoKey => tx[d].key # t.key
      BY <1>9, <1>22, <2>1, <2>3 DEF TxInv, Exclusive, Sound, Holding, TxStages
    <3>4. Holding(d)'
      BY <2>1, <2>3 DEF Sound, Holding
    <3>5. Selling(d)'
      BY <1>1, <1>7, <1>11, <2>1, <2>3, <3>2, <3>3 DEF Sound, Selling
    <3>6. Spending(d)'
      BY <1>8, <2>1, <2>3, <3>2, <3>3 DEF Sound, Spending, PointsOf
    <3>7. KeyIsFree(d)'
      BY <1>1, <1>7, <2>1, <2>3, <3>3 DEF Sound, KeyIsFree, KeyCommitted
    <3> QED BY <2>1, <2>3, <3>4, <3>5, <3>6, <3>7 DEF Sound
  <2> QED BY <2>2, <2>3
<1> QED
  BY <1>15, <1>16, <1>17, <1>18, <1>19, <1>20, <1>21, <1>22 DEF TxInv

\* ROLLBACK of a transaction the database gives up.
LEMMA FailStep ==
    ASSUME TxInv, NEW c \in Checkouts, Fail(c) PROVE TxInv'
  BY EndsWell DEF Fail, Refusals
-----------------------------------------------------------------------------
(* The cart requests.                                                      *)

\* A cart request that runs knows its user and its item.
LEMMA StartedEdit ==
    ASSUME Types, NEW e \in Edits, edit[e].stage \in EditStages
    PROVE  edit[e] \in EditStarted
  BY DEF Types, NotBegun, EditStages

\* A request goes on; only an addition that succeeds is added.
LEMMA EditMoves ==
    ASSUME Types, NEW e \in Edits, edit[e].stage \in EditStages,
           NEW s \in EditStages \cup {"ok", "not_found", "unavailable"},
           edit' = [edit EXCEPT ![e].stage = s]
    PROVE  /\ edit' \in [Edits -> EditStarted \cup {NotBegun}]
           /\ edit'[e].stage = s /\ edit'[e].kind = edit[e].kind
           /\ edit'[e].user = edit[e].user /\ edit'[e].item = edit[e].item
           /\ \A f \in Edits \ {e} : edit'[f] = edit[f]
<1>1. edit[e] \in EditStarted
  BY StartedEdit
<1>2. edit'[e] = [edit[e] EXCEPT !.stage = s] /\ \A f \in Edits \ {e} : edit'[f] = edit[f]
  BY DEF Types
<1>3. edit'[e] \in EditStarted /\ edit'[e].stage = s
  BY <1>1, <1>2 DEF EditStarted
<1> QED
  BY <1>1, <1>2, <1>3 DEF Types, EditStarted

\* Until its write, a request disturbs nothing.
LEMMA BeforeTheWrite ==
    ASSUME TxInv, NEW e \in Edits, UNCHANGED <<tables, tx, held>>,
           edit' \in [Edits -> EditStarted \cup {NotBegun}],
           \A f \in Edits \ {e} : edit'[f] = edit[f],
           edit[e].stage # "ok", edit'[e].stage # "ok"
    PROVE  TxInv'
<1>1. UNCHANGED <<cart, lineId, offMenu, orders, points, tx, held>>
  BY DEF tables
<1>2. \A u \in Users, i \in Items : Added(u, i)' = Added(u, i)
  <2>1. TAKE u \in Users, i \in Items
  <2>2. \A f \in Edits : f \in Added(u, i)' <=> f \in Added(u, i)
    <3>1. TAKE f \in Edits
    <3>2. CASE f = e
      BY <3>2 DEF Added
    <3>3. CASE f # e
      BY <3>3 DEF Added
    <3> QED BY <3>2, <3>3
  <2> QED BY <2>2 DEF Added
<1>3. Types'
  BY <1>1, <1>2 DEF TxInv, Types
<1>4. SoldIsGone' /\ NoLineSoldTwice' /\ NoDoubleSpend' /\ KeysAreUnique' /\ Exclusive'
  BY <1>1 DEF TxInv, SoldIsGone, Dead, NoLineSoldTwice, NoDoubleSpend, KeysAreUnique, Exclusive
<1>5. \A c \in Checkouts : Sound(c)'
  BY <1>1 DEF TxInv, Sound, Holding, Selling, Spending, KeyIsFree, KeyCommitted, Dead, PointsOf
<1> QED
  BY <1>3, <1>4, <1>5 DEF TxInv

\* A cart request begins with no lock.
LEMMA BeginEditStep ==
    ASSUME TxInv, NEW e \in Edits, NEW u \in Users, NEW i \in Items,
           NEW kind \in {"add", "update", "remove"}, NEW quantity \in 1..MaxQuantity,
           BeginEdit(e, u, i, kind, quantity)
    PROVE  TxInv'
<1> DEFINE begun == [stage |-> "cart", user |-> u, item |-> i, kind |-> kind,
                     quantity |-> quantity, line |-> lineId[u][i]]
<1>1. begun \in EditStarted /\ begun.stage = "cart"
  BY DEF TxInv, Types, EditStarted, EditStages
<1>2. edit[e].stage = "idle" /\ edit' = [edit EXCEPT ![e] = begun] /\ UNCHANGED <<tables, tx, held>>
  BY DEF BeginEdit
<1> HIDE DEF begun
<1>3. /\ edit' \in [Edits -> EditStarted \cup {NotBegun}] /\ edit'[e] = begun
      /\ \A f \in Edits \ {e} : edit'[f] = edit[f]
  BY <1>1, <1>2 DEF TxInv, Types
<1> QED
  BY <1>1, <1>2, <1>3, BeforeTheWrite

\* findOrCreateCart locks nothing.
LEMMA FindCartStep ==
    ASSUME TxInv, NEW e \in Edits, FindCart(e) PROVE TxInv'
<1> DEFINE s == IF edit[e].kind = "add" THEN "menu" ELSE "write"
<1>1. edit[e].stage = "cart" /\ edit' = [edit EXCEPT ![e].stage = s] /\ UNCHANGED <<tables, tx, held>>
  BY DEF FindCart
<1>2. edit[e].stage \in EditStages /\ s \in EditStages /\ s # "ok"
  BY <1>1 DEF EditStages
<1> HIDE DEF s
<1>3. /\ edit' \in [Edits -> EditStarted \cup {NotBegun}] /\ edit'[e].stage = s
      /\ \A f \in Edits \ {e} : edit'[f] = edit[f]
  BY <1>1, <1>2, EditMoves DEF TxInv
<1> QED
  BY <1>1, <1>2, <1>3, BeforeTheWrite

\* The item is read before the line is written, without a lock.
LEMMA CheckMenuStep ==
    ASSUME TxInv, NEW e \in Edits, CheckMenu(e) PROVE TxInv'
<1> DEFINE s == IF edit[e].item \in offMenu THEN "unavailable" ELSE "write"
<1>1. edit[e].stage = "menu" /\ edit' = [edit EXCEPT ![e].stage = s] /\ UNCHANGED <<tables, tx, held>>
  BY DEF CheckMenu
<1>2. edit[e].stage \in EditStages /\ s \in EditStages \cup {"unavailable"} /\ s # "ok"
  BY <1>1 DEF EditStages
<1> HIDE DEF s
<1>3. /\ edit' \in [Edits -> EditStarted \cup {NotBegun}] /\ edit'[e].stage = s
      /\ \A f \in Edits \ {e} : edit'[f] = edit[f]
  BY <1>1, <1>2, EditMoves DEF TxInv
<1> QED
  BY <1>1, <1>2, <1>3, BeforeTheWrite

\* The write may change the row it found or make a new one, and brings none
\* back that is gone.
LEMMA WriteLineStep ==
    ASSUME TxInv, NEW e \in Edits, WriteLine(e) PROVE TxInv'
<1> DEFINE u == edit[e].user
           i == edit[e].item
           q == edit[e].quantity
           kind == edit[e].kind
<1>1. /\ edit[e].stage = "write" /\ \A c \in Checkouts : LineLock(u, i) \notin held[c]
      /\ UNCHANGED <<offMenu, orders, points, tx, held>>
  BY DEF WriteLine
<1>2. edit[e].stage \in EditStages /\ edit[e] \in EditStarted
  BY <1>1, StartedEdit DEF TxInv, EditStages
<1>3. u \in Users /\ i \in Items /\ q \in 1..MaxQuantity /\ kind \in {"add", "update", "remove"}
  BY <1>2 DEF EditStarted
<1>4. /\ cart \in [Users -> Carts] /\ cart[u] \in [Items -> 0..MaxQuantity] /\ cart[u][i] \in 0..MaxQuantity
      /\ lineId \in [Users -> [Items -> Nat]] /\ lineId[u] \in [Items -> Nat] /\ lineId[u][i] \in Nat
      /\ \A v \in Users, j \in Items : lineId[v][j] \in Nat /\ cart[v][j] \in Nat
      /\ MaxQuantity \in Nat
  BY <1>3, QuantityAssumption DEF TxInv, Types, Carts
\* What each case does to the two tables.
<1> DEFINE Effect(n, m, s) ==
               /\ n \in 0..MaxQuantity /\ m \in Nat
               /\ cart' = [cart EXCEPT ![u][i] = n]
               /\ lineId' = [lineId EXCEPT ![u][i] = m]
               /\ edit' = [edit EXCEPT ![e].stage = s]
               /\ s \in {"ok", "not_found"}
               /\ \/ m = lineId[u][i] /\ (n = cart[u][i] \/ cart[u][i] > 0)
                  \/ m = lineId[u][i] + 1 /\ s = "ok" /\ kind = "add"
<1>5. PICK n, m, s : Effect(n, m, s)
  <2>1. /\ [cart EXCEPT ![u][i] = cart[u][i]] = cart
        /\ [lineId EXCEPT ![u][i] = lineId[u][i]] = lineId
    BY <1>3, <1>4
  <2>2. CASE /\ kind = "add" /\ cart[u][i] + q <= MaxQuantity
             /\ cart' = [cart EXCEPT ![u][i] = @ + q]
             /\ lineId' = IF cart[u][i] = 0 THEN [lineId EXCEPT ![u][i] = @ + 1] ELSE lineId
             /\ edit' = [edit EXCEPT ![e].stage = "ok"]
    <3>1. cart[u][i] + q \in 0..MaxQuantity
      BY <1>3, <1>4, <2>2
    <3>2. cart' = [cart EXCEPT ![u][i] = cart[u][i] + q]
      BY <2>2
    <3>3. CASE cart[u][i] = 0
      <4>1. lineId' = [lineId EXCEPT ![u][i] = lineId[u][i] + 1] /\ lineId[u][i] + 1 \in Nat
        BY <1>4, <2>2, <3>3
      <4>2. Effect(cart[u][i] + q, lineId[u][i] + 1, "ok")
        BY <2>2, <3>1, <3>2, <4>1
      <4> QED BY <4>2
    <3>4. CASE cart[u][i] # 0
      <4>1. lineId' = [lineId EXCEPT ![u][i] = lineId[u][i]] /\ cart[u][i] > 0
        BY <1>4, <2>1, <2>2, <3>4
      <4>2. Effect(cart[u][i] + q, lineId[u][i], "ok")
        BY <1>4, <2>2, <3>1, <3>2, <4>1
      <4> QED BY <4>2
    <3> QED BY <3>3, <3>4
  <2>3. CASE /\ cart[u][i] > 0
             /\ cart' = [cart EXCEPT ![u][i] = IF kind = "update" THEN q ELSE 0]
             /\ edit' = [edit EXCEPT ![e].stage = "ok"]
             /\ UNCHANGED lineId
    <3>1. (IF kind = "update" THEN q ELSE 0) \in 0..MaxQuantity
      BY <1>3, <1>4
    <3>2. Effect(IF kind = "update" THEN q ELSE 0, lineId[u][i], "ok")
      BY <1>4, <2>1, <2>3, <3>1
    <3> QED BY <3>2
  <2>4. CASE edit' = [edit EXCEPT ![e].stage = "not_found"] /\ UNCHANGED <<cart, lineId>>
    <3>1. Effect(cart[u][i], lineId[u][i], "not_found")
      BY <1>4, <2>1, <2>4
    <3> QED BY <3>1
  <2> QED BY <2>2, <2>3, <2>4 DEF WriteLine
<1> HIDE DEF u, i, q, kind
<1>6. /\ cart' \in [Users -> Carts] /\ lineId' \in [Users -> [Items -> Nat]]
      /\ cart'[u][i] = n /\ lineId'[u][i] = m
      /\ \A v \in Users, j \in Items : v # u \/ j # i =>
             cart'[v][j] = cart[v][j] /\ lineId'[v][j] = lineId[v][j]
  BY <1>3, <1>4, <1>5 DEF Carts
<1>7. \A v \in Users, j \in Items : lineId'[v][j] \in Nat /\ RowKept(v, j)
  <2>1. TAKE v \in Users, j \in Items
  <2>2. CASE v = u /\ j = i
    BY <1>4, <1>5, <1>6, <2>2 DEF RowKept
  <2>3. CASE v # u \/ j # i
    BY <1>4, <1>6, <2>3 DEF RowKept
  <2> QED BY <2>2, <2>3
<1>8. \A v \in Users, line \in Items \X Nat : Dead(v, line) => Dead(v, line)'
  <2>1. ASSUME NEW v \in Users, NEW line \in Items \X Nat, Dead(v, line) PROVE Dead(v, line)'
    <3>1. line[1] \in Items
      OBVIOUS
    <3> QED BY <1>7, <2>1, <3>1, DeadStaysDead DEF TxInv
  <2> QED BY <2>1
<1>9. \A v \in Users, j \in Items : lineId[v][j] <= lineId'[v][j]
  BY <1>4, <1>7 DEF RowKept
<1>10. /\ edit' \in [Edits -> EditStarted \cup {NotBegun}]
       /\ edit'[e].stage = s /\ edit'[e].kind = kind /\ edit'[e].user = u /\ edit'[e].item = i
       /\ \A f \in Edits \ {e} : edit'[f] = edit[f]
  BY <1>2, <1>5, EditMoves DEF TxInv, u, i, kind
<1>11. \A v \in Users, j \in Items : lineId'[v][j] <= Cardinality(Added(v, j)')
  <2>1. TAKE v \in Users, j \in Items
  <2>2. lineId[v][j] <= Cardinality(Added(v, j)) /\ lineId[v][j] \in Nat
    BY <1>4 DEF TxInv, Types
  <2>3. Added(v, j) \subseteq Edits /\ IsFiniteSet(Added(v, j)) /\ e \notin Added(v, j)
    BY <1>1, EditsAssumption, FS_Subset DEF Added
  <2>4. Added(v, j)' \subseteq Edits /\ IsFiniteSet(Added(v, j)')
    BY EditsAssumption, FS_Subset DEF Added
  <2>5. Added(v, j) \subseteq Added(v, j)'
    BY <1>10, <2>3 DEF Added
  <2>6. CASE v = u /\ j = i /\ m = lineId[u][i] + 1 /\ s = "ok" /\ kind = "add"
    <3>1. e \in Added(v, j)'
      BY <1>10, <2>6 DEF Added
    <3>2. Added(v, j) \cup {e} \subseteq Added(v, j)'
      BY <2>5, <3>1
    <3>3. Cardinality(Added(v, j) \cup {e}) = Cardinality(Added(v, j)) + 1
      BY <2>3, FS_AddElement
    <3>4. Cardinality(Added(v, j) \cup {e}) <= Cardinality(Added(v, j)')
      BY <2>4, <3>2, FS_Subset
    <3>5. Cardinality(Added(v, j)) \in Nat /\ Cardinality(Added(v, j)') \in Nat
      BY <2>3, <2>4, FS_CardinalityType
    <3>6. lineId'[v][j] = lineId[v][j] + 1
      BY <1>6, <2>6
    <3> QED BY <2>2, <3>3, <3>4, <3>5, <3>6
  <2>7. CASE lineId'[v][j] = lineId[v][j]
    <3>1. Cardinality(Added(v, j)) <= Cardinality(Added(v, j)')
      BY <2>4, <2>5, FS_Subset
    <3>2. Cardinality(Added(v, j)) \in Nat /\ Cardinality(Added(v, j)') \in Nat
      BY <2>3, <2>4, FS_CardinalityType
    <3> QED BY <2>2, <2>7, <3>1, <3>2
  <2> QED BY <1>5, <1>6, <2>6, <2>7
<1>12. Types'
  BY <1>1, <1>6, <1>10, <1>11 DEF TxInv, Types
<1>13. SoldIsGone'
  <2>1. \A o \in orders : o.user \in Users /\ o.rows \subseteq Items \X Nat
    BY DEF TxInv, Types, Orders
  <2> QED BY <1>1, <1>8, <2>1 DEF TxInv, SoldIsGone
<1>14. NoLineSoldTwice' /\ NoDoubleSpend' /\ KeysAreUnique' /\ Exclusive'
  BY <1>1 DEF TxInv, NoLineSoldTwice, NoDoubleSpend, KeysAreUnique, Exclusive
<1>15. ASSUME NEW d \in Checkouts PROVE Sound(d)'
  <2>1. tx'[d] = tx[d] /\ held'[d] = held[d] /\ Sound(d)
    BY <1>1 DEF TxInv
  <2>2. CASE tx[d] = NotBegun
    BY <2>1, <2>2 DEF Sound
  <2>3. CASE tx[d] # NotBegun
    <3>1. tx[d] \in Transactions
      BY <2>3 DEF TxInv, Types
    <3>2. tx[d].user \in Users /\ tx[d].rows \subseteq Items \X Nat
      BY <3>1 DEF Transactions
    <3>3. \A line \in tx[d].rows : line[2] \in Nat /\ line[1] \in Items
      BY <3>2
    <3>4. Selling(d)'
      <4>1. \A line \in tx[d].rows :
               line[2] <= lineId[tx[d].user][line[1]] => line[2] <= lineId'[tx[d].user][line[1]]
        BY <1>4, <1>7, <1>9, <3>2, <3>3
      <4> QED BY <1>1, <1>8, <2>1, <2>3, <3>2, <4>1 DEF Sound, Selling
    <3>5. Holding(d)' /\ Spending(d)' /\ KeyIsFree(d)'
      BY <1>1, <2>1, <2>3 DEF Sound, Holding, Spending, PointsOf, KeyIsFree, KeyCommitted
    <3> QED BY <2>1, <2>3, <3>4, <3>5 DEF Sound
  <2> QED BY <2>2, <2>3
<1> QED
  BY <1>12, <1>13, <1>14, <1>15 DEF TxInv
-----------------------------------------------------------------------------
(* The menu and the ledger's later rows.                                   *)

\* Staff switch an item on or off.
LEMMA SetItemAvailabilityStep ==
    ASSUME TxInv, NEW i \in Items, NEW available \in BOOLEAN, SetItemAvailability(i, available)
    PROVE  TxInv'
<1>1. UNCHANGED <<cart, lineId, orders, points, tx, held, edit>> /\ offMenu' \subseteq Items
  BY DEF SetItemAvailability, TxInv, Types
<1>2. Types'
  BY <1>1 DEF TxInv, Types, Added
<1>3. SoldIsGone' /\ NoLineSoldTwice' /\ NoDoubleSpend' /\ KeysAreUnique' /\ Exclusive'
  BY <1>1 DEF TxInv, SoldIsGone, Dead, NoLineSoldTwice, NoDoubleSpend, KeysAreUnique, Exclusive
<1>4. \A c \in Checkouts : Sound(c)'
  BY <1>1 DEF TxInv, Sound, Holding, Selling, Spending, KeyIsFree, KeyCommitted, Dead, PointsOf
<1> QED
  BY <1>2, <1>3, <1>4 DEF TxInv

\* A settled order is the order it was, and what it pays back is not negative.
LEMMA SettleOrderStep ==
    ASSUME TxInv, NEW o \in orders, NEW delta \in Nat, SettleOrder(o, delta)
    PROVE  TxInv'
<1> DEFINE after == [o EXCEPT !.settled = TRUE]
<1>1. /\ orders' = (orders \ {o}) \cup {after}
      /\ points' = [points EXCEPT ![o.user] = @ + delta]
      /\ UNCHANGED <<cart, lineId, offMenu, tx, held, edit>>
  BY DEF SettleOrder
<1>2. orders \subseteq Orders /\ o \in Orders
  BY DEF TxInv, Types
<1>3. /\ after \in Orders /\ after.user = o.user /\ after.rows = o.rows /\ after.key = o.key
      /\ o.user \in Users /\ o.rows \subseteq Items \X Nat
  BY <1>2 DEF Orders
<1> HIDE DEF after
<1>4. /\ points' \in [Users -> Int] /\ points'[o.user] = points[o.user] + delta
      /\ \A v \in Users : points[v] \in Int /\ points'[v] >= points[v]
  BY <1>1, <1>3 DEF TxInv, Types
<1>5. Types'
  BY <1>1, <1>2, <1>3, <1>4 DEF TxInv, Types, Added
<1>6. SoldIsGone'
  <2>1. \A p \in orders' : \E q \in orders : q.user = p.user /\ q.rows = p.rows
    BY <1>1, <1>3
  <2>2. \A p \in orders' : \A line \in p.rows : Dead(p.user, line)
    BY <2>1 DEF TxInv, SoldIsGone
  <2> QED BY <1>1, <2>2 DEF SoldIsGone, Dead
<1>7. NoLineSoldTwice' /\ KeysAreUnique'
  BY <1>1, <1>3 DEF TxInv, NoLineSoldTwice, KeysAreUnique
<1>8. NoDoubleSpend'
  BY <1>4 DEF TxInv, NoDoubleSpend
<1>9. Exclusive'
  BY <1>1 DEF TxInv, Exclusive
<1>10. ASSUME NEW d \in Checkouts PROVE Sound(d)'
  <2>1. tx'[d] = tx[d] /\ held'[d] = held[d] /\ Sound(d)
    BY <1>1 DEF TxInv
  <2>2. CASE tx[d] = NotBegun
    BY <2>1, <2>2 DEF Sound
  <2>3. CASE tx[d] # NotBegun
    <3>1. tx[d].user \in Users /\ tx[d].discount \in Nat
      BY <2>3 DEF TxInv, Types, Transactions
    <3>2. PointsOf(tx[d]) \in Int
      BY <3>1, PointsOfNat
    <3>3. Holding(d)' /\ Selling(d)' /\ KeyIsFree(d)'
      BY <1>1, <1>3, <2>1, <2>3 DEF Sound, Holding, Selling, KeyIsFree, KeyCommitted, Dead
    <3>4. PointsOf(tx[d])' = PointsOf(tx[d])
      BY <2>1 DEF PointsOf
    <3>5. Spending(d)'
      BY <1>4, <2>1, <2>3, <3>1, <3>2, <3>4 DEF Sound, Spending
    <3> QED BY <2>1, <2>3, <3>3, <3>5 DEF Sound
  <2> QED BY <2>2, <2>3
<1> QED
  BY <1>5, <1>6, <1>7, <1>8, <1>9, <1>10 DEF TxInv

\* What an order earned or spent is a natural number.
LEMMA SettlementsAreNat ==
    ASSUME Types, NEW o \in orders PROVE Earning(o) \in Nat /\ PointsOf(o) \in Nat
<1>1. o.lines \in Carts /\ o.discount \in Nat
  BY DEF Types, Orders
<1>2. Subtotal(o.lines) \in Nat
  BY <1>1, SubtotalAssumption DEF Carts
<1> QED
  BY <1>1, <1>2, PointsOfNat DEF Earning, EarnedPoints
-----------------------------------------------------------------------------
(* The theorems.                                                           *)

\* Empty carts, no orders, nobody at work.
LEMMA TxInvInit == Init => TxInv
<1> SUFFICES ASSUME Init PROVE TxInv
  OBVIOUS
<1>1. /\ cart = [u \in Users |-> EmptyCart] /\ lineId = [u \in Users |-> EmptyCart]
      /\ offMenu = {} /\ orders = {} /\ points = OpeningPoints
      /\ tx = [c \in Checkouts |-> NotBegun] /\ held = [c \in Checkouts |-> {}]
      /\ edit = [e \in Edits |-> NotBegun]
  BY DEF Init, NotBegun
<1>2. EmptyCart \in Carts /\ EmptyCart \in [Items -> Nat] /\ \A i \in Items : EmptyCart[i] = 0
  BY QuantityAssumption DEF EmptyCart, Carts
<1>3. \A u \in Users, i \in Items : lineId[u][i] <= Cardinality(Added(u, i))
  <2>1. TAKE u \in Users, i \in Items
  <2>2. IsFiniteSet(Added(u, i))
    BY EditsAssumption, FS_Subset DEF Added
  <2>3. Cardinality(Added(u, i)) \in Nat /\ lineId[u][i] = 0
    BY <1>1, <1>2, <2>2, FS_CardinalityType
  <2> QED BY <2>3
<1>4. points \in [Users -> Int] /\ NoDoubleSpend
  BY <1>1, OpeningAssumption DEF NoDoubleSpend
<1>5. Types
  BY <1>1, <1>2, <1>3, <1>4 DEF Types
<1> QED
  BY <1>1, <1>4, <1>5 DEF TxInv, Exclusive, SoldIsGone, NoLineSoldTwice, KeysAreUnique, Sound

\* Every step of checkouts, cart requests and staff keeps the invariant.
LEMMA TxInvNext == TxInv /\ [Next]_vars => TxInv'
<1> SUFFICES ASSUME TxInv, [Next]_vars PROVE TxInv'
  OBVIOUS
<1>1. ASSUME NEW c \in Checkouts, NEW u \in Users, NEW request \in RedeemRequests,
             NEW key \in Keys \cup {NoKey}, BeginCheckout(c, u, request, key)
      PROVE  TxInv'
  BY <1>1, BeginStep
<1>2. ASSUME NEW c \in Checkouts, CheckoutStep(c) PROVE TxInv'
  BY <1>2, LockCartStep, ReadCartStep, LockUserStep, ReadBalanceStep, InsertOrderStep,
     ClearCartStep, CommitStep DEF CheckoutStep
<1>3. ASSUME NEW c \in Checkouts, Fail(c) PROVE TxInv'
  BY <1>3, FailStep
<1>4. ASSUME NEW e \in Edits, NEW u \in Users, NEW i \in Items, NEW kind \in {"add", "update", "remove"},
             NEW quantity \in 1..MaxQuantity, BeginEdit(e, u, i, kind, quantity)
      PROVE  TxInv'
  BY <1>4, BeginEditStep
<1>5. ASSUME NEW e \in Edits, EditStep(e) PROVE TxInv'
  BY <1>5, FindCartStep, CheckMenuStep, WriteLineStep DEF EditStep
<1>6. ASSUME NEW i \in Items, NEW available \in BOOLEAN, SetItemAvailability(i, available)
      PROVE  TxInv'
  BY <1>6, SetItemAvailabilityStep
<1>7. ASSUME NEW o \in orders, SettleOrder(o, Earning(o)) \/ SettleOrder(o, PointsOf(o))
      PROVE  TxInv'
  BY <1>7, SettlementsAreNat, SettleOrderStep DEF TxInv
<1>8. CASE UNCHANGED vars
  <2>1. UNCHANGED <<cart, lineId, offMenu, orders, points, tx, held, edit>>
    BY <1>8 DEF vars, tables
  <2>2. Types'
    BY <2>1 DEF TxInv, Types, Added
  <2>3. SoldIsGone' /\ NoLineSoldTwice' /\ NoDoubleSpend' /\ KeysAreUnique' /\ Exclusive'
    BY <2>1 DEF TxInv, SoldIsGone, Dead, NoLineSoldTwice, NoDoubleSpend, KeysAreUnique, Exclusive
  <2>4. \A c \in Checkouts : Sound(c)'
    BY <2>1 DEF TxInv, Sound, Holding, Selling, Spending, KeyIsFree, KeyCommitted, Dead, PointsOf
  <2> QED BY <2>2, <2>3, <2>4 DEF TxInv
<1> QED
  BY <1>1, <1>2, <1>3, <1>4, <1>5, <1>6, <1>7, <1>8 DEF Next

\* Locks, reads and tables stay in order.
LEMMA TxInvHolds == Spec => []TxInv
  BY TxInvInit, TxInvNext, PTL DEF Spec

\* The invariant has the types.
LEMMA TxTypes == TxInv => TypeOK
<1> SUFFICES ASSUME TxInv PROVE TypeOK
  OBVIOUS
<1>1. /\ cart \in [Users -> [Items -> 0..MaxQuantity]] /\ offMenu \subseteq Items
      /\ points \in [Users -> Int]
  BY DEF TxInv, Types, Carts
<1>2. lineId \in [Users -> [Items -> 0..Cardinality(Edits)]]
  <2>1. ASSUME NEW u \in Users, NEW i \in Items PROVE lineId[u][i] \in 0..Cardinality(Edits)
    <3>1. Added(u, i) \subseteq Edits
      BY DEF Added
    <3>2. /\ Cardinality(Added(u, i)) <= Cardinality(Edits)
          /\ Cardinality(Added(u, i)) \in Nat /\ Cardinality(Edits) \in Nat
      BY <3>1, EditsAssumption, FS_Subset, FS_CardinalityType
    <3>3. lineId[u][i] \in Nat /\ lineId[u][i] <= Cardinality(Added(u, i))
      BY DEF TxInv, Types
    <3> QED BY <3>2, <3>3
  <2> DEFINE N == 0..Cardinality(Edits)
  <2>2. \A u \in Users, i \in Items : lineId[u][i] \in N
    BY <2>1
  <2> HIDE DEF N
  <2>3. lineId \in [Users -> [Items -> N]]
    BY <2>2 DEF TxInv, Types
  <2> QED BY <2>3 DEF N
<1>3. ASSUME NEW c \in Checkouts
      PROVE  /\ tx[c].stage \in TxStages \cup Refusals \cup {"idle", "created"}
             /\ tx[c].stage \notin TxStages => held[c] = {}
  <2>1. tx[c] \in Transactions \/ tx[c] = NotBegun
    BY DEF TxInv, Types
  <2>2. tx[c].stage \in TxStages \cup Refusals \cup {"idle", "created"}
    BY <2>1 DEF Transactions, NotBegun, Outcomes
  <2>3. tx[c].stage \notin TxStages => held[c] = {}
    BY DEF TxInv, Sound, Holding, TxStages
  <2> QED BY <2>2, <2>3
<1>4. \A e \in Edits : edit[e].stage \in EditStages \cup {"idle", "ok", "not_found", "unavailable"}
  BY DEF TxInv, Types, EditStarted, NotBegun
<1> QED
  BY <1>1, <1>2, <1>3, <1>4 DEF TypeOK

\* The tables and the transactions keep their types, there are never more rows
\* of an item than requests that added it, and a checkout that has been
\* answered, whichever of Store.Checkout's returns it took, holds no lock.
THEOREM TxTypeCorrect == Spec => []TypeOK
  BY TxInvHolds, TxTypes, PTL

\* Store.Checkout sells no cart_lines row twice: the lock on the cart keeps
\* every other checkout of the customer from reading it before the rows that
\* were sold are gone, and a row that is gone never comes back.
THEOREM LinesAreSoldOnce == Spec => []NoLineSoldTwice
<1>1. TxInv => NoLineSoldTwice
  BY DEF TxInv
<1> QED BY <1>1, TxInvHolds, PTL

\* No interleaving of checkouts and of TransitionOrder's ledger rows takes a
\* customer's balance below zero: what a checkout was granted under the lock on
\* the user is still there when it commits.
THEOREM PointsAreSpentOnce == Spec => []NoDoubleSpend
<1>1. TxInv => NoDoubleSpend
  BY DEF TxInv
<1> QED BY <1>1, TxInvHolds, PTL

\* One idempotency key makes at most one order, whichever customers' checkouts
\* carry it and however they overlap.
THEOREM KeysMakeOneOrder == Spec => []KeysAreUnique
<1>1. TxInv => KeysAreUnique
  BY DEF TxInv
<1> QED BY <1>1, TxInvHolds, PTL

\* A checkout waits only before it has its cart, for one that has it, or as it
\* inserts its order, for one that has inserted: two checkouts of one customer
\* are never both past the cart's lock.
LEMMA WhoWaits ==
    ASSUME TxInv, NEW c \in Open, NEW d \in Open, WaitsFor(c, d)
    PROVE  \/ tx[c].stage = "cart" /\ tx[d].stage # "cart"
           \/ tx[c].stage = "insert" /\ tx[d].stage \in {"clear", "commit"}
<1>1. c \in Checkouts /\ d \in Checkouts /\ c # d
  BY DEF Open, WaitsFor
<1>2. PICK lock : lock \in Wanted(c) /\ lock \in held[d]
  BY DEF WaitsFor
<1>3. Holding(c) /\ Holding(d)
  BY <1>1, BegunTx DEF Open, TxInv, Sound
<1>4. CASE tx[c].stage = "cart"
  <2>1. lock = CartLock(tx[c].user)
    BY <1>2, <1>4 DEF Wanted
  <2> QED BY <1>2, <1>3, <1>4, <2>1, LocksDiffer DEF Holding
<1>5. CASE tx[c].stage \in {"user", "insert", "clear"}
  <2>1. CartLock(tx[c].user) \in held[c]
    BY <1>3, <1>5 DEF Holding, TxStages
  <2>2. tx[d].user # tx[c].user \/ tx[d].stage = "cart"
    <3>1. tx[d].stage \in TxStages
      BY DEF Open
    <3> QED BY <1>1, <1>3, <2>1, <3>1 DEF TxInv, Exclusive, Holding
  <2>3. \/ lock = UserLock(tx[c].user)
        \/ tx[c].stage = "insert" /\ lock = KeyLock(tx[c].key)
        \/ \E i \in Items : lock = LineLock(tx[c].user, i)
    BY <1>2, <1>5 DEF Wanted, Lines
  <2>4. CASE lock = UserLock(tx[c].user) \/ \E i \in Items : lock = LineLock(tx[c].user, i)
    <3>1. tx[d].user = tx[c].user /\ tx[d].stage # "cart"
      BY <1>2, <1>3, <2>4, LocksDiffer DEF Holding
    <3> QED BY <2>2, <3>1
  <2>5. CASE tx[c].stage = "insert" /\ lock = KeyLock(tx[c].key)
    BY <1>2, <1>3, <2>5, LocksDiffer DEF Holding
  <2> QED BY <2>3, <2>4, <2>5
<1>6. CASE tx[c].stage \notin {"cart", "user", "insert", "clear"}
  BY <1>2, <1>6 DEF Wanted
<1> QED
  BY <1>4, <1>5, <1>6

\* Only who wants its cart or its key waits, for the key only behind an order that
\* is written, and for the cart only behind a transaction that has it.
LEMMA TxNeverCircles == TxInv => NoDeadlock
<1> SUFFICES ASSUME TxInv PROVE NoDeadlock
  OBVIOUS
<1>1. ASSUME NEW c \in Open, NEW d \in Checkouts, WaitsFor(c, d) PROVE d \in Open
  <2>1. held[d] # {}
    BY <1>1 DEF WaitsFor
  <2> QED BY <2>1, TxTypes DEF TypeOK, Open
<1>2. ASSUME NEW waiting \in SUBSET Open, waiting # {}
      PROVE  \E c \in waiting : \A d \in waiting : ~WaitsFor(c, d)
  <2>1. CASE \E c \in waiting : tx[c].stage \notin {"cart", "insert"}
    BY <2>1, WhoWaits
  <2>2. CASE /\ \A c \in waiting : tx[c].stage \in {"cart", "insert"}
             /\ \E c \in waiting : tx[c].stage = "insert"
    <3>1. PICK c \in waiting : tx[c].stage = "insert"
      BY <2>2
    <3>2. \A d \in waiting : tx[d].stage \notin {"clear", "commit"}
      BY <2>2
    <3> QED BY <3>1, <3>2, WhoWaits
  <2>3. CASE \A c \in waiting : tx[c].stage = "cart"
    <3>1. PICK c \in waiting : TRUE
      BY <1>2
    <3> QED BY <2>3, <3>1, WhoWaits
  <2> QED BY <2>1, <2>2, <2>3
<1> QED
  BY <1>1, <1>2 DEF NoDeadlock

\* Checkouts never wait for each other in a circle: any open transactions, of
\* whatever number, have one that waits for none of the others, so the
\* database never has to abort one of them as a deadlock.
THEOREM CheckoutsNeverCircle == Spec => []NoDeadlock
  BY TxInvHolds, TxNeverCircles, PTL
=============================================================================
