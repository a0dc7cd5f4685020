-------------------------- MODULE OrderStoreProofs --------------------------
(***************************************************************************)
(* What holds of the order tables for any number of customers, orders and  *)
(* menu entries, any prices, any fee and any redemption requests: the      *)
(* money, the audit trail, what is final, and the promise of OrderPromise; *)
(* and that calls of TransitionOrder which overlap change nothing in it.   *)
(***************************************************************************)
EXTENDS TransitionTx, TLAPS

-----------------------------------------------------------------------------
(* The rules of the domain package.                                        *)

\* A granted or refused redemption never spends more than the balance, never
\* discounts more than the subtotal, and spends exactly what it discounts.
LEMMA RedemptionBounds ==
    ASSUME NEW request \in Nat, NEW balance \in Int, balance >= 0, NEW subtotal \in Nat
    PROVE  LET r == Redemption(request, balance, subtotal)
           IN  /\ r.granted \in BOOLEAN
               /\ r.discount \in Nat
               /\ r.spent = r.discount
               /\ r.discount <= subtotal
               /\ r.discount <= balance
  BY DEF Redemption, PesewasPerPoint

\* Points earned are a natural number, and none for a guest.
LEMMA EarnedPointsNat ==
    ASSUME NEW subtotal \in Nat, NEW isGuest \in BOOLEAN
    PROVE  /\ EarnedPoints(subtotal, isGuest) \in Nat
           /\ isGuest => EarnedPoints(subtotal, isGuest) = 0
  BY DEF EarnedPoints

\* The lifecycle has no cycle: every legal transition leads to a status of a
\* higher rank, leaves a status that is not final and never leads back to
\* pending_payment.
Rank(s) ==
    CASE s = "absent"           -> 0
      [] s = "pending_payment"  -> 1
      [] s = "paid"             -> 2
      [] s = "preparing"        -> 3
      [] s = "ready"            -> 4
      [] s = "out_for_delivery" -> 5
      [] s = "completed"        -> 6
      [] OTHER                  -> 7

LEMMA TransitionsClimb ==
    ASSUME NEW f, NEW from, NEW to, CanTransition(f, from, to)
    PROVE  /\ from \in Statuses \ {"completed", "cancelled"}
           /\ to \in Statuses \ {"pending_payment"}
           /\ Rank(from) < Rank(to)
           /\ to \in {"preparing", "ready", "out_for_delivery", "completed"} => from # "pending_payment"
           /\ to = "completed" => from \in {"ready", "out_for_delivery"}
           /\ to = "cancelled" => from \in {"pending_payment", "paid"}
           /\ to = "paid" => from = "pending_payment"
  BY DEF CanTransition, IsTerminal, AllowedTargets, CommonTransitions,
         FulfilmentTransitions, Statuses, Fulfilments, Rank
-----------------------------------------------------------------------------
(* The inductive invariant.                                                *)

\* A row that exists has an owner; an id without a row has the blank one.
\* A guest never redeems.
RowsWellFormed ==
    \A o \in OrderIds :
        /\ Exists(o) => orders[o].user \in Users
        /\ ~Exists(o) => orders[o] = BlankRow /\ history[o] = <<>>
        /\ orders[o].user \in Guests => orders[o].discount = 0

MoneyInv == TypeOK /\ RowsWellFormed /\ LedgerMatchesLifecycle /\ BalancesAreSound
            /\ TotalCoversDelivery

LEMMA InitMoney == StoreInit => MoneyInv
  BY QuantityAssumption, GuestsAssumption, OpeningAssumption, NoneAssumption
     DEF StoreInit, EmptyCart, MoneyInv, TypeOK, RowsWellFormed, LedgerMatchesLifecycle,
         BalancesAreSound, TotalCoversDelivery, BlankRow, OrderRow, Exists,
         Reasons, Statuses, Fulfilments

LEMMA CheckoutMoney ==
    ASSUME MoneyInv, NEW o \in OrderIds, NEW u \in Users, NEW f \in Fulfilments,
           NEW request \in RedeemRequests, NEW key \in Keys \cup {NoKey},
           Checkout(o, u, f, request, key)
    PROVE  MoneyInv'
  <1> DEFINE subtotal == Subtotal(cart[u])
             fee == IF f = "delivery" THEN DeliveryFee ELSE 0
             r == Redemption(request, points[u], subtotal)
             row == [user |-> u, fulfilment |-> f, subtotal |-> subtotal, fee |-> fee,
                     discount |-> r.discount, total |-> subtotal + fee - r.discount, key |-> key]
  <1>1. subtotal \in Nat /\ fee \in Nat /\ request \in Nat /\ points[u] \in Int /\ points[u] >= 0
    BY SubtotalAssumption, FeeAssumption, RequestAssumption
       DEF MoneyInv, TypeOK, BalancesAreSound
  <1>2. /\ r.discount \in Nat /\ r.spent = r.discount
        /\ r.discount <= subtotal /\ r.discount <= points[u]
    BY <1>1, RedemptionBounds
  <1> HIDE DEF subtotal, fee, r
  <1>3. /\ orders' = [orders EXCEPT ![o] = row]
        /\ status' = [status EXCEPT ![o] = "pending_payment"]
        /\ ledger' = [ledger EXCEPT ![o]["redeem_at_checkout"] = @ - r.discount]
        /\ points' = [points EXCEPT ![u] = @ - r.discount]
        /\ cart' = [cart EXCEPT ![u] = EmptyCart]
        /\ offMenu' = offMenu /\ referenced' = referenced /\ history' = history
        /\ ~Exists(o)
    <2>1. ASSUME NEW x \in Int PROVE x + (-r.discount) = x - r.discount
      BY <2>1, <1>2
    <2>2. ledger[o]["redeem_at_checkout"] \in Int /\ points[u] \in Int
      BY DEF MoneyInv, TypeOK, Reasons
    <2> QED BY <2>1, <2>2, <1>2 DEF Checkout, PostLedger, NextId, subtotal, fee, r
  <1>4. row \in OrderRow
    BY <1>1, <1>2 DEF OrderRow
  <1>5. TypeOK'
    <2>1. ledger' \in [OrderIds -> [Reasons -> Int]] /\ points' \in [Users -> Int]
      BY <1>2, <1>3 DEF MoneyInv, TypeOK, Reasons
    <2>2. \A p \in OrderIds : /\ ledger'[p]["redeem_at_checkout"] <= 0
                              /\ ledger'[p]["earn_on_completion"] >= 0
                              /\ ledger'[p]["refund_on_cancel"] >= 0
      BY <1>2, <1>3 DEF MoneyInv, TypeOK, Reasons
    <2>3. cart' \in [Users -> [Items -> 0..MaxQuantity]]
      BY <1>3, QuantityAssumption DEF MoneyInv, TypeOK, EmptyCart
    <2> QED BY <1>3, <1>4, <2>1, <2>2, <2>3 DEF MoneyInv, TypeOK, Statuses
  <1>6. RowsWellFormed'
    <2>1. u \in Guests => r.discount = 0
      BY <1>1, <1>2 DEF MoneyInv, BalancesAreSound
    <2> QED BY <1>3, <2>1 DEF MoneyInv, TypeOK, RowsWellFormed, Exists
  <1>7. LedgerMatchesLifecycle'
    <2>1. orders[o].discount = 0 /\ status[o] = "absent"
      BY <1>3 DEF MoneyInv, RowsWellFormed, BlankRow, Exists
    <2> SUFFICES ASSUME NEW p \in OrderIds
                 PROVE  /\ ledger'[p]["redeem_at_checkout"] = -orders'[p].discount
                        /\ ledger'[p]["refund_on_cancel"]
                             = IF status'[p] = "cancelled" THEN orders'[p].discount ELSE 0
                        /\ ledger'[p]["earn_on_completion"]
                             = IF status'[p] = "completed"
                               THEN EarnedPoints(orders'[p].subtotal, orders'[p].user \in Guests) ELSE 0
      BY DEF LedgerMatchesLifecycle
    <2>2. CASE p = o
      BY <1>2, <1>3, <2>1, <2>2 DEF MoneyInv, TypeOK, LedgerMatchesLifecycle, Reasons
    <2>3. CASE p # o
      BY <1>3, <2>3 DEF MoneyInv, TypeOK, LedgerMatchesLifecycle, Reasons
    <2> QED BY <2>2, <2>3
  <1>8. BalancesAreSound'
    BY <1>1, <1>2, <1>3, GuestsAssumption DEF MoneyInv, TypeOK, BalancesAreSound
  <1>9. TotalCoversDelivery'
    BY <1>1, <1>2, <1>3 DEF MoneyInv, TypeOK, TotalCoversDelivery
  <1> QED BY <1>5, <1>6, <1>7, <1>8, <1>9 DEF MoneyInv

LEMMA TransitionMoney ==
    ASSUME MoneyInv, NEW o \in OrderIds, NEW to \in Statuses, NEW actor \in Actors,
           TransitionOrder(o, to, actor)
    PROVE  MoneyInv'
  <1> DEFINE row == orders[o]
             earned == EarnedPoints(row.subtotal, row.user \in Guests)
             delta == IF to = "completed" THEN earned
                      ELSE IF to = "cancelled" THEN row.discount ELSE 0
             reason == IF to = "completed" THEN "earn_on_completion" ELSE "refund_on_cancel"
  <1>1. /\ Exists(o) /\ status[o] \in Statuses
        /\ CanTransition(row.fulfilment, status[o], to)
        /\ status[o] \notin {"completed", "cancelled"}
    BY TransitionsClimb DEF TransitionOrder, TransitionReply
  <1>2. /\ row \in OrderRow /\ row.user \in Users /\ row.subtotal \in Nat /\ row.discount \in Nat
    BY <1>1 DEF MoneyInv, TypeOK, RowsWellFormed, OrderRow
  <1>3. earned \in Nat /\ (row.user \in Guests => earned = 0)
    BY <1>2 DEF EarnedPoints
  <1>4. row.user \in Guests => row.discount = 0
    BY DEF MoneyInv, RowsWellFormed
  <1> HIDE DEF earned
  <1>5. delta \in Nat /\ (row.user \in Guests => delta = 0)
    BY <1>2, <1>3, <1>4
  <1>6. /\ ledger[o] \in [Reasons -> Int] /\ points[row.user] \in Int
        /\ reason \in Reasons
    BY <1>2 DEF MoneyInv, TypeOK, Reasons
  <1>7. /\ status' = [status EXCEPT ![o] = to]
        /\ ledger' = [ledger EXCEPT ![o][reason] = @ + delta]
        /\ points' = [points EXCEPT ![row.user] = @ + delta]
        /\ cart' = cart /\ offMenu' = offMenu /\ orders' = orders /\ referenced' = referenced
    <2>1. row.discount \div PesewasPerPoint = row.discount
      BY <1>2 DEF PesewasPerPoint
    <2>2. CASE to = "completed"
      BY <2>2 DEF TransitionOrder, Settle, PostLedger, earned
    <2>3. CASE to = "cancelled"
      BY <2>1, <2>3 DEF TransitionOrder, Settle, PostLedger
    <2>4. CASE to \notin {"completed", "cancelled"}
      BY <1>2, <1>6, <2>4 DEF TransitionOrder, Settle, MoneyInv, TypeOK, Reasons
    <2> QED BY <2>2, <2>3, <2>4
  <1>8. history' \in [OrderIds -> Seq(EventRow)]
    <2> DEFINE event == [from |-> status[o], to |-> to, actor |-> actor]
    <2>1. event \in EventRow
      BY <1>1 DEF EventRow
    <2>2. history \in [OrderIds -> Seq(EventRow)]
      BY DEF MoneyInv, TypeOK
    <2>3. history' = [history EXCEPT ![o] = Append(@, event)]
      BY DEF TransitionOrder
    <2> HIDE DEF event
    <2>4. Append(history[o], event) \in Seq(EventRow)
      BY <2>1, <2>2
    <2> QED BY <2>2, <2>3, <2>4
  <1> HIDE DEF delta, reason
  <1>9. TypeOK'
    <2>1. ledger' \in [OrderIds -> [Reasons -> Int]]
      <3>1. [ledger[o] EXCEPT ![reason] = @ + delta] \in [Reasons -> Int]
        BY <1>5, <1>6
      <3> QED BY <1>7, <3>1 DEF MoneyInv, TypeOK
    <2>3. points' \in [Users -> Int]
      BY <1>2, <1>5, <1>6, <1>7 DEF MoneyInv, TypeOK
    <2>2. \A p \in OrderIds : /\ ledger'[p]["redeem_at_checkout"] <= 0
                              /\ ledger'[p]["earn_on_completion"] >= 0
                              /\ ledger'[p]["refund_on_cancel"] >= 0
      <3>1. reason \in {"earn_on_completion", "refund_on_cancel"}
        BY DEF reason
      <3> QED BY <1>5, <1>7, <3>1 DEF MoneyInv, TypeOK, Reasons
    <2> QED BY <1>7, <1>8, <2>1, <2>2, <2>3 DEF MoneyInv, TypeOK
  <1>10. RowsWellFormed'
    <2>1. \A p \in OrderIds : p # o => history'[p] = history[p] /\ status'[p] = status[p]
      BY <1>7 DEF TransitionOrder, MoneyInv, TypeOK
    <2>2. status'[o] = to
      BY <1>7 DEF MoneyInv, TypeOK
    <2> QED BY <1>1, <1>7, <2>1, <2>2 DEF MoneyInv, RowsWellFormed, Exists, Statuses
  <1>11. LedgerMatchesLifecycle'
    <2> SUFFICES ASSUME NEW p \in OrderIds
                 PROVE  /\ ledger'[p]["redeem_at_checkout"] = -orders[p].discount
                        /\ ledger'[p]["refund_on_cancel"]
                             = IF status'[p] = "cancelled" THEN orders[p].discount ELSE 0
                        /\ ledger'[p]["earn_on_completion"]
                             = IF status'[p] = "completed"
                               THEN EarnedPoints(orders[p].subtotal, orders[p].user \in Guests) ELSE 0
      BY <1>7 DEF LedgerMatchesLifecycle
    <2>1. CASE p # o
      BY <1>7, <2>1 DEF MoneyInv, TypeOK, LedgerMatchesLifecycle
    <2>2. CASE p = o
      <3>1. /\ ledger[o]["redeem_at_checkout"] = -row.discount
            /\ ledger[o]["refund_on_cancel"] = 0
            /\ ledger[o]["earn_on_completion"] = 0
        BY <1>1 DEF MoneyInv, LedgerMatchesLifecycle
      <3>2. status'[o] = to
        BY <1>7 DEF MoneyInv, TypeOK
      <3>3. \A x \in Reasons : ledger'[o][x] = IF x = reason THEN ledger[o][x] + delta ELSE ledger[o][x]
        BY <1>6, <1>7 DEF MoneyInv, TypeOK
      <3> QED BY <1>2, <1>3, <2>2, <3>1, <3>2, <3>3 DEF delta, reason, earned, Reasons
    <2> QED BY <2>1, <2>2
  <1>12. BalancesAreSound'
    BY <1>2, <1>5, <1>7, GuestsAssumption DEF MoneyInv, TypeOK, BalancesAreSound
  <1>13. TotalCoversDelivery'
    BY <1>7 DEF MoneyInv, TotalCoversDelivery
  <1> QED BY <1>9, <1>10, <1>11, <1>12, <1>13 DEF MoneyInv

LEMMA FrameMoney ==
    ASSUME MoneyInv, cart' \in [Users -> [Items -> 0..MaxQuantity]], offMenu' \subseteq Items,
           referenced' \in [OrderIds -> BOOLEAN],
           UNCHANGED <<orders, status, history, ledger, points>>
    PROVE  MoneyInv'
  <1>1. TypeOK'
    BY DEF MoneyInv, TypeOK
  <1>2. RowsWellFormed'
    BY DEF MoneyInv, RowsWellFormed, Exists
  <1>3. LedgerMatchesLifecycle' /\ BalancesAreSound' /\ TotalCoversDelivery'
    BY DEF MoneyInv, LedgerMatchesLifecycle, BalancesAreSound, TotalCoversDelivery
  <1> QED BY <1>1, <1>2, <1>3 DEF MoneyInv

LEMMA NextMoney == MoneyInv /\ [StoreNext]_storeVars => MoneyInv'
  <1> SUFFICES ASSUME MoneyInv, [StoreNext]_storeVars
               PROVE  MoneyInv'
    OBVIOUS
  <1>0. /\ cart \in [Users -> [Items -> 0..MaxQuantity]] /\ offMenu \subseteq Items
        /\ referenced \in [OrderIds -> BOOLEAN]
    BY DEF MoneyInv, TypeOK
  <1>1. ASSUME NEW u \in Users, EditCart(u)
        PROVE  MoneyInv'
    <2>1. cart' \in [Users -> [Items -> 0..MaxQuantity]]
      BY <1>0, <1>1, QuantityAssumption DEF EditCart, AddCartItem, UpdateCartLine, RemoveCartLine
    <2> QED BY <1>0, <1>1, <2>1, FrameMoney DEF EditCart, AddCartItem, UpdateCartLine, RemoveCartLine
  <1>3. ASSUME NEW i \in Items, NEW available \in BOOLEAN, SetItemAvailability(i, available)
        PROVE  MoneyInv'
    BY <1>0, <1>3, FrameMoney DEF SetItemAvailability
  <1>4. ASSUME NEW o \in OrderIds, SetPaystackReference(o)
        PROVE  MoneyInv'
    BY <1>0, <1>4, FrameMoney DEF SetPaystackReference
  <1>5. CASE UNCHANGED storeVars
    BY <1>0, <1>5, FrameMoney DEF storeVars
  <1>6. ASSUME NEW o \in OrderIds, NEW to \in Statuses, NEW actor \in ActorsFor(to),
               TransitionOrder(o, to, actor)
        PROVE  MoneyInv'
    <2>1. actor \in Actors
      BY <1>6 DEF ActorsFor, Actors
    <2> QED BY <1>6, <2>1, TransitionMoney
  <1> QED BY <1>1, <1>3, <1>4, <1>5, <1>6, CheckoutMoney DEF StoreNext

LEMMA MoneyInvariant == StoreSpec => []MoneyInv
  BY InitMoney, NextMoney, PTL DEF StoreSpec

\* The tables keep their types, and every ledger row its sign.
THEOREM TypeCorrect == StoreSpec => []TypeOK
  <1>1. MoneyInv => TypeOK
    BY DEF MoneyInv
  <1> QED BY <1>1, MoneyInvariant, PTL

\* No order of checkouts, completions and cancellations ever makes a balance
\* negative, and guests hold no points.
THEOREM BalancesStaySound == StoreSpec => []BalancesAreSound
  <1>1. MoneyInv => BalancesAreSound
    BY DEF MoneyInv
  <1> QED BY <1>1, MoneyInvariant, PTL

\* Debit, refund and earning of an order are written exactly when its status
\* says so, and once.
THEOREM LedgerFollowsLifecycle == StoreSpec => []LedgerMatchesLifecycle
  <1>1. MoneyInv => LedgerMatchesLifecycle
    BY DEF MoneyInv
  <1> QED BY <1>1, MoneyInvariant, PTL

\* A redemption never reduces what is charged for delivery.
THEOREM TotalsCoverDelivery == StoreSpec => []TotalCoversDelivery
  <1>1. MoneyInv => TotalCoversDelivery
    BY DEF MoneyInv
  <1> QED BY <1>1, MoneyInvariant, PTL
-----------------------------------------------------------------------------
(* The audit trail of the orders, and what is final in them.               *)

\* Ranks never fall along a trail, so an order never comes back to a status
\* it has left.  Without this an order's second "paid" event could not be
\* ruled out.
NeverBehind ==
    \A o \in OrderIds : \A i \in 1..Len(history[o]) : Rank(history[o][i].to) <= Rank(status[o])

TrailInv == HistoryIsLegalPath /\ PaidOnceBeforeHandling /\ NeverBehind

LEMMA RankType == ASSUME NEW s PROVE Rank(s) \in 0..7
  BY DEF Rank

LEMMA InitTrail == StoreInit => TrailInv
  <1> SUFFICES ASSUME StoreInit PROVE TrailInv
    OBVIOUS
  <1>1. \A o \in OrderIds : history[o] = <<>> /\ status[o] = "absent" /\ Len(history[o]) = 0
    BY DEF StoreInit
  <1> QED BY <1>1 DEF TrailInv, HistoryIsLegalPath, PaidOnceBeforeHandling, NeverBehind, Exists

\* A new order starts an empty trail at pending_payment.
LEMMA CheckoutTrail ==
    ASSUME MoneyInv, TrailInv, NEW o \in OrderIds, NEW u \in Users, NEW f \in Fulfilments,
           NEW request \in RedeemRequests, NEW key \in Keys \cup {NoKey},
           Checkout(o, u, f, request, key)
    PROVE  TrailInv'
  <1>1. /\ ~Exists(o) /\ history' = history
        /\ status' = [status EXCEPT ![o] = "pending_payment"]
        /\ \A p \in OrderIds : p # o => orders'[p] = orders[p] /\ status'[p] = status[p]
        /\ status'[o] = "pending_payment"
    BY DEF Checkout, NextId, MoneyInv, TypeOK
  <1>2. history[o] = <<>> /\ Len(history[o]) = 0
    BY <1>1 DEF MoneyInv, RowsWellFormed
  <1>3. HistoryIsLegalPath'
    BY <1>1, <1>2 DEF TrailInv, HistoryIsLegalPath, Exists
  <1>4. PaidOnceBeforeHandling'
    BY <1>1, <1>2 DEF TrailInv, PaidOnceBeforeHandling
  <1>5. NeverBehind'
    BY <1>1, <1>2 DEF TrailInv, NeverBehind
  <1> QED BY <1>3, <1>4, <1>5 DEF TrailInv

\* A transition adds one legal edge that starts where the trail ended.
LEMMA TransitionTrail ==
    ASSUME MoneyInv, TrailInv, NEW o \in OrderIds, NEW to \in Statuses, NEW actor \in Actors,
           TransitionOrder(o, to, actor)
    PROVE  TrailInv'
  <1> DEFINE event == [from |-> status[o], to |-> to, actor |-> actor]
             path == history[o]
             n == Len(path)
  <1>1. /\ Exists(o) /\ CanTransition(orders[o].fulfilment, status[o], to)
        /\ Rank(status[o]) < Rank(to)
        /\ to \in {"preparing", "ready", "out_for_delivery", "completed"}
               => status[o] # "pending_payment"
        /\ to = "paid" => status[o] = "pending_payment"
        /\ status[o] \in Statuses \ {"completed", "cancelled"}
    BY TransitionsClimb DEF TransitionOrder, TransitionReply
  <1>2. path \in Seq(EventRow) /\ event \in EventRow /\ n \in Nat
    <2>1. path \in Seq(EventRow)
      BY DEF MoneyInv, TypeOK
    <2>2. event \in EventRow
      BY <1>1 DEF EventRow
    <2> QED BY <2>1, <2>2
  <1>3. /\ history' = [history EXCEPT ![o] = Append(path, event)]
        /\ status' = [status EXCEPT ![o] = to]
        /\ orders' = orders
    BY DEF TransitionOrder
  <1>4. /\ \A p \in OrderIds : p # o => history'[p] = history[p] /\ status'[p] = status[p]
        /\ history'[o] = Append(path, event) /\ status'[o] = to
    BY <1>3 DEF MoneyInv, TypeOK
  <1>5. /\ Len(Append(path, event)) = n + 1
        /\ \A i \in 1..n : Append(path, event)[i] = path[i]
        /\ Append(path, event)[n + 1] = event
        /\ Append(path, event) # <<>>
        /\ path = <<>> <=> n = 0
    BY <1>2
  <1>6. event.from = status[o] /\ event.to = to
    OBVIOUS
  <1>7. status[o] = IF path = <<>> THEN "pending_payment" ELSE path[n].to
    BY <1>1 DEF TrailInv, HistoryIsLegalPath
  <1> HIDE DEF event
  <1>8. HistoryIsLegalPath'
    <2> SUFFICES ASSUME NEW p \in OrderIds
                 PROVE  LET new == history'[p]
                            last == IF new = <<>> THEN "pending_payment" ELSE new[Len(new)].to
                        IN  /\ Exists(p)' => status'[p] = last
                            /\ ~Exists(p)' => new = <<>>
                            /\ \A i \in 1..Len(new) :
                                   /\ CanTransition(orders[p].fulfilment, new[i].from, new[i].to)
                                   /\ new[i].from = IF i = 1 THEN "pending_payment" ELSE new[i - 1].to
      BY <1>3 DEF HistoryIsLegalPath
    <2>1. CASE p # o
      BY <1>4, <2>1 DEF TrailInv, HistoryIsLegalPath, Exists
    <2>2. CASE p = o
      <3> DEFINE new == Append(path, event)
      <3>1. \A i \in 1..n : /\ CanTransition(orders[o].fulfilment, path[i].from, path[i].to)
                            /\ path[i].from = IF i = 1 THEN "pending_payment" ELSE path[i - 1].to
        BY DEF TrailInv, HistoryIsLegalPath
      <3>2. \A i \in 1..n : /\ CanTransition(orders[o].fulfilment, new[i].from, new[i].to)
                            /\ new[i].from = IF i = 1 THEN "pending_payment" ELSE new[i - 1].to
        BY <1>2, <1>5, <3>1
      <3>3. /\ CanTransition(orders[o].fulfilment, new[n + 1].from, new[n + 1].to)
            /\ new[n + 1].from = IF n = 0 THEN "pending_payment" ELSE new[n].to
        BY <1>1, <1>2, <1>5, <1>6, <1>7
      <3>4. Exists(o)' /\ status'[o] = new[n + 1].to
        BY <1>4, <1>5, <1>6 DEF Exists, Statuses
      <3> HIDE DEF new, n
      <3>5. \A i \in 1..(n + 1) : i \in 1..n \/ i = n + 1
        BY <1>2
      <3>6. n + 1 = 1 <=> n = 0
        BY <1>2
      <3>7. (n + 1) - 1 = n
        BY <1>2
      <3>8. Len(new) = n + 1 /\ new # <<>> /\ history'[o] = new
        BY <1>4, <1>5 DEF new
      <3>9. \A i \in 1..Len(new) :
                /\ CanTransition(orders[o].fulfilment, new[i].from, new[i].to)
                /\ new[i].from = IF i = 1 THEN "pending_payment" ELSE new[i - 1].to
        BY <3>2, <3>3, <3>5, <3>6, <3>7, <3>8
      <3> QED BY <2>2, <3>4, <3>8, <3>9
    <2> QED BY <2>1, <2>2
  <1>9. \A i \in 1..n : Rank(path[i].to) <= Rank(status[o])
    BY DEF TrailInv, NeverBehind
  <1>10. NeverBehind'
    <2> SUFFICES ASSUME NEW p \in OrderIds, NEW i \in 1..Len(history'[p])
                 PROVE  Rank(history'[p][i].to) <= Rank(status'[p])
      BY DEF NeverBehind
    <2>1. CASE p # o
      BY <1>4, <2>1 DEF TrailInv, NeverBehind
    <2>2. CASE p = o /\ i \in 1..n
      <3>1. history'[p][i] = path[i] /\ status'[p] = to
        BY <1>4, <1>5, <2>2
      <3>2. Rank(path[i].to) <= Rank(status[o])
        BY <1>9, <2>2
      <3>3. /\ Rank(path[i].to) \in 0..7 /\ Rank(status[o]) \in 0..7 /\ Rank(to) \in 0..7
        BY RankType
      <3> QED BY <1>1, <3>1, <3>2, <3>3
    <2>3. CASE p = o /\ i = n + 1
      <3>1. Rank(to) \in 0..7
        BY RankType
      <3> QED BY <1>4, <1>5, <1>6, <2>3, <3>1
    <2> QED BY <1>2, <1>4, <1>5, <2>1, <2>2, <2>3
  <1>11. PaidOnceBeforeHandling'
    <2> SUFFICES ASSUME NEW p \in OrderIds
                 PROVE  LET paid == {i \in 1..Len(history'[p]) : history'[p][i].to = "paid"} IN
                        /\ \A i, j \in paid : i = j
                        /\ status'[p] \in {"paid", "preparing", "ready", "out_for_delivery", "completed"}
                               => paid # {}
      BY DEF PaidOnceBeforeHandling
    <2>1. CASE p # o
      BY <1>4, <2>1 DEF TrailInv, PaidOnceBeforeHandling
    <2>2. CASE p = o
      <3> DEFINE old == {i \in 1..n : path[i].to = "paid"}
      <3>1. /\ \A i, j \in old : i = j
            /\ status[o] \in {"paid", "preparing", "ready", "out_for_delivery"} => old # {}
        BY DEF TrailInv, PaidOnceBeforeHandling
      <3>2. to = "paid" => old = {}
        BY <1>1, <1>9 DEF Rank
      <3>3. {i \in 1..Len(history'[o]) : history'[o][i].to = "paid"}
              = IF to = "paid" THEN {n + 1} ELSE old
        <4> HIDE DEF old
        <4>1. \A i \in 1..Len(history'[o]) : history'[o][i].to = "paid" <=>
                  (i = n + 1 /\ to = "paid") \/ i \in old
          BY <1>2, <1>4, <1>5, <1>6 DEF old
        <4>2. old \subseteq 1..Len(history'[o]) /\ n + 1 \in 1..Len(history'[o])
          BY <1>2, <1>4, <1>5 DEF old
        <4> QED BY <3>2, <4>1, <4>2
      <3>4. to \in {"preparing", "ready", "out_for_delivery", "completed"} => old # {}
        BY <1>1, <3>1 DEF Statuses
      <3> DEFINE paid == {i \in 1..Len(history'[o]) : history'[o][i].to = "paid"}
      <3>5. \A i, j \in paid : i = j
        BY <3>1, <3>3
      <3>6. to \in {"paid", "preparing", "ready", "out_for_delivery", "completed"} => paid # {}
        BY <3>3, <3>4
      <3> QED BY <1>4, <2>2, <3>5, <3>6
    <2> QED BY <2>1, <2>2
  <1> QED BY <1>8, <1>10, <1>11 DEF TrailInv

LEMMA NextTrail == MoneyInv /\ TrailInv /\ [StoreNext]_storeVars => TrailInv'
  <1> SUFFICES ASSUME MoneyInv, TrailInv, [StoreNext]_storeVars
               PROVE  TrailInv'
    OBVIOUS
  <1>1. ASSUME UNCHANGED <<orders, status, history>>
        PROVE  TrailInv'
    <2>1. HistoryIsLegalPath'
      BY <1>1 DEF TrailInv, HistoryIsLegalPath, Exists
    <2>2. PaidOnceBeforeHandling'
      BY <1>1 DEF TrailInv, PaidOnceBeforeHandling
    <2>3. NeverBehind'
      BY <1>1 DEF TrailInv, NeverBehind
    <2> QED BY <2>1, <2>2, <2>3 DEF TrailInv
  <1>2. ASSUME NEW u \in Users, EditCart(u)
        PROVE  TrailInv'
    BY <1>1, <1>2 DEF EditCart, AddCartItem, UpdateCartLine, RemoveCartLine
  <1>3. ASSUME NEW i \in Items, NEW available \in BOOLEAN, SetItemAvailability(i, available)
        PROVE  TrailInv'
    BY <1>1, <1>3 DEF SetItemAvailability
  <1>4. ASSUME NEW o \in OrderIds, SetPaystackReference(o)
        PROVE  TrailInv'
    BY <1>1, <1>4 DEF SetPaystackReference
  <1>5. CASE UNCHANGED storeVars
    BY <1>1, <1>5 DEF storeVars
  <1>6. ASSUME NEW o \in OrderIds, NEW to \in Statuses, NEW actor \in ActorsFor(to),
               TransitionOrder(o, to, actor)
        PROVE  TrailInv'
    <2>1. actor \in Actors
      BY <1>6 DEF ActorsFor, Actors
    <2> QED BY <1>6, <2>1, TransitionTrail
  <1> QED BY <1>2, <1>3, <1>4, <1>5, <1>6, CheckoutTrail DEF StoreNext

LEMMA TrailInvariant == StoreSpec => []TrailInv
  BY InitTrail, NextTrail, MoneyInvariant, PTL DEF StoreSpec

\* Whatever the handlers ask for and in whatever order, order_events is an
\* unbroken path of legal transitions that ends at orders.status.
THEOREM TrailIsLegal == StoreSpec => []HistoryIsLegalPath
  <1>1. TrailInv => HistoryIsLegalPath
    BY DEF TrailInv
  <1> QED BY <1>1, TrailInvariant, PTL

\* No order is prepared, sent out or completed unless it was paid before, and
\* none is marked paid twice.
THEOREM PaidOnce == StoreSpec => []PaidOnceBeforeHandling
  <1>1. TrailInv => PaidOnceBeforeHandling
    BY DEF TrailInv
  <1> QED BY <1>1, TrailInvariant, PTL
-----------------------------------------------------------------------------
(* What is final.                                                          *)

\* The body of SettledIsFinal.
Final(o) ==
    /\ Exists(o) => orders'[o] = orders[o]
    /\ IsTerminal(status[o]) => /\ status'[o] = status[o]
                                /\ history'[o] = history[o]
                                /\ ledger'[o] = ledger[o]

LEMMA StepIsFinal ==
    ASSUME MoneyInv, StoreNext, NEW p \in OrderIds
    PROVE  Final(p)
  <1>1. ASSUME UNCHANGED <<orders, status, history, ledger>>
        PROVE  Final(p)
    BY <1>1 DEF Final
  <1>2. ASSUME NEW o \in OrderIds, NEW u \in Users, NEW f \in Fulfilments,
               NEW request \in RedeemRequests, NEW key \in Keys \cup {NoKey},
               Checkout(o, u, f, request, key)
        PROVE  Final(p)
    <2>1. CASE p = o
      BY <1>2, <2>1 DEF Checkout, NextId, Final, Exists, IsTerminal
    <2>2. CASE p # o
      <3>1. orders'[p] = orders[p] /\ status'[p] = status[p] /\ history'[p] = history[p]
        BY <1>2, <2>2 DEF Checkout, MoneyInv, TypeOK
      <3>2. ledger'[p] = ledger[p]
        BY <1>2, <2>2 DEF Checkout, PostLedger, MoneyInv, TypeOK
      <3> QED BY <3>1, <3>2 DEF Final
    <2> QED BY <2>1, <2>2
  <1>3. ASSUME NEW o \in OrderIds, NEW to \in Statuses, NEW actor,
               TransitionOrder(o, to, actor)
        PROVE  Final(p)
    <2>1. orders' = orders
      BY <1>3 DEF TransitionOrder
    <2>2. CASE p = o
      <3>1. ~IsTerminal(status[o])
        BY <1>3 DEF TransitionOrder, TransitionReply, CanTransition
      <3> QED BY <2>1, <2>2, <3>1 DEF Final
    <2>3. CASE p # o
      <3>1. status'[p] = status[p] /\ history'[p] = history[p]
        BY <1>3, <2>3 DEF TransitionOrder, MoneyInv, TypeOK
      <3>2. ledger'[p] = ledger[p]
        BY <1>3, <2>3 DEF TransitionOrder, Settle, PostLedger, MoneyInv, TypeOK
      <3> QED BY <2>1, <3>1, <3>2 DEF Final
    <2> QED BY <2>2, <2>3
  <1>4. ASSUME NEW u \in Users, EditCart(u)
        PROVE  Final(p)
    BY <1>1, <1>4 DEF EditCart, AddCartItem, UpdateCartLine, RemoveCartLine
  <1>5. ASSUME NEW i \in Items, NEW available \in BOOLEAN, SetItemAvailability(i, available)
        PROVE  Final(p)
    BY <1>1, <1>5 DEF SetItemAvailability
  <1>6. ASSUME NEW o \in OrderIds, SetPaystackReference(o)
        PROVE  Final(p)
    BY <1>1, <1>6 DEF SetPaystackReference
  <1> QED BY <1>2, <1>3, <1>4, <1>5, <1>6 DEF StoreNext

\* Nothing ever rewrites the snapshot of an order, and nothing reopens,
\* extends or re-books an order that was completed or cancelled.
THEOREM SettledStaysFinal == StoreSpec => SettledIsFinal
  <1>1. MoneyInv /\ [StoreNext]_storeVars
            => [\A o \in OrderIds :
                   /\ Exists(o) => orders'[o] = orders[o]
                   /\ IsTerminal(status[o]) => /\ status'[o] = status[o]
                                               /\ history'[o] = history[o]
                                               /\ ledger'[o] = ledger[o]]_storeVars
    BY StepIsFinal DEF Final
  <1> QED BY <1>1, MoneyInvariant, PTL DEF StoreSpec, SettledIsFinal
-----------------------------------------------------------------------------
(* The tables implement OrderPromise: every transaction maps to a step of  *)
(* the promise or to a stutter.                                            *)

\* What the mapping says of an order id nothing was inserted under.
LEMMA PromiseTypes ==
    ASSUME MoneyInv
    PROVE  /\ \A o \in OrderIds : status[o] \in Statuses \cup {"absent"}
           /\ \A o \in OrderIds : orders[o].discount \in Nat
           /\ \A o \in OrderIds : Exists(o) => orders[o].user \in Users
           /\ points \in [Users -> Int]
           /\ \A u \in Users : points[u] >= 0
           /\ \A o \in OrderIds : ledger[o]["redeem_at_checkout"] = -orders[o].discount
  BY DEF MoneyInv, TypeOK, RowsWellFormed, BalancesAreSound, LedgerMatchesLifecycle, OrderRow

LEMMA InitPromise == StoreInit => Promise!Init
  <1> SUFFICES ASSUME StoreInit PROVE Promise!Init
    OBVIOUS
  <1>0. \A o \in OrderIds : status[o] = "absent" /\ status[o] \notin Statuses
    BY DEF StoreInit, Statuses
  <1>1. PromisedPhase = [o \in OrderIds |-> "none"]
    <2>1. \A o \in OrderIds : PromisedPhase[o] = "none"
      BY <1>0 DEF PromisedPhase, IsTerminal
    <2>2. PromisedPhase = [o \in OrderIds |-> PromisedPhase[o]]
      BY DEF PromisedPhase
    <2> QED BY <2>1, <2>2
  <1>2. PromisedOwner = [o \in OrderIds |-> NoUser]
    BY DEF StoreInit, PromisedOwner, BlankRow
  <1>3. Escrow = [o \in OrderIds |-> 0]
    BY <1>0 DEF Escrow
  <1> QED BY <1>1, <1>2, <1>3, OpeningAssumption DEF StoreInit, Promise!Init

\* A checkout places the order and puts the redeemed points aside.
LEMMA CheckoutPlaces ==
    ASSUME MoneyInv, NEW o \in OrderIds, NEW u \in Users, NEW f \in Fulfilments,
           NEW request \in RedeemRequests, NEW key \in Keys \cup {NoKey},
           Checkout(o, u, f, request, key)
    PROVE  Promise!Next
  <1> DEFINE r == Redemption(request, points[u], Subtotal(cart[u]))
  <1>1. points[u] \in Int /\ points[u] >= 0 /\ request \in Nat /\ Subtotal(cart[u]) \in Nat
    BY PromiseTypes, RequestAssumption, SubtotalAssumption DEF MoneyInv, TypeOK
  <1>2. r.spent \in 0..points[u] /\ r.spent = r.discount
    BY <1>1, RedemptionBounds
  <1> HIDE DEF r
  <1>3. /\ ~Exists(o)
        /\ status' = [status EXCEPT ![o] = "pending_payment"]
        /\ points' = [points EXCEPT ![u] = @ + (-r.spent)]
        /\ ledger' = [ledger EXCEPT ![o]["redeem_at_checkout"] = @ + (-r.spent)]
    BY DEF Checkout, NextId, PostLedger, r
  <1>4. orders'[o].user = u /\ \A p \in OrderIds : p # o => orders'[p] = orders[p]
    BY DEF Checkout, MoneyInv, TypeOK
  <1>5. ledger[o]["redeem_at_checkout"] = 0
    BY <1>3, PromiseTypes DEF MoneyInv, RowsWellFormed, BlankRow
  <1>6. /\ status[o] = "absent" /\ status'[o] = "pending_payment"
        /\ \A p \in OrderIds : p # o => status'[p] = status[p] /\ ledger'[p] = ledger[p]
        /\ ledger'[o]["redeem_at_checkout"] = -r.spent
    BY <1>2, <1>3, <1>5 DEF Exists, MoneyInv, TypeOK, Reasons
  <1>7. PromisedPhase' = [PromisedPhase EXCEPT ![o] = "open"] /\ PromisedPhase[o] = "none"
    BY <1>6 DEF PromisedPhase, IsTerminal
  <1>8. PromisedOwner' = [PromisedOwner EXCEPT ![o] = u]
    BY <1>4 DEF PromisedOwner
  <1>9. Escrow'[o] = r.spent
    BY <1>2, <1>6 DEF Escrow, IsTerminal, Statuses
  <1>10. Escrow' = [Escrow EXCEPT ![o] = r.spent]
    BY <1>6, <1>9 DEF Escrow
  <1>11. points' = [points EXCEPT ![u] = @ - r.spent]
    BY <1>1, <1>2, <1>3
  <1>12. Promise!Place(o, u, r.spent)
    BY <1>2, <1>7, <1>8, <1>10, <1>11 DEF Promise!Place
  <1> QED BY <1>9, <1>12 DEF Promise!Next

\* A transition pays, completes or cancels the order, or is a step within
\* "paid" that the promise does not see.
LEMMA TransitionKeeps ==
    ASSUME MoneyInv, NEW o \in OrderIds, NEW to \in Statuses, NEW actor,
           TransitionOrder(o, to, actor)
    PROVE  [Promise!Next]_Promise!promise
  <1> DEFINE user == orders[o].user
  <1>1. /\ Exists(o)
        /\ status[o] \in Statuses \ {"completed", "cancelled"}
        /\ to \in Statuses \ {"pending_payment"}
        /\ to \in {"preparing", "ready", "out_for_delivery", "completed"} => status[o] # "pending_payment"
        /\ to = "cancelled" => status[o] \in {"pending_payment", "paid"}
        /\ to = "paid" => status[o] = "pending_payment"
    BY TransitionsClimb DEF TransitionOrder, TransitionReply
  <1>2. user \in Users /\ orders[o].discount \in Nat /\ orders[o].subtotal \in Nat
    BY <1>1 DEF MoneyInv, TypeOK, RowsWellFormed, OrderRow
  <1>3. orders' = orders /\ status' = [status EXCEPT ![o] = to] /\ Settle(o, to)
    BY DEF TransitionOrder
  <1>4. status'[o] = to /\ \A p \in OrderIds : p # o => status'[p] = status[p]
    BY <1>3 DEF MoneyInv, TypeOK
  <1>5. \A p \in OrderIds : ledger'[p]["redeem_at_checkout"] = ledger[p]["redeem_at_checkout"]
    <2>1. ledger \in [OrderIds -> [Reasons -> Int]]
      BY DEF MoneyInv, TypeOK
    <2>2. \/ ledger' = ledger
          \/ \E d : ledger' = [ledger EXCEPT ![o]["earn_on_completion"] = @ + d]
          \/ \E d : ledger' = [ledger EXCEPT ![o]["refund_on_cancel"] = @ + d]
      BY <1>3 DEF Settle, PostLedger
    <2> QED BY <2>1, <2>2 DEF Reasons
  <1>6. PromisedOwner' = PromisedOwner /\ PromisedOwner[o] = user
    BY <1>3 DEF PromisedOwner
  <1>7. \A p \in OrderIds : p # o => PromisedPhase'[p] = PromisedPhase[p] /\ Escrow'[p] = Escrow[p]
    BY <1>4, <1>5 DEF PromisedPhase, Escrow
  <1>8. /\ PromisedPhase[o] = IF status[o] = "pending_payment" THEN "open" ELSE "paid"
        /\ PromisedPhase'[o] = IF IsTerminal(to) THEN to ELSE "paid"
        /\ Escrow[o] = orders[o].discount
        /\ Escrow'[o] = IF IsTerminal(to) THEN 0 ELSE Escrow[o]
    <2>1. -ledger[o]["redeem_at_checkout"] = orders[o].discount
      BY <1>2, PromiseTypes
    <2>2. PromisedPhase[o] = IF status[o] = "pending_payment" THEN "open" ELSE "paid"
      BY <1>1 DEF PromisedPhase, IsTerminal, Statuses
    <2>3. PromisedPhase'[o] = IF IsTerminal(to) THEN to ELSE "paid"
      BY <1>1, <1>4 DEF PromisedPhase, IsTerminal, Statuses
    <2>4. Escrow[o] = orders[o].discount
      BY <1>1, <2>1 DEF Escrow, IsTerminal, Statuses
    <2>5. Escrow'[o] = IF IsTerminal(to) THEN 0 ELSE orders[o].discount
      BY <1>1, <1>4, <1>5, <2>1 DEF Escrow, IsTerminal, Statuses
    <2> QED BY <2>2, <2>3, <2>4, <2>5
  <1>9. /\ PromisedPhase' = [PromisedPhase EXCEPT ![o] = PromisedPhase'[o]]
        /\ Escrow' = [Escrow EXCEPT ![o] = Escrow'[o]]
    <2>1. /\ PromisedPhase' = [p \in OrderIds |-> PromisedPhase'[p]]
          /\ PromisedPhase = [p \in OrderIds |-> PromisedPhase[p]]
      BY DEF PromisedPhase
    <2>2. /\ Escrow' = [p \in OrderIds |-> Escrow'[p]]
          /\ Escrow = [p \in OrderIds |-> Escrow[p]]
      BY DEF Escrow
    <2> QED BY <1>7, <2>1, <2>2
  <1>10. points \in [Users -> Int]
    BY PromiseTypes
  <1>11. CASE to = "paid"
    <2>1. points' = points
      BY <1>3, <1>11 DEF Settle
    <2>2. Escrow' = Escrow
      BY <1>8, <1>9, <1>11 DEF Escrow, IsTerminal
    <2> QED BY <1>1, <1>6, <1>8, <1>9, <1>11, <2>1, <2>2 DEF Promise!Next, Promise!Pay, IsTerminal
  <1>12. CASE to = "completed"
    <2> DEFINE earned == EarnedPoints(orders[o].subtotal, user \in Guests)
    <2>1. earned \in Nat
      BY <1>2 DEF EarnedPoints
    <2>2. points' = [points EXCEPT ![user] = @ + earned]
      BY <1>3, <1>12 DEF Settle, PostLedger
    <2> HIDE DEF earned
    <2>3. points'[user] - points[user] = earned
      BY <1>2, <1>10, <2>1, <2>2
    <2>4. PromisedPhase' = [PromisedPhase EXCEPT ![o] = "completed"] /\ PromisedPhase[o] = "paid"
      BY <1>1, <1>8, <1>9, <1>12 DEF IsTerminal
    <2>5. Escrow' = [Escrow EXCEPT ![o] = 0]
      BY <1>8, <1>9, <1>12 DEF IsTerminal
    <2>6. points'[PromisedOwner[o]] - points[PromisedOwner[o]] = earned
      BY <1>6, <2>3
    <2>7. Promise!Complete(o, earned)
      BY <1>6, <2>1, <2>2, <2>4, <2>5 DEF Promise!Complete
    <2> QED BY <2>6, <2>7 DEF Promise!Next
  <1>13. CASE to = "cancelled"
    <2>1. orders[o].discount \div PesewasPerPoint = orders[o].discount
      BY <1>2 DEF PesewasPerPoint
    <2>2. points' = [points EXCEPT ![user] = @ + Escrow[o]]
      BY <1>3, <1>8, <1>13, <2>1 DEF Settle, PostLedger
    <2>3. PromisedPhase' = [PromisedPhase EXCEPT ![o] = "cancelled"]
          /\ PromisedPhase[o] \in {"open", "paid"}
      BY <1>1, <1>8, <1>9, <1>13 DEF IsTerminal
    <2>4. Escrow' = [Escrow EXCEPT ![o] = 0]
      BY <1>8, <1>9, <1>13 DEF IsTerminal
    <2>5. Promise!Cancel(o)
      BY <1>6, <2>2, <2>3, <2>4 DEF Promise!Cancel
    <2> QED BY <2>5 DEF Promise!Next
  <1>14. CASE to \in {"preparing", "ready", "out_for_delivery"}
    <2>1. points' = points
      BY <1>3, <1>14 DEF Settle
    <2>2. PromisedPhase' = PromisedPhase
      BY <1>1, <1>8, <1>9, <1>14 DEF PromisedPhase, IsTerminal
    <2>3. Escrow' = Escrow
      BY <1>8, <1>9, <1>14 DEF Escrow, IsTerminal
    <2> QED BY <1>6, <2>1, <2>2, <2>3 DEF Promise!promise
  <1> QED BY <1>1, <1>11, <1>12, <1>13, <1>14 DEF Statuses

\* What the promise is about can only be changed by those two.
LEMMA FrameKeeps ==
    ASSUME UNCHANGED <<orders, status, ledger, points>>
    PROVE  UNCHANGED Promise!promise
  BY DEF Promise!promise, PromisedPhase, PromisedOwner, Escrow

LEMMA StepKeeps == MoneyInv /\ [StoreNext]_storeVars => [Promise!Next]_Promise!promise
  <1> SUFFICES ASSUME MoneyInv, [StoreNext]_storeVars
               PROVE  [Promise!Next]_Promise!promise
    OBVIOUS
  <1>1. ASSUME NEW u \in Users, EditCart(u)
        PROVE  UNCHANGED Promise!promise
    BY <1>1, FrameKeeps DEF EditCart, AddCartItem, UpdateCartLine, RemoveCartLine
  <1>2. ASSUME NEW i \in Items, NEW available \in BOOLEAN, SetItemAvailability(i, available)
        PROVE  UNCHANGED Promise!promise
    BY <1>2, FrameKeeps DEF SetItemAvailability
  <1>3. ASSUME NEW o \in OrderIds, SetPaystackReference(o)
        PROVE  UNCHANGED Promise!promise
    BY <1>3, FrameKeeps DEF SetPaystackReference
  <1>4. CASE UNCHANGED storeVars
    BY <1>4, FrameKeeps DEF storeVars
  <1> QED BY <1>1, <1>2, <1>3, <1>4, CheckoutPlaces, TransitionKeeps DEF StoreNext

\* The tables, with all their carts, handlers and fulfilments, do what the
\* escrow of OrderPromise does and nothing else.
THEOREM StoreKeepsPromise == StoreSpec => KeepsPromise
  BY InitPromise, StepKeeps, MoneyInvariant, PTL DEF StoreSpec, KeepsPromise, Promise!Spec
-----------------------------------------------------------------------------
(* Calls of TransitionOrder that overlap.                                  *)

\* The part of TxTypeOK that is about the calls.
CallsHold ==
    /\ move \in [Movers -> Moves \cup {NoMove}]
    /\ ReadingsHold
    /\ OneCallEach

\* A call under way has found an order that exists, and is about to move it.
LEMMA CallShape ==
    ASSUME CallsHold, NEW m \in Movers, move[m] # NoMove
    PROVE  /\ move[m] \in Moves
           /\ move[m].order \in OrderIds /\ move[m].from \in Statuses
           /\ move[m].to \in Statuses /\ move[m].actor \in ActorsFor(move[m].to)
           /\ Exists(move[m].order)
           /\ TransitionReply(move[m].order, move[m].to) = "applied"
  <1>1. move[m] \in Moves
    BY DEF CallsHold
  <1>2. /\ move[m].order \in OrderIds /\ move[m].from \in Statuses /\ move[m].to \in Statuses
        /\ status[move[m].order] = move[m].from
        /\ CanTransition(orders[move[m].order].fulfilment, move[m].from, move[m].to)
        /\ move[m].actor \in ActorsFor(move[m].to)
    BY <1>1 DEF Moves, CallsHold, ReadingsHold
  <1>3. Exists(move[m].order)
    BY <1>2 DEF Exists, Statuses
  <1>4. move[m].from # move[m].to
    BY <1>2, TransitionsClimb, RankType
  <1> QED BY <1>1, <1>2, <1>3, <1>4 DEF TransitionReply, IsNoOp

\* A commit is the transition of the status of that moment.
LEMMA CommitMoves ==
    ASSUME CallsHold, NEW m \in Movers, Commit(m)
    PROVE  TransitionOrder(move[m].order, move[m].to, move[m].actor)
  <1>1. move[m] # NoMove
    BY DEF Commit
  <1>2. status[move[m].order] = move[m].from
    BY <1>1 DEF CallsHold, ReadingsHold
  <1>3. TransitionReply(move[m].order, move[m].to) = "applied"
    BY <1>1, CallShape
  <1> QED BY <1>2, <1>3 DEF Commit, TransitionOrder

\* Every step is a transaction of the store, or nothing to its tables.
LEMMA TxStepsAreTransactions == CallsHold /\ [TxNext]_txVars => [StoreNext]_storeVars
  <1> SUFFICES ASSUME CallsHold, [TxNext]_txVars PROVE [StoreNext]_storeVars
    OBVIOUS
  <1>1. CASE OtherTransaction
    BY <1>1 DEF OtherTransaction, StoreNext
  <1>2. ASSUME NEW m \in Movers, Commit(m)
        PROVE  StoreNext
    <2>1. move[m] # NoMove
      BY <1>2 DEF Commit
    <2> QED BY <1>2, <2>1, CallShape, CommitMoves DEF StoreNext
  <1>3. ASSUME NEW m \in Movers, NEW o \in OrderIds, NEW to \in Statuses,
               NEW actor \in ActorsFor(to), LockOrder(m, o, to, actor)
        PROVE  UNCHANGED storeVars
    BY <1>3 DEF LockOrder, Decide
  <1>4. ASSUME NEW m \in Movers, RollBack(m)
        PROVE  UNCHANGED storeVars
    BY <1>4 DEF RollBack
  <1>5. CASE UNCHANGED txVars
    BY <1>5 DEF txVars
  <1> QED BY <1>1, <1>2, <1>3, <1>4, <1>5 DEF TxNext

\* A step that leaves the calls alone, and the status and row of every order
\* that exists, leaves their readings true.
LEMMA CallsKept ==
    ASSUME CallsHold, UNCHANGED move,
           \A o \in OrderIds : Exists(o) => status'[o] = status[o] /\ orders'[o] = orders[o]
    PROVE  CallsHold'
  <1>1. ASSUME NEW m \in Movers, move[m] # NoMove
        PROVE  /\ status'[move[m].order] = status[move[m].order]
               /\ orders'[move[m].order] = orders[move[m].order]
    BY <1>1, CallShape
  <1>2. ReadingsHold'
    BY <1>1 DEF CallsHold, ReadingsHold
  <1>3. OneCallEach'
    BY DEF CallsHold, OneCallEach
  <1> QED BY <1>2, <1>3 DEF CallsHold

\* The row locks: nobody else moves an order between a call's read and its
\* commit.
LEMMA CallsStep == MoneyInv /\ CallsHold /\ [TxNext]_txVars => CallsHold'
  <1> SUFFICES ASSUME MoneyInv, CallsHold, [TxNext]_txVars PROVE CallsHold'
    OBVIOUS
  <1> USE DEF CallsHold
  <1>1. CASE OtherTransaction
    <2>1. UNCHANGED move
      BY <1>1 DEF OtherTransaction
    <2>2. \/ UNCHANGED <<status, orders>>
          \/ \E o \in OrderIds, u \in Users, f \in Fulfilments,
                request \in RedeemRequests, key \in Keys \cup {NoKey} :
                    Checkout(o, u, f, request, key)
      BY <1>1 DEF OtherTransaction, EditCart, AddCartItem, UpdateCartLine, RemoveCartLine,
                  SetItemAvailability, SetPaystackReference
    <2>3. \A p \in OrderIds : Exists(p) => status'[p] = status[p] /\ orders'[p] = orders[p]
      BY <2>2 DEF Checkout, NextId, MoneyInv, TypeOK
    <2> QED BY <2>1, <2>3, CallsKept
  <1>2. ASSUME NEW m \in Movers, NEW o \in OrderIds, NEW to \in Statuses,
               NEW actor \in ActorsFor(to), LockOrder(m, o, to, actor)
        PROVE  CallsHold'
    <2> DEFINE new == [stage |-> "locked", order |-> o, from |-> status[o], to |-> to, actor |-> actor]
    <2>1. /\ move' = [move EXCEPT ![m] = new] /\ UNCHANGED <<status, orders>>
          /\ Unlocked(o)
          /\ status[o] # "absent" /\ CanTransition(orders[o].fulfilment, status[o], to)
      BY <1>2 DEF LockOrder, Decide, TransitionReply, Exists, storeVars
    <2>2. new \in Moves
      BY <2>1 DEF Moves, MoneyInv, TypeOK, ActorsFor, Actors
    <2>3. \A n \in Movers : move'[n] = IF n = m THEN new ELSE move[n]
      BY <2>1
    <2>4. move' \in [Movers -> Moves \cup {NoMove}]
      BY <2>1, <2>2
    <2>5. ReadingsHold'
      BY <2>1, <2>3 DEF ReadingsHold
    <2>6. OneCallEach'
      BY <2>1, <2>3 DEF OneCallEach, Unlocked
    <2> QED BY <2>4, <2>5, <2>6
  <1>3. ASSUME NEW m \in Movers, Commit(m)
        PROVE  CallsHold'
    <2>1. /\ move[m] # NoMove /\ move' = [move EXCEPT ![m] = NoMove] /\ UNCHANGED orders
          /\ status' = [status EXCEPT ![move[m].order] = move[m].to]
      BY <1>3 DEF Commit
    <2>2. \A n \in Movers : move'[n] = IF n = m THEN NoMove ELSE move[n]
      BY <2>1
    <2>3. \A n \in Movers : n # m /\ move[n] # NoMove => status'[move[n].order] = status[move[n].order]
      BY <2>1, CallShape DEF OneCallEach, MoneyInv, TypeOK
    <2>4. ReadingsHold'
      BY <2>1, <2>2, <2>3 DEF ReadingsHold
    <2>5. OneCallEach'
      BY <2>2 DEF OneCallEach
    <2> QED BY <2>1, <2>4, <2>5
  <1>4. ASSUME NEW m \in Movers, RollBack(m)
        PROVE  CallsHold'
    <2>1. move' = [move EXCEPT ![m] = NoMove] /\ UNCHANGED <<status, orders>>
      BY <1>4 DEF RollBack, storeVars
    <2>2. \A n \in Movers : move'[n] = IF n = m THEN NoMove ELSE move[n]
      BY <2>1
    <2>3. ReadingsHold' /\ OneCallEach'
      BY <2>1, <2>2 DEF ReadingsHold, OneCallEach
    <2> QED BY <2>1, <2>3
  <1>5. CASE UNCHANGED txVars
    BY <1>5, CallsKept DEF txVars, storeVars
  <1> QED BY <1>1, <1>2, <1>3, <1>4, <1>5 DEF TxNext

LEMMA CallsInit == TxInit => StoreInit /\ CallsHold
  BY DEF TxInit, CallsHold, ReadingsHold, OneCallEach

LEMMA TxInvariant == TxSpec => [](MoneyInv /\ TrailInv /\ CallsHold)
  <1>1. TxInit => MoneyInv /\ TrailInv /\ CallsHold
    BY CallsInit, InitMoney, InitTrail
  <1>2. MoneyInv /\ TrailInv /\ CallsHold /\ [TxNext]_txVars => (MoneyInv /\ TrailInv /\ CallsHold)'
    BY TxStepsAreTransactions, NextMoney, NextTrail, CallsStep
  <1> QED BY <1>1, <1>2, PTL DEF TxSpec

\* A row lock has one holder, and what the holder has read stays true until it
\* commits, for any number of calls at once (TransitionOrder's FOR UPDATE).
THEOREM TxTypesHold == TxSpec => []TxTypeOK
  <1>1. MoneyInv /\ CallsHold => TxTypeOK
    BY DEF MoneyInv, CallsHold, TxTypeOK
  <1> QED BY <1>1, TxInvariant, PTL

\* Calls of TransitionOrder in any number, each reading and writing in steps of
\* its own, move the tables as if each had been one step.
THEOREM CallsAreTransitions == TxSpec => TransitionsAreAtomic
  <1>1. TxInit => StoreInit
    BY CallsInit
  <1> QED BY <1>1, TxStepsAreTransactions, TxInvariant, PTL DEF TxSpec, TransitionsAreAtomic, StoreSpec

\* So however webhooks and staff overlap, the trail of an order stays one legal
\* path, with one paid event before anything is made.
THEOREM OverlapsStayLegal == TxSpec => [](HistoryIsLegalPath /\ PaidOnceBeforeHandling)
  <1>1. TrailInv => HistoryIsLegalPath /\ PaidOnceBeforeHandling
    BY DEF TrailInv
  <1> QED BY <1>1, TxInvariant, PTL

\* And the points stay in escrow as OrderPromise says.
THEOREM OverlapsKeepPromise == TxSpec => KeepsPromise
  <1>1. TxInit => Promise!Init
    BY CallsInit, InitPromise
  <1>2. MoneyInv /\ CallsHold /\ [TxNext]_txVars => [Promise!Next]_Promise!promise
    BY TxStepsAreTransactions, StepKeeps
  <1> QED BY <1>1, <1>2, TxInvariant, PTL DEF TxSpec, KeepsPromise, Promise!Spec
=============================================================================
