--------------------------- MODULE PaymentsProofs ---------------------------
(***************************************************************************)
(* The money path for any number of orders, webhook requests and restarts. *)
(* First: the handlers touch the tables only through the store's           *)
(* transactions, so that every theorem about OrderStore holds under them.  *)
(* Then: the invariant that ties an order's checkout request, its charge,  *)
(* its deliveries and its audit trail together.                            *)
(***************************************************************************)
EXTENDS Payments, OrderStoreProofs

\* A webhook request in work is about an order.
LEMMA DeliveryOrder ==
    ASSUME HandlersTypeOK, NEW d \in Deliveries, delivery[d].stage # "idle"
    PROVE  /\ delivery[d].order \in OrderIds
           /\ delivery[d].stage \in {"loaded", "verified"}
  BY DEF HandlersTypeOK, DeliveryStates, Idle

\* The disjuncts of WebhookStep and CheckoutStep, as the proofs below take them.
TableSteps ==
    \/ \E o \in OrderIds, u \in Users, f \in Fulfilments,
          request \in RedeemRequests, key \in Keys \cup {NoKey} :
              StartCheckout(o, u, f, request, key)
    \/ \E o \in OrderIds : CancelDangling(o) \/ SaveReference(o)
    \/ \E d \in Deliveries : MarkPaid(d)
    \/ \E o \in OrderIds, to \in Statuses : AdminTransition(o, to)

QuietSteps ==
    \/ \E o \in OrderIds :
          \/ Disconnect(o) \/ InitializePayment(o) \/ InitializeFails(o) \/ SaveReferenceFails(o)
          \/ ReverseCharge(o)
          \/ \E outcome \in {"exact", "mismatch"} : CustomerPays(o, outcome)
          \/ \E d \in Deliveries : ReceiveWebhook(d, o)
    \/ \E d \in Deliveries : VerifyCharge(d) \/ VerifyFails(d) \/ MarkPaidFails(d)
    \/ Restart

LEMMA NextSplit == Next => Shopping \/ TableSteps \/ QuietSteps
  BY DEF Next, CheckoutStep, WebhookStep, TableSteps, QuietSteps

LEMMA QuietLeavesTables == QuietSteps => UNCHANGED storeVars
  BY DEF QuietSteps, Disconnect, InitializePayment, InitializeFails, SaveReferenceFails,
         ReverseCharge, CustomerPays, ReceiveWebhook, VerifyCharge, VerifyFails,
         MarkPaidFails, Restart

-----------------------------------------------------------------------------
(* The handlers act through the store.                                     *)

LEMMA TableStepsAreTransactions ==
    ASSUME HandlersTypeOK, TableSteps
    PROVE  [StoreNext]_storeVars
  <1>1. ASSUME NEW o \in OrderIds, NEW u \in Users, NEW f \in Fulfilments,
               NEW request \in RedeemRequests, NEW key \in Keys \cup {NoKey},
               StartCheckout(o, u, f, request, key)
        PROVE  StoreNext
    BY <1>1 DEF StartCheckout, StoreNext
  <1>2. ASSUME NEW o \in OrderIds, SaveReference(o)
        PROVE  StoreNext
    BY <1>2 DEF SaveReference, StoreNext
  <1>3. ASSUME NEW o \in OrderIds, CancelDangling(o)
        PROVE  [StoreNext]_storeVars
    <2>1. "cancelled" \in Statuses /\ "system" \in ActorsFor("cancelled")
      BY DEF Statuses, ActorsFor, Actors
    <2> QED BY <1>3, <2>1 DEF CancelDangling, StoreNext
  <1>4. ASSUME NEW d \in Deliveries, MarkPaid(d)
        PROVE  [StoreNext]_storeVars
    <2>1. delivery[d].order \in OrderIds
      BY <1>4, DeliveryOrder DEF MarkPaid
    <2>2. "paid" \in Statuses /\ "system" \in ActorsFor("paid")
      BY DEF Statuses, ActorsFor
    <2> QED BY <1>4, <2>1, <2>2 DEF MarkPaid, StoreNext
  <1>5. ASSUME NEW o \in OrderIds, NEW to \in Statuses, AdminTransition(o, to)
        PROVE  [StoreNext]_storeVars
    <2>1. "staff" \in ActorsFor(to)
      BY <1>5 DEF AdminTransition, StaffMayAsk, ActorsFor, Actors
    <2> QED BY <1>5, <2>1 DEF AdminTransition, StaffActor, StoreNext
  <1> QED BY <1>1, <1>2, <1>3, <1>4, <1>5 DEF TableSteps

LEMMA HandlersStep == HandlersTypeOK /\ [Next]_vars => [StoreNext]_storeVars
  <1>1. Shopping => StoreNext
    BY DEF Shopping, StoreNext
  <1> QED BY <1>1, NextSplit, TableStepsAreTransactions, QuietLeavesTables DEF vars

LEMMA InitHandlers == Init => MoneyInv /\ TrailInv /\ HandlersTypeOK
  BY InitMoney, InitTrail, MaxRestartsAssumption
     DEF Init, HandlersTypeOK, CheckoutStages, Charges, DeliveryStates

\* A transition that was applied, or asked for nothing new, leaves the order
\* in the status asked for.
LEMMA ReplyStatus ==
    ASSUME MoneyInv, NEW o \in OrderIds, NEW to \in Statuses, NEW actor,
           \/ TransitionReply(o, to) = "applied" /\ TransitionOrder(o, to, actor)
           \/ TransitionReply(o, to) = "noop" /\ UNCHANGED storeVars
    PROVE  status'[o] = to
  <1>1. CASE TransitionOrder(o, to, actor)
    BY <1>1 DEF TransitionOrder, MoneyInv, TypeOK
  <1>2. CASE TransitionReply(o, to) = "noop" /\ UNCHANGED storeVars
    BY <1>2 DEF TransitionReply, IsNoOp, storeVars
  <1> QED BY <1>1, <1>2

\* Ending a webhook request keeps the types.
LEMMA FinishTypes ==
    ASSUME HandlersTypeOK, NEW d \in Deliveries, delivery[d].stage # "idle",
           NEW reply \in {"ok", "ignored", "rejected", "retry"}, Finish(d, reply)
    PROVE  /\ delivery' \in [Deliveries -> DeliveryStates]
           /\ answer' \in [OrderIds -> {"none", "ok", "ignored", "rejected"}]
  BY DeliveryOrder DEF Finish, HandlersTypeOK, DeliveryStates

LEMMA HandlersTypesStep == MoneyInv /\ HandlersTypeOK /\ [Next]_vars => HandlersTypeOK'
  <1> SUFFICES ASSUME MoneyInv, HandlersTypeOK, [Next]_vars
               PROVE  HandlersTypeOK'
    OBVIOUS
  <1>1. ASSUME UNCHANGED handlerVars PROVE HandlersTypeOK'
    BY <1>1 DEF HandlersTypeOK, handlerVars
  <1>2. ASSUME NEW o \in OrderIds, NEW stage \in CheckoutStages, Goto(o, stage)
        PROVE  HandlersTypeOK'
    BY <1>2 DEF Goto, HandlersTypeOK
  <1>3. ASSUME NEW d \in Deliveries, delivery[d].stage # "idle",
               NEW reply \in {"ok", "ignored", "rejected", "retry"}, Finish(d, reply),
               announced' \in [OrderIds -> Statuses \cup {"none"}],
               UNCHANGED <<checkout, online, charge, restarts>>
        PROVE  HandlersTypeOK'
    BY <1>3, FinishTypes DEF HandlersTypeOK
  <1>4. announced \in [OrderIds -> Statuses \cup {"none"}]
    BY DEF HandlersTypeOK
  <1>5. CASE Shopping \/ UNCHANGED vars
    BY <1>1, <1>5 DEF Shopping, vars
  <1>6. CASE TableSteps
    <2>1. ASSUME NEW o \in OrderIds, NEW u, NEW f, NEW request, NEW key,
                 StartCheckout(o, u, f, request, key)
          PROVE  HandlersTypeOK'
      BY <2>1 DEF StartCheckout, HandlersTypeOK, CheckoutStages
    <2>2. ASSUME NEW o \in OrderIds, CancelDangling(o) \/ SaveReference(o)
          PROVE  HandlersTypeOK'
      BY <1>2, <2>2 DEF CancelDangling, SaveReference, CheckoutStages
    <2>3. ASSUME NEW d \in Deliveries, MarkPaid(d)
          PROVE  HandlersTypeOK'
      <3> DEFINE o == delivery[d].order
                 reply == TransitionReply(o, "paid")
      <3>1. o \in OrderIds /\ delivery[d].stage # "idle"
        BY <2>3, DeliveryOrder DEF MarkPaid
      <3>2. reply \in {"applied", "noop"} => status'[o] = "paid"
        BY <2>3, <3>1, ReplyStatus DEF MarkPaid, Statuses
      <3>3. \/ announced' = announced
            \/ announced' = [announced EXCEPT ![o] = "paid"]
        BY <2>3, <3>2 DEF MarkPaid, Publish
      <3>4. announced' \in [OrderIds -> Statuses \cup {"none"}]
        BY <1>4, <3>3 DEF Statuses
      <3> QED BY <1>3, <2>3, <3>1, <3>4 DEF MarkPaid
    <2>4. ASSUME NEW o \in OrderIds, NEW to \in Statuses, AdminTransition(o, to)
          PROVE  HandlersTypeOK'
      <3>1. status'[o] = to
        BY <2>4, ReplyStatus DEF AdminTransition
      <3>2. announced' \in [OrderIds -> Statuses \cup {"none"}]
        BY <1>4, <2>4, <3>1 DEF AdminTransition, Publish
      <3> QED BY <2>4, <3>2 DEF AdminTransition, HandlersTypeOK
    <2> QED BY <1>6, <2>1, <2>2, <2>3, <2>4 DEF TableSteps
  <1>7. CASE QuietSteps
    <2>1. ASSUME NEW o \in OrderIds,
                 InitializePayment(o) \/ InitializeFails(o) \/ SaveReferenceFails(o)
          PROVE  HandlersTypeOK'
      BY <1>2, <2>1 DEF InitializePayment, InitializeFails, SaveReferenceFails, CheckoutStages
    <2>2. ASSUME NEW o \in OrderIds, NEW outcome \in {"exact", "mismatch"},
                 Disconnect(o) \/ ReverseCharge(o) \/ CustomerPays(o, outcome)
          PROVE  HandlersTypeOK'
      BY <2>2 DEF Disconnect, ReverseCharge, CustomerPays, HandlersTypeOK, Charges
    <2>3. ASSUME NEW d \in Deliveries, NEW o \in OrderIds, ReceiveWebhook(d, o)
          PROVE  HandlersTypeOK'
      BY <2>3 DEF ReceiveWebhook, HandlersTypeOK, DeliveryStates
    <2>4. ASSUME NEW d \in Deliveries, VerifyCharge(d)
          PROVE  HandlersTypeOK'
      <3>1. delivery[d] \in [stage : {"loaded", "verified"}, order : OrderIds]
        BY <2>4 DEF VerifyCharge, HandlersTypeOK, DeliveryStates, Idle
      <3>2. CASE delivery' = [delivery EXCEPT ![d].stage = "verified"] /\ UNCHANGED answer
        BY <2>4, <3>1, <3>2 DEF VerifyCharge, HandlersTypeOK, DeliveryStates
      <3>3. CASE Finish(d, VerifyReply(delivery[d].order))
        <4>1. VerifyReply(delivery[d].order) \in {"ignored", "rejected", "continue"}
          BY DEF VerifyReply
        <4> QED BY <1>3, <1>4, <2>4, <3>2, <3>3, <4>1 DEF VerifyCharge
      <3> QED BY <2>4, <3>2, <3>3 DEF VerifyCharge
    <2>5. ASSUME NEW d \in Deliveries, VerifyFails(d) \/ MarkPaidFails(d)
          PROVE  HandlersTypeOK'
      BY <1>3, <1>4, <2>5 DEF VerifyFails, MarkPaidFails
    <2>6. CASE Restart
      BY <2>6, MaxRestartsAssumption DEF Restart, HandlersTypeOK, CheckoutStages, DeliveryStates
    <2> QED BY <1>7, <2>1, <2>2, <2>3, <2>4, <2>5, <2>6 DEF QuietSteps
  <1> QED BY <1>5, <1>6, <1>7, NextSplit

TablesInv == MoneyInv /\ TrailInv /\ HandlersTypeOK

LEMMA TablesStep == TablesInv /\ [Next]_vars => TablesInv'
  BY HandlersStep, HandlersTypesStep, NextMoney, NextTrail DEF TablesInv

LEMMA TablesInvariant == Spec => []TablesInv
  <1>1. Init => TablesInv
    BY InitHandlers DEF TablesInv
  <1> QED BY <1>1, TablesStep, PTL DEF Spec

\* The stages of all requests, for any number of them.
THEOREM HandlersTypeCorrect == Spec => []HandlersTypeOK
  <1>1. TablesInv => HandlersTypeOK
    BY DEF TablesInv
  <1> QED BY <1>1, TablesInvariant, PTL

\* The handlers implement the store: between two of their steps the tables
\* change by one of the store's transactions or not at all.
THEOREM HandlersActThroughStore == Spec => ActsThroughStore
  <1>1. Init => StoreInit
    BY DEF Init
  <1>2. TablesInv /\ [Next]_vars => [StoreNext]_storeVars
    BY HandlersStep DEF TablesInv
  <1> QED BY <1>1, <1>2, TablesInvariant, PTL DEF Spec, ActsThroughStore, StoreSpec

\* And with it they keep the promise of OrderPromise to every customer.
THEOREM HandlersKeepPromise == Spec => KeepsPromise
  BY HandlersActThroughStore, StoreKeepsPromise, PTL DEF ActsThroughStore
-----------------------------------------------------------------------------
(* No payment is lost and none is invented, for any number of orders,      *)
(* overlapping deliveries and restarts.                                    *)

SystemCancelled(o) ==
    \E i \in 1..Len(history[o]) : history[o][i].to = "cancelled" /\ history[o][i].actor = "system"

\* What holds of one order between any two steps.  The first two lines carry
\* the argument: an order can be charged only once its request has answered
\* 201, and it answered 201 only after the reference was saved.
OrderInv(o) ==
    /\ charge[o] # "none" => checkout[o] = "paying"
    /\ checkout[o] = "paying" => referenced[o]
    /\ ~Exists(o) => checkout[o] = "none"
    /\ answer[o] # "none" => charge[o] # "none"
    /\ answer[o] = "ok" => announced[o] # "none"
    /\ WasPaid(o) => charge[o] \in {"exact", "reversed"}
    /\ charge[o] = "exact" /\ answer[o] # "none" => WasPaid(o) \/ status[o] = "cancelled"
    /\ SystemCancelled(o) => checkout[o] = "init_failed"

\* What a webhook request knows of its order stays true while it waits.
DeliveryInv(d) ==
    LET o == delivery[d].order IN
    /\ delivery[d].stage = "loaded" => charge[o] # "none"
    /\ delivery[d].stage = "verified" => charge[o] \in {"exact", "reversed"}

PathInv == /\ \A o \in OrderIds : OrderInv(o)
           /\ \A d \in Deliveries : DeliveryInv(d)

LEMMA InitPath == Init => PathInv
  <1> SUFFICES ASSUME Init PROVE PathInv
    OBVIOUS
  <1>1. \A o \in OrderIds : Len(history[o]) = 0
    BY DEF Init, StoreInit
  <1>2. \A o \in OrderIds : ~WasPaid(o) /\ ~SystemCancelled(o)
    BY <1>1 DEF WasPaid, SystemCancelled
  <1>3. \A o \in OrderIds : OrderInv(o)
    BY <1>2 DEF OrderInv, Init
  <1>4. \A d \in Deliveries : DeliveryInv(d)
    BY DEF DeliveryInv, Init, Idle
  <1> QED BY <1>3, <1>4 DEF PathInv

-----------------------------------------------------------------------------
(* Frames.                                                                 *)

SameRow(o) == status'[o] = status[o] /\ referenced'[o] = referenced[o] /\ history'[o] = history[o]
SameRequest(o) == checkout'[o] = checkout[o] /\ charge'[o] = charge[o]
                  /\ answer'[o] = answer[o] /\ announced'[o] = announced[o]

LEMMA SameRowSameTrail ==
    ASSUME NEW o \in OrderIds, SameRow(o)
    PROVE  /\ WasPaid(o)' <=> WasPaid(o)
           /\ SystemCancelled(o)' <=> SystemCancelled(o)
           /\ Exists(o)' <=> Exists(o)
  BY DEF SameRow, WasPaid, SystemCancelled, Exists

LEMMA OrderFrame ==
    ASSUME NEW o \in OrderIds, OrderInv(o), SameRow(o), SameRequest(o)
    PROVE  OrderInv(o)'
  BY SameRowSameTrail DEF OrderInv, SameRow, SameRequest

\* A charge is never forgotten, and a matching one only becomes reversed.
ChargeKept == \A o \in OrderIds : /\ charge[o] # "none" => charge'[o] # "none"
                                  /\ charge[o] \in {"exact", "reversed"}
                                         => charge'[o] \in {"exact", "reversed"}

LEMMA DeliveryFrame ==
    ASSUME HandlersTypeOK, ChargeKept, NEW d \in Deliveries, DeliveryInv(d),
           delivery'[d] = delivery[d]
    PROVE  DeliveryInv(d)'
  <1>1. CASE delivery[d].stage \in {"loaded", "verified"}
    <2>1. delivery[d].order \in OrderIds
      BY <1>1, DeliveryOrder
    <2> QED BY <2>1 DEF DeliveryInv, ChargeKept
  <1>2. CASE delivery[d].stage \notin {"loaded", "verified"}
    BY <1>2 DEF DeliveryInv
  <1> QED BY <1>1, <1>2

\* An idle request claims nothing.
LEMMA IdleDelivery ==
    ASSUME NEW d \in Deliveries, delivery'[d] = Idle
    PROVE  DeliveryInv(d)'
  BY DEF DeliveryInv, Idle

\* What a transition does to the order it is about and to every other one.
LEMMA TransitionEffect ==
    ASSUME MoneyInv, NEW o \in OrderIds, NEW to \in Statuses, NEW actor \in Actors,
           TransitionOrder(o, to, actor)
    PROVE  /\ \A p \in OrderIds : p # o => SameRow(p)
           /\ status'[o] = to /\ referenced'[o] = referenced[o]
           /\ Exists(o) /\ Exists(o)' /\ status[o] # "cancelled"
           /\ WasPaid(o)' <=> (WasPaid(o) \/ to = "paid")
           /\ SystemCancelled(o)' <=> (SystemCancelled(o) \/ (to = "cancelled" /\ actor = "system"))
  <1> DEFINE event == [from |-> status[o], to |-> to, actor |-> actor]
             path == history[o]
             n == Len(path)
             new == Append(path, event)
  <1>1. Exists(o) /\ status[o] \in Statuses \ {"completed", "cancelled"}
    BY TransitionsClimb DEF TransitionOrder, TransitionReply
  <1>2. path \in Seq(EventRow) /\ n \in Nat
    BY DEF MoneyInv, TypeOK
  <1>3. event \in EventRow
    BY <1>1 DEF EventRow
  <1>4. /\ \A p \in OrderIds : p # o => SameRow(p)
        /\ status'[o] = to /\ history'[o] = new /\ referenced'[o] = referenced[o]
    BY DEF TransitionOrder, MoneyInv, TypeOK, SameRow
  <1>5. event.to = to /\ event.actor = actor
    OBVIOUS
  <1> HIDE DEF event
  <1>6. /\ Len(new) = n + 1 /\ new[n + 1] = event
        /\ \A i \in 1..n : new[i] = path[i]
        /\ \A i \in 1..(n + 1) : i \in 1..n \/ i = n + 1
        /\ n + 1 \in 1..(n + 1) /\ 1..n \subseteq 1..(n + 1)
    BY <1>2, <1>3
  <1> HIDE DEF new
  <1>7. WasPaid(o)' <=> (WasPaid(o) \/ to = "paid")
    BY <1>4, <1>5, <1>6 DEF WasPaid
  <1>8. SystemCancelled(o)' <=> (SystemCancelled(o) \/ (to = "cancelled" /\ actor = "system"))
    BY <1>4, <1>5, <1>6 DEF SystemCancelled
  <1> QED BY <1>1, <1>4, <1>7, <1>8 DEF Exists, Statuses

-----------------------------------------------------------------------------
(* One lemma per step.                                                     *)

LEMMA CheckoutPath ==
    ASSUME TablesInv, PathInv, NEW o \in OrderIds, NEW u, NEW f, NEW request, NEW key,
           StartCheckout(o, u, f, request, key)
    PROVE  PathInv'
  <1>1. /\ ~Exists(o) /\ status'[o] = "pending_payment" /\ history'[o] = history[o]
        /\ referenced'[o] = referenced[o]
        /\ \A p \in OrderIds : p # o => SameRow(p)
    BY DEF StartCheckout, Checkout, NextId, SameRow, TablesInv, MoneyInv, TypeOK
  <1>2. /\ checkout'[o] = "initializing" /\ UNCHANGED <<charge, delivery, answer, announced>>
        /\ \A p \in OrderIds : p # o => SameRequest(p)
    BY DEF StartCheckout, SameRequest, TablesInv, HandlersTypeOK
  <1>3. OrderInv(o)'
    <2>1. WasPaid(o)' <=> WasPaid(o)
      BY <1>1 DEF WasPaid
    <2>2. SystemCancelled(o)' <=> SystemCancelled(o)
      BY <1>1 DEF SystemCancelled
    <2>3. OrderInv(o) /\ checkout[o] = "none" /\ charge[o] = "none" /\ answer[o] = "none"
      BY <1>1 DEF PathInv, OrderInv
    <2> QED BY <1>1, <1>2, <2>1, <2>2, <2>3 DEF OrderInv, Exists
  <1>4. \A p \in OrderIds : OrderInv(p)'
    BY <1>1, <1>2, <1>3, OrderFrame DEF PathInv
  <1>5. \A d \in Deliveries : DeliveryInv(d)'
    BY <1>2, DeliveryFrame DEF PathInv, ChargeKept, TablesInv
  <1> QED BY <1>4, <1>5 DEF PathInv

\* A step of the checkout request of o, of its client or of Paystack that
\* leaves the tables alone, apart from o's reference.
LEMMA RequestPath ==
    ASSUME TablesInv, PathInv, NEW o \in OrderIds,
           \/ Disconnect(o) \/ InitializePayment(o) \/ InitializeFails(o)
           \/ SaveReference(o) \/ SaveReferenceFails(o) \/ ReverseCharge(o)
           \/ \E outcome \in {"exact", "mismatch"} : CustomerPays(o, outcome)
    PROVE  PathInv'
  <1>1. /\ UNCHANGED <<status, history, delivery, answer, announced>>
        /\ referenced' = referenced \/ referenced' = [referenced EXCEPT ![o] = TRUE]
        /\ checkout' = checkout \/ checkout' = [checkout EXCEPT ![o] = checkout'[o]]
        /\ charge' = charge \/ charge' = [charge EXCEPT ![o] = charge'[o]]
    BY DEF Disconnect, InitializePayment, InitializeFails, SaveReference, SaveReferenceFails,
           ReverseCharge, CustomerPays, Goto, SetPaystackReference, storeVars,
           TablesInv, HandlersTypeOK
  <1>2. \A p \in OrderIds : p # o => SameRow(p) /\ SameRequest(p)
    BY <1>1 DEF SameRow, SameRequest, TablesInv, HandlersTypeOK, MoneyInv, TypeOK
  <1>3. OrderInv(o)'
    <2>1. /\ WasPaid(o)' <=> WasPaid(o)
          /\ SystemCancelled(o)' <=> SystemCancelled(o)
          /\ Exists(o)' <=> Exists(o)
      BY <1>1 DEF WasPaid, SystemCancelled, Exists
    <2>2. OrderInv(o)
      BY DEF PathInv
    <2>3. CASE Disconnect(o) \/ InitializePayment(o) \/ InitializeFails(o) \/ SaveReferenceFails(o)
      <3>1. UNCHANGED <<charge, referenced>>
        BY <2>3 DEF Disconnect, InitializePayment, InitializeFails, SaveReferenceFails, Goto, storeVars
      <3>2. \/ checkout' = checkout
            \/ checkout[o] \in Working /\ checkout'[o] \in {"saving", "cancelling", "save_failed"}
        BY <2>3 DEF Disconnect, InitializePayment, InitializeFails, SaveReferenceFails, Goto,
                    Working, TablesInv, HandlersTypeOK
      <3> QED BY <1>1, <2>1, <2>2, <3>1, <3>2 DEF OrderInv, Working
    <2>4. CASE SaveReference(o)
      <3>1. /\ charge' = charge /\ checkout[o] = "saving"
            /\ checkout'[o] = "paying" /\ referenced'[o] = TRUE
        BY <2>4 DEF SaveReference, SetPaystackReference, Goto, TablesInv, HandlersTypeOK,
                    MoneyInv, TypeOK
      <3> QED BY <1>1, <2>1, <2>2, <3>1 DEF OrderInv
    <2>5. CASE ReverseCharge(o)
      <3>1. /\ UNCHANGED <<checkout, referenced>>
            /\ charge[o] = "exact" /\ charge'[o] = "reversed"
        BY <2>5 DEF ReverseCharge, storeVars, TablesInv, HandlersTypeOK
      <3> QED BY <1>1, <2>1, <2>2, <3>1 DEF OrderInv
    <2>6. ASSUME NEW outcome \in {"exact", "mismatch"}, CustomerPays(o, outcome)
          PROVE  OrderInv(o)'
      <3>1. /\ UNCHANGED <<checkout, referenced>>
            /\ checkout[o] = "paying" /\ charge[o] = "none" /\ charge'[o] \in {"exact", "mismatch"}
        BY <2>6 DEF CustomerPays, storeVars, TablesInv, HandlersTypeOK
      <3> QED BY <1>1, <2>1, <2>2, <3>1 DEF OrderInv
    <2> QED BY <2>3, <2>4, <2>5, <2>6
  <1>4. \A p \in OrderIds : OrderInv(p)'
    BY <1>2, <1>3, OrderFrame DEF PathInv
  <1>5. ChargeKept
    <2>1. /\ charge[o] # "none" => charge'[o] # "none"
          /\ charge[o] \in {"exact", "reversed"} => charge'[o] \in {"exact", "reversed"}
      BY DEF Disconnect, InitializePayment, InitializeFails, SaveReference, SaveReferenceFails,
             ReverseCharge, CustomerPays, Goto, TablesInv, HandlersTypeOK
    <2> QED BY <1>2, <2>1 DEF ChargeKept, SameRequest
  <1>6. \A d \in Deliveries : DeliveryInv(d)'
    BY <1>1, <1>5, DeliveryFrame DEF PathInv, TablesInv
  <1> QED BY <1>4, <1>6 DEF PathInv

LEMMA CancelPath ==
    ASSUME TablesInv, PathInv, NEW o \in OrderIds, CancelDangling(o)
    PROVE  PathInv'
  <1>1. /\ checkout[o] = "cancelling" /\ checkout'[o] = "init_failed"
        /\ \A p \in OrderIds : p # o => SameRequest(p)
        /\ UNCHANGED <<charge, delivery, answer, announced>>
    BY DEF CancelDangling, Goto, SameRequest, TablesInv, HandlersTypeOK
  <1>2. OrderInv(o) /\ charge[o] = "none" /\ answer[o] = "none"
    BY <1>1 DEF PathInv, OrderInv
  <1>3. /\ \A p \in OrderIds : p # o => SameRow(p)
        /\ WasPaid(o)' <=> WasPaid(o)
        /\ ~Exists(o)' => ~Exists(o)
    <2>1. CASE TransitionOrder(o, "cancelled", "system")
      <3>1. "cancelled" \in Statuses /\ "system" \in Actors
        BY DEF Statuses, Actors
      <3> QED BY <2>1, <3>1, TransitionEffect DEF TablesInv
    <2>2. CASE UNCHANGED storeVars
      BY <2>2 DEF storeVars, SameRow, WasPaid, Exists
    <2> QED BY <2>1, <2>2 DEF CancelDangling
  <1>4. OrderInv(o)'
    BY <1>1, <1>2, <1>3 DEF OrderInv
  <1>5. \A p \in OrderIds : OrderInv(p)'
    BY <1>1, <1>3, <1>4, OrderFrame DEF PathInv
  <1>6. \A d \in Deliveries : DeliveryInv(d)'
    BY <1>1, DeliveryFrame DEF PathInv, ChargeKept, TablesInv
  <1> QED BY <1>5, <1>6 DEF PathInv

LEMMA AdminPath ==
    ASSUME TablesInv, PathInv, NEW o \in OrderIds, NEW to \in Statuses, AdminTransition(o, to)
    PROVE  PathInv'
  <1>1. /\ UNCHANGED <<checkout, charge, delivery, answer>> /\ to # "paid"
        /\ announced' = announced \/ announced' = [announced EXCEPT ![o] = status'[o]]
    BY DEF AdminTransition, Publish, StaffMayAsk
  <1>2. status'[o] = to
    BY ReplyStatus DEF AdminTransition, TablesInv
  <1>3. /\ announced[o] # "none" => announced'[o] # "none"
        /\ \A p \in OrderIds : p # o => SameRequest(p)
    BY <1>1, <1>2 DEF SameRequest, TablesInv, HandlersTypeOK, Statuses
  <1>4. /\ \A p \in OrderIds : p # o => SameRow(p)
        /\ referenced'[o] = referenced[o]
        /\ WasPaid(o)' <=> WasPaid(o)
        /\ SystemCancelled(o)' <=> SystemCancelled(o)
        /\ Exists(o)' <=> Exists(o)
        /\ status[o] = "cancelled" => status'[o] = "cancelled"
    <2>1. CASE TransitionOrder(o, to, "staff")
      <3>1. "staff" \in Actors /\ "staff" # "system"
        BY DEF Actors
      <3> QED BY <1>1, <2>1, <3>1, TransitionEffect DEF TablesInv
    <2>2. CASE UNCHANGED storeVars
      BY <2>2 DEF storeVars, SameRow, WasPaid, SystemCancelled, Exists
    <2> QED BY <2>1, <2>2 DEF AdminTransition, StaffActor
  <1>5. OrderInv(o)'
    BY <1>1, <1>3, <1>4 DEF PathInv, OrderInv
  <1>6. \A p \in OrderIds : OrderInv(p)'
    BY <1>3, <1>4, <1>5, OrderFrame DEF PathInv
  <1>7. \A d \in Deliveries : DeliveryInv(d)'
    BY <1>1, DeliveryFrame DEF PathInv, ChargeKept, TablesInv
  <1> QED BY <1>6, <1>7 DEF PathInv

\* An order that refuses to be marked paid was paid or cancelled before.
LEMMA RefusedWasSettled ==
    ASSUME TablesInv, NEW o \in OrderIds, TransitionReply(o, "paid") \in {"noop", "invalid_transition"}
    PROVE  WasPaid(o) \/ status[o] = "cancelled"
  <1>1. Exists(o) /\ status[o] \in Statuses /\ orders[o].fulfilment \in Fulfilments
    BY DEF TransitionReply, TablesInv, MoneyInv, TypeOK, Exists, OrderRow
  <1>2. status[o] # "pending_payment"
    BY <1>1 DEF TransitionReply, IsNoOp, CanTransition, IsTerminal, AllowedTargets,
                CommonTransitions, Statuses
  <1>3. status[o] \in {"paid", "preparing", "ready", "out_for_delivery", "completed"} => WasPaid(o)
    BY DEF TablesInv, TrailInv, PaidOnceBeforeHandling, WasPaid
  <1> QED BY <1>1, <1>2, <1>3 DEF Statuses

\* Ending a webhook request for o.
LEMMA FinishEffect ==
    ASSUME HandlersTypeOK, NEW d \in Deliveries, delivery[d].stage # "idle", NEW reply, Finish(d, reply)
    PROVE  LET o == delivery[d].order IN
           /\ delivery'[d] = Idle
           /\ \A e \in Deliveries : e # d => delivery'[e] = delivery[e]
           /\ answer'[o] = IF reply = "retry" THEN answer[o] ELSE reply
           /\ \A p \in OrderIds : p # o => answer'[p] = answer[p]
  BY DeliveryOrder DEF Finish, HandlersTypeOK

LEMMA MarkPaidPath ==
    ASSUME TablesInv, PathInv, NEW d \in Deliveries, MarkPaid(d)
    PROVE  PathInv'
  <1>0. delivery[d].order \in OrderIds /\ delivery[d].stage = "verified"
    BY DeliveryOrder DEF MarkPaid, TablesInv
  <1>1. PICK o \in OrderIds : o = delivery[d].order
    BY <1>0
  <1> DEFINE reply == TransitionReply(o, "paid")
  <1>2. OrderInv(o) /\ charge[o] \in {"exact", "reversed"} /\ DeliveryInv(d)
    BY <1>0, <1>1 DEF PathInv, DeliveryInv
  <1>3. /\ UNCHANGED <<checkout, charge>>
        /\ \/ reply \in {"applied", "noop"} /\ Publish(o) /\ Finish(d, "ok")
           \/ reply \in {"applied", "noop"} /\ Finish(d, "retry") /\ UNCHANGED announced
           \/ reply = "invalid_transition" /\ Finish(d, "rejected") /\ UNCHANGED announced
        /\ \/ reply = "applied" /\ TransitionOrder(o, "paid", "system")
           \/ reply # "applied" /\ UNCHANGED storeVars
    BY <1>1 DEF MarkPaid
  <1>4. "paid" \in Statuses /\ "system" \in Actors
    BY DEF Statuses, Actors
  <1>5. reply \in {"applied", "noop"} => status'[o] = "paid"
    BY <1>1, <1>3, <1>4, ReplyStatus DEF TablesInv
  <1>6. /\ \A p \in OrderIds : p # o => SameRow(p)
        /\ referenced'[o] = referenced[o]
        /\ SystemCancelled(o)' <=> SystemCancelled(o)
        /\ Exists(o)' <=> Exists(o)
        /\ WasPaid(o)' \/ status'[o] = "cancelled"
    <2>1. CASE reply = "applied" /\ TransitionOrder(o, "paid", "system")
      BY <1>1, <1>4, <2>1, TransitionEffect DEF TablesInv
    <2>2. CASE reply # "applied" /\ UNCHANGED storeVars
      <3>1. WasPaid(o) \/ status[o] = "cancelled"
        BY <1>1, <1>3, <2>2, RefusedWasSettled
      <3> QED BY <2>2, <3>1 DEF storeVars, SameRow, WasPaid, SystemCancelled, Exists
    <2> QED BY <1>3, <2>1, <2>2
  <1>7. /\ delivery'[d] = Idle
        /\ \A e \in Deliveries : e # d => delivery'[e] = delivery[e]
        /\ \A p \in OrderIds : p # o => answer'[p] = answer[p]
        /\ answer'[o] \in {answer[o], "ok", "rejected"}
    BY <1>0, <1>1, <1>3, FinishEffect DEF TablesInv
  <1>8. /\ \A p \in OrderIds : p # o => announced'[p] = announced[p]
        /\ announced'[o] \in {announced[o], "paid"}
        /\ answer'[o] = "ok" => answer[o] = "ok" \/ announced'[o] = "paid"
    <2>1. announced \in [OrderIds -> Statuses \cup {"none"}]
      BY DEF TablesInv, HandlersTypeOK
    <2>2. CASE reply \in {"applied", "noop"} /\ Publish(o) /\ Finish(d, "ok")
      BY <1>1, <1>5, <2>1, <2>2 DEF Publish
    <2>3. CASE Finish(d, "retry") /\ UNCHANGED announced
      BY <1>0, <1>1, <2>1, <2>3, FinishEffect DEF TablesInv
    <2>4. CASE Finish(d, "rejected") /\ UNCHANGED announced
      BY <1>0, <1>1, <2>1, <2>4, FinishEffect DEF TablesInv
    <2> QED BY <1>3, <2>2, <2>3, <2>4
  <1>9. checkout'[o] = checkout[o] /\ charge'[o] = charge[o]
    BY <1>3
  <1>10. OrderInv(o)'
    BY <1>2, <1>6, <1>7, <1>8, <1>9 DEF OrderInv
  <1>11. \A p \in OrderIds : p # o => SameRequest(p)
    BY <1>3, <1>7, <1>8 DEF SameRequest
  <1>12. \A p \in OrderIds : OrderInv(p)'
    BY <1>6, <1>10, <1>11, OrderFrame DEF PathInv
  <1>13. \A e \in Deliveries : DeliveryInv(e)'
    BY <1>3, <1>7, DeliveryFrame, IdleDelivery DEF PathInv, ChargeKept, TablesInv
  <1> QED BY <1>12, <1>13 DEF PathInv

\* The steps of a webhook request that only read, and a restart.
LEMMA ReadingPath ==
    ASSUME TablesInv, PathInv,
           \/ \E d \in Deliveries : \/ \E o \in OrderIds : ReceiveWebhook(d, o)
                                    \/ VerifyCharge(d) \/ VerifyFails(d) \/ MarkPaidFails(d)
           \/ Restart
    PROVE  PathInv'
  <1>1. UNCHANGED storeVars /\ charge' = charge /\ announced' = announced
    BY DEF ReceiveWebhook, VerifyCharge, VerifyFails, MarkPaidFails, Restart
  <1>2. \A o \in OrderIds : SameRow(o) /\ OrderInv(o)
    BY <1>1 DEF storeVars, SameRow, PathInv
  <1>3. ChargeKept /\ HandlersTypeOK
    BY <1>1 DEF ChargeKept, TablesInv
  <1>4. ASSUME NEW d \in Deliveries, NEW o \in OrderIds, ReceiveWebhook(d, o)
        PROVE  PathInv'
    <2>1. charge[o] # "none" /\ referenced[o]
      BY <1>2, <1>4 DEF ReceiveWebhook, OrderInv
    <2>2. /\ UNCHANGED <<checkout, answer>>
          /\ delivery' = [delivery EXCEPT ![d] = [stage |-> "loaded", order |-> o]]
      BY <1>4, <2>1 DEF ReceiveWebhook
    <2>3. \A p \in OrderIds : OrderInv(p)'
      BY <1>1, <1>2, <2>2, OrderFrame DEF SameRequest
    <2>4. DeliveryInv(d)'
      BY <1>1, <2>1, <2>2 DEF DeliveryInv, TablesInv, HandlersTypeOK
    <2>5. \A e \in Deliveries : e # d => delivery'[e] = delivery[e]
      BY <2>2, <1>3 DEF HandlersTypeOK
    <2> QED BY <1>3, <2>3, <2>4, <2>5, DeliveryFrame DEF PathInv
  <1>5. ASSUME NEW d \in Deliveries, NEW reply \in {"ignored", "rejected", "retry"},
               delivery[d].stage # "idle", checkout' = checkout, Finish(d, reply),
               reply # "retry" => charge[delivery[d].order] # "exact",
               charge[delivery[d].order] # "none"
        PROVE  PathInv'
    <2>0. delivery[d].order \in OrderIds
      BY <1>3, <1>5, DeliveryOrder
    <2>1. PICK o \in OrderIds : o = delivery[d].order
      BY <2>0
    <2>2. /\ delivery'[d] = Idle
          /\ \A e \in Deliveries : e # d => delivery'[e] = delivery[e]
          /\ answer'[o] = IF reply = "retry" THEN answer[o] ELSE reply
          /\ \A p \in OrderIds : p # o => answer'[p] = answer[p]
      BY <1>3, <1>5, <2>1, FinishEffect
    <2>3. OrderInv(o)'
      <3>1. /\ WasPaid(o)' <=> WasPaid(o)
            /\ SystemCancelled(o)' <=> SystemCancelled(o)
            /\ Exists(o)' <=> Exists(o)
        BY <1>2, SameRowSameTrail
      <3> QED BY <1>1, <1>2, <1>5, <2>1, <2>2, <3>1 DEF OrderInv, SameRow
    <2>4. \A p \in OrderIds : p # o => OrderInv(p)'
      BY <1>1, <1>2, <1>5, <2>2, OrderFrame DEF SameRequest
    <2>5. \A e \in Deliveries : DeliveryInv(e)'
      BY <1>3, <2>2, DeliveryFrame, IdleDelivery DEF PathInv
    <2> QED BY <2>3, <2>4, <2>5 DEF PathInv
  <1>6. ASSUME NEW d \in Deliveries, VerifyCharge(d)
        PROVE  PathInv'
    <2> DEFINE o == delivery[d].order
    <2>1. /\ delivery[d].stage = "loaded" /\ charge[o] # "none" /\ o \in OrderIds
          /\ checkout' = checkout /\ charge[o] \in Charges
      BY <1>3, <1>6, DeliveryOrder DEF VerifyCharge, PathInv, DeliveryInv, HandlersTypeOK
    <2>2. CASE /\ VerifyReply(o) = "continue" /\ answer' = answer
               /\ delivery' = [delivery EXCEPT ![d].stage = "verified"]
      <3>1. charge[o] = "exact"
        BY <2>1, <2>2 DEF VerifyReply, Charges
      <3>2. delivery[d] \in [stage : {"loaded", "verified"}, order : OrderIds]
        BY <1>3, <2>1 DEF HandlersTypeOK, DeliveryStates, Idle
      <3>3. delivery'[d].order = o
        BY <1>3, <2>2, <3>2 DEF HandlersTypeOK
      <3>4. DeliveryInv(d)'
        BY <1>1, <3>1, <3>3 DEF DeliveryInv
      <3>5. \A e \in Deliveries : e # d => delivery'[e] = delivery[e]
        BY <1>3, <2>2 DEF HandlersTypeOK
      <3>6. \A p \in OrderIds : OrderInv(p)'
        BY <1>1, <1>2, <2>1, <2>2, OrderFrame DEF SameRequest
      <3> QED BY <1>3, <3>4, <3>5, <3>6, DeliveryFrame DEF PathInv
    <2>3. CASE VerifyReply(o) # "continue" /\ Finish(d, VerifyReply(o))
      <3>1. charge[o] # "exact" /\ VerifyReply(o) \in {"ignored", "rejected"}
        BY <2>1, <2>3 DEF VerifyReply
      <3> QED BY <1>5, <2>1, <2>3, <3>1
    <2> QED BY <1>6, <2>2, <2>3 DEF VerifyCharge
  <1>7. ASSUME NEW d \in Deliveries, VerifyFails(d) \/ MarkPaidFails(d)
        PROVE  PathInv'
    <2>1. /\ delivery[d].stage \in {"loaded", "verified"} /\ Finish(d, "retry")
          /\ checkout' = checkout
      BY <1>7 DEF VerifyFails, MarkPaidFails
    <2>2. charge[delivery[d].order] # "none"
      BY <2>1 DEF PathInv, DeliveryInv
    <2> QED BY <1>5, <2>1, <2>2
  <1>8. CASE Restart
    <2>1. \A d \in Deliveries : DeliveryInv(d)'
      BY <1>8, IdleDelivery DEF Restart
    <2>2. ASSUME NEW o \in OrderIds PROVE OrderInv(o)'
      <3>1. /\ \/ checkout'[o] = checkout[o]
               \/ checkout[o] \in Working /\ checkout'[o] = "lost"
            /\ answer' = answer
        BY <1>8 DEF Restart
      <3>2. /\ WasPaid(o)' <=> WasPaid(o)
            /\ SystemCancelled(o)' <=> SystemCancelled(o)
            /\ Exists(o)' <=> Exists(o)
        BY <1>2, SameRowSameTrail
      <3> QED BY <1>1, <1>2, <3>1, <3>2 DEF OrderInv, SameRow, Working
    <2> QED BY <2>1, <2>2 DEF PathInv
  <1> QED BY <1>4, <1>6, <1>7, <1>8

LEMMA IdlePath ==
    ASSUME TablesInv, PathInv, Shopping \/ UNCHANGED vars
    PROVE  PathInv'
  <1>1. UNCHANGED <<status, referenced, history, handlerVars>>
    BY DEF Shopping, EditCart, AddCartItem, UpdateCartLine, RemoveCartLine, SetItemAvailability, vars, storeVars
  <1>2. \A o \in OrderIds : SameRow(o) /\ SameRequest(o)
    BY <1>1 DEF SameRow, SameRequest, handlerVars
  <1>3. \A o \in OrderIds : OrderInv(o)'
    BY <1>2, OrderFrame DEF PathInv
  <1>4. \A d \in Deliveries : DeliveryInv(d)'
    BY <1>1, DeliveryFrame DEF PathInv, handlerVars, ChargeKept, TablesInv
  <1> QED BY <1>3, <1>4 DEF PathInv

LEMMA PathStep == TablesInv /\ PathInv /\ [Next]_vars => PathInv'
  <1> SUFFICES ASSUME TablesInv, PathInv, [Next]_vars PROVE PathInv'
    OBVIOUS
  <1>1. CASE TableSteps
    BY <1>1, CheckoutPath, CancelPath, RequestPath, MarkPaidPath, AdminPath DEF TableSteps
  <1>2. CASE QuietSteps
    BY <1>2, RequestPath, ReadingPath DEF QuietSteps
  <1> QED BY <1>1, <1>2, IdlePath, NextSplit

LEMMA PathInvariant == Spec => []PathInv
  BY InitPath, PathStep, TablesInvariant, PTL DEF Spec

-----------------------------------------------------------------------------
\* No interleaving of deliveries, staff and restarts marks an order paid that
\* Paystack did not verify to have been charged its exact total.
THEOREM PaidWasCharged == Spec => []PaidMeansCharged
  <1>1. PathInv => PaidMeansCharged
    BY DEF PathInv, OrderInv, PaidMeansCharged
  <1> QED BY <1>1, PathInvariant, PTL

\* Every charge there is belongs to a reference the webhook finds.
THEOREM ChargesAreFindable == Spec => []ChargeIsFindable
  <1>1. PathInv => ChargeIsFindable
    BY DEF PathInv, OrderInv, ChargeIsFindable
  <1> QED BY <1>1, PathInvariant, PTL

\* No 200 makes Paystack forget a matching charge that is neither recorded
\* nor of a cancelled order.
THEOREM AcknowledgedWasSettled == Spec => []AcknowledgedIsSettled
  <1>1. PathInv => AcknowledgedIsSettled
    BY DEF PathInv, OrderInv, AcknowledgedIsSettled
  <1> QED BY <1>1, PathInvariant, PTL

\* No "ok" without a published status, retries after a failed read-back
\* included.
THEOREM OkWasAnnounced == Spec => []OkIsAnnounced
  <1>1. PathInv => OkIsAnnounced
    BY DEF PathInv, OrderInv, OkIsAnnounced
  <1> QED BY <1>1, PathInvariant, PTL

\* The system never cancels an order a customer can be paying for.
THEOREM SystemCancelWasUnpayable == Spec => []SystemCancelsUnpayable
  <1>1. PathInv => SystemCancelsUnpayable
    BY DEF PathInv, OrderInv, SystemCancelsUnpayable, SystemCancelled
  <1> QED BY <1>1, PathInvariant, PTL
=============================================================================
