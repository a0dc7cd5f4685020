------------------------------ MODULE Payments ------------------------------
(***************************************************************************)
(* The money path: the checkout handler, the Paystack webhook handler and  *)
(* the staff transition handler of internal/httpapi, over the transactions *)
(* of OrderStore, with Paystack and the customer's browser as the          *)
(* environment.  Between two calls of a handler anything else may happen:  *)
(* the client may hang up (which cancels the request context every later   *)
(* call of that handler uses), the server may restart, Paystack may fail,  *)
(* deliver an event twice or late.                                         *)
(***************************************************************************)
EXTENDS OrderStore

CONSTANTS
    Deliveries,     \* webhook requests the server can be working on at once
    StoreMayFail,   \* whether a database call may fail by itself
    MaxRestarts     \* bound on server restarts

ASSUME StoreMayFailAssumption == StoreMayFail \in BOOLEAN
ASSUME MaxRestartsAssumption == MaxRestarts \in Nat

VARIABLES
    checkout,     \* checkout[o]: where the request that created o stands
    online,       \* online[o]: the context of that request is not cancelled
    charge,       \* charge[o]: what Paystack's verify call says of o's reference
    delivery,     \* delivery[d]: the webhook request d, its stage and its order
    answer,       \* answer[o]: the last 200 given to a webhook for o
    announced,    \* announced[o]: the status last published for o
    restarts

handlerVars == <<checkout, online, charge, delivery, answer, announced, restarts>>
vars == <<storeVars, handlerVars>>

CheckoutStages == {"none", "initializing", "cancelling", "saving",
                   "paying", "init_failed", "save_failed", "lost"}
Working == {"initializing", "cancelling", "saving"}
Charges == {"none", "exact", "mismatch", "reversed"}
Idle == [stage |-> "idle", order |-> 0]
DeliveryStates == {Idle} \cup [stage : {"loaded", "verified"}, order : OrderIds]
-----------------------------------------------------------------------------
(* handleCheckout.                                                         *)

\* store.Checkout committed; the handler goes on to Paystack.
StartCheckout(o, u, f, request, key) ==
    /\ Checkout(o, u, f, request, key)
    /\ checkout' = [checkout EXCEPT ![o] = "initializing"]
    /\ online' = [online EXCEPT ![o] = TRUE]
    /\ UNCHANGED <<charge, delivery, answer, announced, restarts>>

\* The browser closes the connection before the answer.
Disconnect(o) ==
    /\ checkout[o] \in Working
    /\ online[o]
    /\ online' = [online EXCEPT ![o] = FALSE]
    /\ UNCHANGED <<storeVars, checkout, charge, delivery, answer, announced, restarts>>

Goto(o, stage) ==
    /\ checkout' = [checkout EXCEPT ![o] = stage]
    /\ UNCHANGED <<online, charge, delivery, answer, announced, restarts>>

\* GetUserByID and paystack.Initialize both went through.
InitializePayment(o) ==
    /\ checkout[o] = "initializing"
    /\ online[o]
    /\ Goto(o, "saving")
    /\ UNCHANGED storeVars

\* Either failed: an error, the client's 15 s timeout, or a cancelled context.
InitializeFails(o) ==
    /\ checkout[o] = "initializing"
    /\ Goto(o, "cancelling")
    /\ UNCHANGED storeVars

\* A database call under the request's context may succeed or may fail.
CallCanSucceed(o) == online[o]
CallCanFail(o) == StoreMayFail \/ ~online[o]

\* cancelDangling: the error of the transition is logged and dropped.
CancelDangling(o) ==
    /\ checkout[o] = "cancelling"
    /\ Goto(o, "init_failed")
    /\ \/ /\ CallCanSucceed(o)
          /\ TransitionOrder(o, "cancelled", "system")
       \/ /\ CallCanSucceed(o)
          /\ TransitionReply(o, "cancelled") # "applied"
          /\ UNCHANGED storeVars
       \/ /\ CallCanFail(o)
          /\ UNCHANGED storeVars

\* SetPaystackReference, then the 201 that carries the authorization URL.
SaveReference(o) ==
    /\ checkout[o] = "saving"
    /\ CallCanSucceed(o)
    /\ SetPaystackReference(o)
    /\ Goto(o, "paying")

\* Mutant: the failure is logged only, and the customer is sent to Paystack.
SaveReferenceFailsUnnoticed(o) ==
    /\ checkout[o] = "saving"
    /\ CallCanFail(o)
    /\ Goto(o, "paying")
    /\ UNCHANGED storeVars

SaveReferenceFails(o) ==
    /\ checkout[o] = "saving"
    /\ CallCanFail(o)
    /\ Goto(o, "save_failed")
    /\ UNCHANGED storeVars
-----------------------------------------------------------------------------
(* Paystack: the customer pays on the hosted page, whose address only the  *)
(* 201 carries.  The code trusts neither the amount nor the currency, so   *)
(* Paystack may report a charge that does not match, and a charge may be   *)
(* reversed later.                                                         *)

CustomerPays(o, outcome) ==
    /\ checkout[o] = "paying"
    /\ charge[o] = "none"
    /\ charge' = [charge EXCEPT ![o] = outcome]
    /\ UNCHANGED <<storeVars, checkout, online, delivery, answer, announced, restarts>>

ReverseCharge(o) ==
    /\ charge[o] = "exact"
    /\ charge' = [charge EXCEPT ![o] = "reversed"]
    /\ UNCHANGED <<storeVars, checkout, online, delivery, answer, announced, restarts>>
-----------------------------------------------------------------------------
(* handlePaystackWebhook for charge.success; a request that is not signed, *)
(* is another event or names no reference leaves before the first call and *)
(* changes nothing.                                                        *)

\* Mutant: a failure is taken down as an answer.
FinishAlways(d, reply) ==
    /\ delivery' = [delivery EXCEPT ![d] = Idle]
    /\ answer' = [answer EXCEPT ![delivery[d].order] = reply]

\* The handler of d ends; reply is what Paystack reads.  Anything but 200
\* makes Paystack deliver again.
Finish(d, reply) ==
    LET o == delivery[d].order IN
    /\ delivery' = [delivery EXCEPT ![d] = Idle]
    /\ answer' = IF reply = "retry" THEN answer ELSE [answer EXCEPT ![o] = reply]

\* Gate 1 passed; GetOrderByReference.
ReceiveWebhook(d, o) ==
    /\ delivery[d] = Idle
    /\ charge[o] # "none"
    /\ IF referenced[o]
       THEN /\ delivery' = [delivery EXCEPT ![d] = [stage |-> "loaded", order |-> o]]
            /\ UNCHANGED answer
       ELSE /\ answer' = [answer EXCEPT ![o] = "ignored"]
            /\ UNCHANGED delivery
    /\ UNCHANGED <<storeVars, checkout, online, charge, announced, restarts>>

\* Mutant: gate 3 is missing.
VerifyReplyAnyAmount(o) == IF charge[o] = "reversed" THEN "ignored" ELSE "continue"

\* Gates 2 and 3.
VerifyReply(o) ==
    CASE charge[o] = "reversed" -> "ignored"
      [] charge[o] = "mismatch" -> "rejected"
      [] OTHER                  -> "continue"

VerifyCharge(d) ==
    LET o == delivery[d].order IN
    /\ delivery[d].stage = "loaded"
    /\ \/ /\ VerifyReply(o) = "continue"
          /\ delivery' = [delivery EXCEPT ![d].stage = "verified"]
          /\ UNCHANGED answer
       \/ /\ VerifyReply(o) # "continue"
          /\ Finish(d, VerifyReply(o))
    /\ UNCHANGED <<storeVars, checkout, online, charge, announced, restarts>>

\* Mutant: an outage of the verify endpoint is answered 200.
VerifyFailsForGood(d) ==
    /\ delivery[d].stage = "loaded"
    /\ Finish(d, "ignored")
    /\ UNCHANGED <<storeVars, checkout, online, charge, announced, restarts>>

\* Paystack's verify endpoint cannot be reached: 502.
VerifyFails(d) ==
    /\ delivery[d].stage = "loaded"
    /\ Finish(d, "retry")
    /\ UNCHANGED <<storeVars, checkout, online, charge, announced, restarts>>

\* Mutant: only a change is published, so that a retry after a failed
\* read-back publishes nothing.
PublishChange(o) ==
    announced' = IF status'[o] # status[o] THEN [announced EXCEPT ![o] = status'[o]] ELSE announced

\* broker.Publish of the order as read back after the commit; when the read
\* fails the handler answers 500 and publishes nothing.
Publish(o) == announced' = [announced EXCEPT ![o] = status'[o]]

\* Gate 4.
MarkPaid(d) ==
    LET o == delivery[d].order
        reply == TransitionReply(o, "paid") IN
    /\ delivery[d].stage = "verified"
    /\ \/ /\ reply = "applied"
          /\ TransitionOrder(o, "paid", "system")
       \/ /\ reply # "applied"
          /\ UNCHANGED storeVars
    /\ \/ /\ reply \in {"applied", "noop"}
          /\ Publish(o)
          /\ Finish(d, "ok")
       \/ /\ reply \in {"applied", "noop"}
          /\ StoreMayFail
          /\ Finish(d, "retry")
          /\ UNCHANGED announced
       \/ /\ reply = "invalid_transition"
          /\ Finish(d, "rejected")
          /\ UNCHANGED announced
    /\ UNCHANGED <<checkout, online, charge, restarts>>

\* Mutant: a database error is answered 200.
MarkPaidFailsForGood(d) ==
    /\ delivery[d].stage = "verified"
    /\ Finish(d, "rejected")
    /\ UNCHANGED <<storeVars, checkout, online, charge, announced, restarts>>

\* The transition itself fails and rolls back: 500.
MarkPaidFails(d) ==
    /\ delivery[d].stage = "verified"
    /\ StoreMayFail
    /\ Finish(d, "retry")
    /\ UNCHANGED <<storeVars, checkout, online, charge, announced, restarts>>
-----------------------------------------------------------------------------
(* handleAdminTransition: any status but "paid" may be asked for.          *)

\* Mutant: staff may mark an order paid by hand.
StaffMayAskAnything(to) == to \in Statuses

StaffMayAsk(to) == to \in Statuses \ {"paid"}

\* Mutant: the actor is not passed on.
NoActor == "system"

\* The actor of the transition is the signed-in member of staff.
StaffActor == "staff"

AdminTransition(o, to) ==
    LET reply == TransitionReply(o, to) IN
    /\ StaffMayAsk(to)
    /\ \/ /\ reply = "applied"
          /\ TransitionOrder(o, to, StaffActor)
       \/ /\ reply = "noop"
          /\ UNCHANGED storeVars
    /\ \/ Publish(o)
       \/ StoreMayFail /\ UNCHANGED announced
    /\ UNCHANGED <<checkout, online, charge, delivery, answer, restarts>>

\* The process restarts: every request in work ends without an answer.
Restart ==
    /\ restarts < MaxRestarts
    /\ restarts' = restarts + 1
    /\ checkout' = [o \in OrderIds |-> IF checkout[o] \in Working THEN "lost" ELSE checkout[o]]
    /\ delivery' = [d \in Deliveries |-> Idle]
    /\ UNCHANGED <<storeVars, online, charge, answer, announced>>
-----------------------------------------------------------------------------
Init ==
    /\ StoreInit
    /\ checkout = [o \in OrderIds |-> "none"]
    /\ online = [o \in OrderIds |-> FALSE]
    /\ charge = [o \in OrderIds |-> "none"]
    /\ delivery = [d \in Deliveries |-> Idle]
    /\ answer = [o \in OrderIds |-> "none"]
    /\ announced = [o \in OrderIds |-> "none"]
    /\ restarts = 0

Shopping ==
    /\ \/ \E u \in Users : EditCart(u)
       \/ \E i \in Items, available \in BOOLEAN : SetItemAvailability(i, available)
    /\ UNCHANGED handlerVars

CheckoutStep(o) ==
    \/ InitializePayment(o)
    \/ InitializeFails(o)
    \/ CancelDangling(o)
    \/ SaveReference(o)
    \/ SaveReferenceFails(o)

WebhookStep(d) ==
    \/ \E o \in OrderIds : ReceiveWebhook(d, o)
    \/ VerifyCharge(d)
    \/ VerifyFails(d)
    \/ MarkPaid(d)
    \/ MarkPaidFails(d)

Next ==
    \/ Shopping
    \/ \E o \in OrderIds, u \in Users, f \in Fulfilments,
          request \in RedeemRequests, key \in Keys \cup {NoKey} :
              StartCheckout(o, u, f, request, key)
    \/ \E o \in OrderIds : Disconnect(o) \/ CheckoutStep(o)
    \/ \E o \in OrderIds : \E outcome \in {"exact", "mismatch"} : CustomerPays(o, outcome)
    \/ \E o \in OrderIds : ReverseCharge(o)
    \/ \E d \in Deliveries : WebhookStep(d)
    \/ \E o \in OrderIds, to \in Statuses : AdminTransition(o, to)
    \/ Restart

Spec == Init /\ [][Next]_vars
-----------------------------------------------------------------------------
(* Fairness.  A handler that was started runs on: its outbound calls have  *)
(* timeouts, and nothing in it waits for another request.  Paystack        *)
(* delivers an event again until it is answered 200, and the verify call   *)
(* and the database do not fail for ever; the model's few delivery slots   *)
(* are no limit of the server, which is why these are strong.              *)

Redeliver(o) == answer[o] = "none" /\ \E d \in Deliveries : ReceiveWebhook(d, o)

Fairness ==
    /\ \A o \in OrderIds : WF_vars(CheckoutStep(o)) /\ SF_vars(Redeliver(o))
    /\ \A d \in Deliveries : SF_vars(VerifyCharge(d)) /\ SF_vars(MarkPaid(d) /\ answer' # answer)

FairSpec == Spec /\ Fairness
-----------------------------------------------------------------------------
(* Properties.                                                             *)

\* The stages of the requests.
HandlersTypeOK ==
    /\ checkout \in [OrderIds -> CheckoutStages]
    /\ online \in [OrderIds -> BOOLEAN]
    /\ charge \in [OrderIds -> Charges]
    /\ delivery \in [Deliveries -> DeliveryStates]
    /\ answer \in [OrderIds -> {"none", "ok", "ignored", "rejected"}]
    /\ announced \in [OrderIds -> Statuses \cup {"none"}]
    /\ restarts \in 0..MaxRestarts

WasPaid(o) == \E i \in 1..Len(history[o]) : history[o][i].to = "paid"

\* No order is marked paid, in any interleaving of duplicated deliveries,
\* staff actions and restarts, unless Paystack verified exactly its total.
PaidMeansCharged ==
    \A o \in OrderIds : WasPaid(o) => charge[o] \in {"exact", "reversed"}

\* A reference can be charged only after it was saved, so the webhook always
\* finds the order of a real charge and never acknowledges it as unknown.
ChargeIsFindable ==
    \A o \in OrderIds : charge[o] # "none" => referenced[o]

\* Paystack is told to stop delivering a matching charge only when the order
\* has recorded it or was cancelled before: no 200 loses a payment.
AcknowledgedIsSettled ==
    \A o \in OrderIds : charge[o] = "exact" /\ answer[o] # "none"
        => WasPaid(o) \/ status[o] = "cancelled"

\* A delivery answered "ok" has published the order's new status to the
\* screens that follow it.
OkIsAnnounced ==
    \A o \in OrderIds : answer[o] = "ok" => announced[o] # "none"

\* What the audit trail says was cancelled by the system was never payable:
\* only cancelDangling cancels without an actor, and it runs before any
\* authorization URL left the server.
SystemCancelsUnpayable ==
    \A o \in OrderIds : \A i \in 1..Len(history[o]) :
        history[o][i].to = "cancelled" /\ history[o][i].actor = "system"
            => charge[o] = "none" /\ checkout[o] = "init_failed"

\* Whatever the handlers do to the tables between two of their other calls is
\* one of the store's transactions, asked for by an actor entitled to it: all
\* that is shown of OrderStore holds under the handlers.
ActsThroughStore == StoreSpec

\* A matching charge is recorded in the end, whatever fails on the way, unless
\* the order was cancelled or the charge reversed meanwhile.
ExactChargeSettles ==
    \A o \in OrderIds :
        charge[o] = "exact" ~> (WasPaid(o) \/ status[o] = "cancelled" \/ charge[o] = "reversed")

\* checkout_handlers.go:84: on any failure, cancel the order so it cannot
\* dangle.
FailedCheckoutIsCancelled ==
    \A o \in OrderIds : checkout[o] \in {"init_failed", "save_failed"} => status[o] = "cancelled"
=============================================================================
