--------------------------- MODULE CheckoutScreen ---------------------------
(***************************************************************************)
(* Checkout as one customer sees it: the checkout page, Paystack's script  *)
(* and popup, the hosted page it falls back to, and the page of the order. *)
(* A submission goes on when its page has been left.  Popups end in every  *)
(* way lib/paystack.ts handles; handleCheckout sends no access_code, so    *)
(* that with this backend PopupError is what remains of them.  What the    *)
(* screens promise is checked for all endings.  The customer gets as       *)
(* far as one order (a bound), with as many submissions as that takes and  *)
(* any number after it that are refused.  The server's part is cut down to *)
(* what the browser can tell; OrderStore and Payments have the rest.       *)
(***************************************************************************)
EXTENDS CartScreen

VARIABLES
    order,          \* the order's status at the server
    call,           \* how far the submission has come
    visit,          \* whether the page that submitted is still mounted
    keyUsed,        \* whether the order was made with this visit's idempotency key
    redeem,         \* pointsToRedeem > 0
    script,         \* the <script> element of Paystack: absent, loading or fired
    loader,         \* the promise of loadPaystack: none, pending or resolved
    popup,          \* popup[f]: what openPaystackPopup, called by page f, came to
    stash,          \* the payment codes in sessionStorage: none, kept or removed
    retry,          \* whether the mounted order page has read them
    charged         \* whether the customer has paid at Paystack

payPage == <<visit, keyUsed, redeem, retry>>
payTab == <<script, loader, popup, stash, charged>>
payVars == <<order, call, payPage, payTab>>
vars == <<cartVars, payVars>>

Pages == {"menu", "cart", "checkout", "order", "hosted"}
Froms == {"checkout", "order"}
Codes == {"empty_cart", "unavailable", "insufficient_points", "duplicate_order",
          "payment_init_failed", "other"}
Calls == {"idle", "sent", "placed", "answered", "opening"} \cup Codes

\* What a page that goes takes with it, unless the same route is shown again.
LeavePage(kept) ==
    /\ IF page = "checkout" /\ page' = "checkout" THEN UNCHANGED <<visit, keyUsed, redeem>>
       ELSE visit' = FALSE /\ keyUsed' = FALSE /\ redeem' = FALSE
    /\ retry' = IF page' # "order" THEN FALSE ELSE IF page = "order" THEN retry ELSE kept = "kept"
-----------------------------------------------------------------------------
(* The checkout page.                                                      *)

\* The ways there: "Checkout" of the drawer and the cart page, "Try again" of the
\* page of a cancelled order.
GoToCheckout == (drawer \/ page = "cart") /\ CanCheckout
TryAgain == page = "order" /\ order = "cancelled" /\ ~drawer

\* Mounting the page makes a new idempotency key and fetches the cart.
VisitCheckout ==
    /\ page # "checkout"
    /\ GoToCheckout \/ TryAgain
    /\ GoAndFetch("checkout") /\ LeavePage(stash)
    /\ drawer' = FALSE
    /\ UNCHANGED <<cart, onMenu, shown, behind, order, call, payTab>>

\* The form is only rendered for a cart with lines.
Form == page = "checkout" /\ Lines(shown) # {} /\ ~drawer

ToggleRedeem ==
    /\ Form
    /\ redeem' = ~redeem
    /\ UNCHANGED <<cartVars, order, call, visit, keyUsed, retry, payTab>>

\* One submission at a time, also of two visits (a bound); and none that could
\* make a second order.
Submit ==
    /\ Form /\ call = "idle"
    /\ order = "none" \/ keyUsed \/ \A v \in Variants : cart[v] = 0
    /\ call' = "sent" /\ visit' = TRUE
    /\ UNCHANGED <<cartVars, order, keyUsed, redeem, retry, payTab>>
-----------------------------------------------------------------------------
(* The server.                                                             *)

\* handleCheckout: the refusals a checkout of this cart may meet.  The balance
\* of points on the page is a made-up 340, so the server may know less.
Refusals ==
    IF \A v \in Variants : cart[v] = 0 THEN {"empty_cart"}
    ELSE IF \E v \in Variants : cart[v] > 0 /\ v \notin onMenu THEN {"unavailable"}
    ELSE (IF redeem THEN {"insufficient_points"} ELSE {})
             \cup (IF order # "none" THEN {"duplicate_order"} ELSE {})

Refuse ==
    /\ call = "sent"
    /\ call' \in Refusals
    /\ UNCHANGED <<cartVars, order, payPage, payTab>>

\* The transaction: the order is created and the cart emptied.
Place ==
    /\ call = "sent"
    /\ Refusals \subseteq {"insufficient_points"}
    /\ call' = "placed"
    /\ order' = "pending_payment"
    /\ keyUsed' = visit
    /\ cart' = [v \in Variants |-> 0]
    /\ behind' = "sold"
    /\ UNCHANGED <<onMenu, shown, loading, drawer, page, req, visit, redeem, retry, payTab>>

\* Initialize gets through, or the order is cancelled.
Initialize ==
    /\ call = "placed"
    /\ \/ call' = "answered" /\ order' = order
       \/ call' = "payment_init_failed" /\ order' = "cancelled"
    /\ UNCHANGED <<cartVars, payPage, payTab>>

\* The request or its answer is lost.
LoseCall ==
    /\ MayFail
    /\ call \in {"sent", "placed", "answered"}
    /\ call' = "other"
    /\ UNCHANGED <<cartVars, order, payPage, payTab>>

\* The webhook settles the order: paid when the customer has been charged,
\* cancelled by a failed charge or by staff.
Webhook ==
    /\ order = "pending_payment"
    /\ order' \in {"cancelled"} \cup (IF charged THEN {"paid"} ELSE {})
    /\ UNCHANGED <<cartVars, call, payPage, payTab>>
-----------------------------------------------------------------------------
(* The answer of a submission.                                             *)

\* Each error code says where it leaves the customer.
Rejected ==
    /\ call \in Codes
    /\ call' = "idle"
    /\ IF call = "empty_cart"
       THEN GoTo("menu") /\ LeavePage(stash) /\ UNCHANGED drawer
       ELSE /\ page' = page
            /\ redeem' = (redeem /\ ~(call = "insufficient_points" /\ visit))
            /\ visit' = FALSE
            /\ IF call = "unavailable" /\ ~drawer
               THEN drawer' = TRUE /\ \E r \in Requests : FetchIn(req, r)
               ELSE UNCHANGED <<drawer, req, loading>>
            /\ UNCHANGED <<keyUsed, retry>>
    /\ UNCHANGED <<cart, onMenu, shown, behind, order, payTab>>

\* loadPaystack: join the promise there is, or wait for a script.  A dead script
\* found in the page never fires again.
Load(from) ==
    /\ popup' = [popup EXCEPT ![from] = IF loader = "resolved" THEN "open" ELSE "loading"]
    /\ loader' = IF loader = "none" THEN "pending" ELSE loader
    /\ script' = IF script = "absent" THEN "loading" ELSE script

\* The answer: the codes are kept before the popup is asked for.
Answered ==
    /\ call = "answered"
    /\ call' = "opening"
    /\ stash' = "kept"
    /\ Load("checkout")
    /\ UNCHANGED <<cartVars, order, payPage, charged>>

\* openPaystackPopup has returned or thrown: isSubmitting ends.
Opened ==
    /\ call = "opening" /\ popup["checkout"] # "loading"
    /\ call' = "idle" /\ visit' = FALSE
    /\ UNCHANGED <<cartVars, order, keyUsed, redeem, retry, payTab>>
-----------------------------------------------------------------------------
(* Paystack's script and popup.                                            *)

EachWaiting(then) == [f \in Froms |-> IF popup[f] = "loading" THEN then ELSE popup[f]]

\* "load" fires and PaystackPop is there: every waiting caller gets its popup.
ScriptLoads ==
    /\ script = "loading"
    /\ script' = "fired" /\ loader' = "resolved"
    /\ popup' = EachWaiting("open")
    /\ UNCHANGED <<cartVars, order, call, payPage, stash, charged>>

\* Mutant: the dead script stays in the page.
ScriptFailsLeavingTag ==
    /\ script = "loading"
    /\ script' = "fired" /\ loader' = "none"
    /\ popup' = EachWaiting("redirect")
    /\ UNCHANGED <<cartVars, order, call, payPage, stash, charged>>

\* "error" fires, or the script has no PaystackPop: fail() makes room for
\* another attempt, and every caller's catch turns to the hosted page.
ScriptFails ==
    /\ script = "loading"
    /\ script' = "absent" /\ loader' = "none"
    /\ popup' = EachWaiting("redirect")
    /\ UNCHANGED <<cartVars, order, call, payPage, stash, charged>>

\* What a popup does when it closes: goToOrder drops the local cart and shows
\* the order; a popup of the order page leaves everything as it is.
ClosePopup(from, kept) ==
    /\ popup[from] = "open"
    /\ popup' = [popup EXCEPT ![from] = "closed"]
    /\ stash' = kept
    /\ IF from = "checkout"
       THEN /\ shown' = NoCart /\ behind' = "cleared"
            /\ GoTo("order") /\ LeavePage(kept)
       ELSE UNCHANGED <<shown, behind, page, loading, payPage, req>>
    /\ UNCHANGED <<cart, onMenu, drawer, order, call, script, loader>>

\* Paystack takes the money of a transaction once.
Succeed(from) == ~charged /\ charged' = TRUE /\ ClosePopup(from, "removed")

\* Mutant: a cancelled popup forgets its codes too.
CancelForgetting(from) == ClosePopup(from, "removed") /\ UNCHANGED charged

Cancel(from) == ClosePopup(from, stash) /\ UNCHANGED charged

\* onError: the transaction cannot be resumed in the popup.
PopupError(from) ==
    /\ popup[from] = "open"
    /\ popup' = [popup EXCEPT ![from] = "redirect"]
    /\ UNCHANGED <<cartVars, order, call, payPage, script, loader, stash, charged>>

\* window.location.assign: the tab leaves the application with all it held,
\* and only sessionStorage stays.
Leave(from) ==
    /\ popup[from] = "redirect"
    /\ page' = "hosted" /\ LeavePage(stash)
    /\ shown' = NoCart /\ behind' = "lost" /\ drawer' = FALSE /\ loading' = FALSE
    /\ req' = [r \in Requests |-> Idle]
    /\ call' = "idle"
    /\ popup' = [f \in Froms |-> "closed"]
    /\ script' = "absent" /\ loader' = "none"
    /\ UNCHANGED <<cart, onMenu, order, stash, charged>>

\* The customer stops the navigation and stays.
StopLeaving(from) ==
    /\ popup[from] = "redirect"
    /\ popup' = [popup EXCEPT ![from] = "closed"]
    /\ UNCHANGED <<cartVars, order, call, payPage, script, loader, stash, charged>>

\* Paystack sends the customer back to the order, paid for or not, and the
\* application loads anew.
Return ==
    /\ page = "hosted"
    /\ charged' \in {charged, TRUE}
    /\ page' = "order"
    /\ \E r \in Requests : FetchIn(req, r)
    /\ LeavePage(stash)
    /\ UNCHANGED <<cart, onMenu, shown, drawer, behind, order, call, script, loader, popup, stash>>
-----------------------------------------------------------------------------
(* The page of the order; LiveOrder has how it follows the status.         *)

\* From the history of orders.
VisitOrder ==
    /\ page # "order" /\ ~drawer
    /\ order # "none"
    /\ GoTo("order")
    /\ UNCHANGED payTab
    /\ LeavePage(stash)
    /\ UNCHANGED <<cart, onMenu, shown, drawer, behind, order, call>>

\* The button "Pay now" of an order that waits for its payment.
PayNowOffered == page = "order" /\ ~drawer /\ order = "pending_payment" /\ retry

\* handlePayNow.  One popup of the page at a time (a bound).
PayNow ==
    /\ PayNowOffered
    /\ popup["order"] = "closed"
    /\ Load("order")
    /\ UNCHANGED <<cartVars, order, call, payPage, stash, charged>>
-----------------------------------------------------------------------------
Init ==
    /\ CartInit
    /\ order = "none" /\ call = "idle"
    /\ visit = FALSE /\ keyUsed = FALSE /\ redeem = FALSE /\ retry = FALSE
    /\ script = "absent" /\ loader = "none" /\ popup = [f \in Froms |-> "closed"]
    /\ stash = "none" /\ charged = FALSE

\* What the customer clicks.  An open popup covers the page.  Cart requests overlap
\* before a checkout, and one at a time is made during and after it (a bound).
Click ==
    /\ page # "hosted" /\ \A f \in Froms : popup[f] # "open"
    /\ \/ CartClick /\ UNCHANGED <<order, call, payTab>> /\ LeavePage(stash)
       \/ VisitCheckout \/ ToggleRedeem \/ Submit \/ VisitOrder \/ PayNow
    /\ order' # "none" \/ call' # "idle" => Cardinality({r \in Requests : req'[r] # Idle}) <= 1

\* What happens to a submission without the customer.
Progress == Refuse \/ Place \/ Initialize \/ Rejected \/ Answered \/ Opened

\* Items are switched before there is an order (a bound).
Next ==
    \/ Click \/ Progress \/ LoseCall \/ Webhook \/ Return
    \/ \E r \in Requests : (Answer(r) \/ Lose(r)) /\ UNCHANGED payVars
    \/ \E v \in Variants : order = "none" /\ SwitchItem(v) /\ UNCHANGED payVars
    \/ ScriptLoads \/ ScriptFails
    \/ \E f \in Froms : Succeed(f) \/ Cancel(f) \/ PopupError(f) \/ Leave(f) \/ StopLeaving(f)

Spec == Init /\ [][Next]_vars
-----------------------------------------------------------------------------
(* Properties.                                                             *)

\* Types, and what hangs together: only a mounted page remembers a visit, only
\* one that read the codes offers to pay, and the lines of the cart are blocked
\* only while a fetch runs.
ShopTypeOK ==
    /\ cart \in [Variants -> 0..MaxQuantity] /\ shown.lines \in [Variants -> 0..MaxQuantity]
    /\ shown.dead \subseteq Variants /\ onMenu \subseteq Variants
    /\ loading \in BOOLEAN /\ drawer \in BOOLEAN /\ page \in Pages /\ behind \in Reasons
    /\ order \in {"none", "pending_payment", "paid", "cancelled"} /\ call \in Calls
    /\ stash \in {"none", "kept", "removed"} /\ charged \in BOOLEAN
    /\ popup \in [Froms -> {"closed", "loading", "open", "redirect"}]
    /\ script \in {"absent", "loading", "fired"} /\ loader \in {"none", "pending", "resolved"}
    /\ visit \/ keyUsed \/ redeem => page = "checkout"
    /\ retry => page = "order" /\ stash # "none"
    /\ loading => \E r \in Requests : req[r].kind = "get"

\* checkout/page.tsx, lib/paystack.ts: the payment codes are kept before a popup
\* can come up, and stay until the customer has paid: whatever becomes of a
\* popup, an unpaid order can be paid for again in this browser session.
PayableAgain ==
    /\ stash = "none" => call # "opening" /\ \A f \in Froms : popup[f] = "closed"
    /\ stash = "removed" => charged

\* lib/paystack.ts: whoever waits for the popup waits for a script that is still
\* going to fire, also after earlier scripts have failed: a retry does not "hang
\* forever".
WaitsForLiveScript ==
    (\E f \in Froms : popup[f] = "loading") => script = "loading" /\ loader = "pending"
=============================================================================
