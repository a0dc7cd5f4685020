------------------------ MODULE CheckoutScreenProofs ------------------------
(***************************************************************************)
(* The payment codes, Paystack's script and the cart on the screen, for    *)
(* any menu and any number of overlapping cart requests.                   *)
(***************************************************************************)
EXTENDS CheckoutScreen, TLAPS

PayTypes ==
    /\ popup \in [Froms -> {"closed", "loading", "open", "redirect"}]
    /\ stash \in {"none", "kept", "removed"}
    /\ charged \in BOOLEAN

\* The promise of loadPaystack and the script it waits for go together.
LoaderHasScript ==
    /\ loader \in {"none", "pending", "resolved"}
    /\ script = CASE loader = "none" -> "absent" [] loader = "pending" -> "loading" [] OTHER -> "fired"

\* "Pay now" is offered by a page that has found codes.
RetryHasCodes == retry \in BOOLEAN /\ (retry => stash # "none")

PayInv == PayTypes /\ LoaderHasScript /\ RetryHasCodes /\ PayableAgain /\ WaitsForLiveScript
-----------------------------------------------------------------------------
(* Steps.                                                                  *)

\* Steps that leave Paystack alone: all but the payment, the script and the popups.
LEMMA PaystackUntouched ==
    ASSUME PayInv, UNCHANGED <<popup, stash, script, loader>>,
           charged' \in {charged, TRUE},
           call' = call \/ call' # "opening",
           retry' \in {retry, FALSE, stash = "kept"}
    PROVE  PayInv'
  <1>1. PayTypes' /\ LoaderHasScript' /\ RetryHasCodes'
    BY DEF PayInv, PayTypes, LoaderHasScript, RetryHasCodes
  <1>2. PayableAgain'
    BY DEF PayInv, PayableAgain, PayTypes
  <1>3. WaitsForLiveScript'
    BY DEF PayInv, WaitsForLiveScript
  <1> QED BY <1>1, <1>2, <1>3 DEF PayInv

\* Whether a page offers to pay again is decided when it mounts.
LEMMA LeavePageRetry ==
    ASSUME NEW kept, LeavePage(kept) PROVE retry' \in {retry, FALSE, kept = "kept"}
  BY DEF LeavePage

\* A popup is asked for: whoever has to wait waits for a script.
LEMMA LoadStep ==
    ASSUME PayInv, NEW from \in Froms, Load(from), stash' = "kept" \/ (stash' = stash /\ stash # "none"),
           UNCHANGED <<retry, charged>>
    PROVE  PayInv'
  <1>1. /\ popup' = [popup EXCEPT ![from] = IF loader = "resolved" THEN "open" ELSE "loading"]
        /\ loader' = IF loader = "none" THEN "pending" ELSE loader
        /\ script' = IF script = "absent" THEN "loading" ELSE script
    BY DEF Load
  <1>2. PayTypes'
    BY <1>1 DEF PayInv, PayTypes
  <1>3. LoaderHasScript'
    BY <1>1 DEF PayInv, LoaderHasScript
  <1>4. RetryHasCodes'
    BY DEF PayInv, RetryHasCodes
  <1>5. PayableAgain'
    BY DEF PayInv, PayableAgain
  <1>6. WaitsForLiveScript'
    <2> SUFFICES ASSUME NEW f \in Froms, popup'[f] = "loading"
                 PROVE  script' = "loading" /\ loader' = "pending"
      BY DEF WaitsForLiveScript
    <2>1. CASE f = from
      BY <1>1, <2>1 DEF PayInv, PayTypes, LoaderHasScript
    <2>2. CASE f # from
      BY <1>1, <2>2 DEF PayInv, PayTypes, LoaderHasScript, WaitsForLiveScript
    <2> QED BY <2>1, <2>2
  <1> QED BY <1>2, <1>3, <1>4, <1>5, <1>6 DEF PayInv

\* The script has fired or failed: nobody waits any more.
LEMMA ScriptStep ==
    ASSUME PayInv, ScriptLoads \/ ScriptFails PROVE PayInv'
  <1>1. PICK then \in {"open", "redirect"} : popup' = EachWaiting(then)
    BY DEF ScriptLoads, ScriptFails
  <1>2. \A f \in Froms : popup'[f] = IF popup[f] = "loading" THEN then ELSE popup[f]
    BY <1>1 DEF EachWaiting
  <1>3. UNCHANGED <<call, retry, stash, charged>>
    BY DEF ScriptLoads, ScriptFails, payPage
  <1>4. PayTypes'
    <2>1. popup' = [f \in Froms |-> popup'[f]]
      BY <1>1 DEF EachWaiting
    <2> QED BY <1>2, <1>3, <2>1 DEF PayInv, PayTypes
  <1>5. LoaderHasScript'
    BY DEF LoaderHasScript, ScriptLoads, ScriptFails
  <1>6. RetryHasCodes'
    BY <1>3 DEF PayInv, RetryHasCodes
  <1>7. PayableAgain'
    BY <1>2, <1>3 DEF PayInv, PayableAgain
  <1>8. WaitsForLiveScript'
    BY <1>2 DEF WaitsForLiveScript
  <1> QED BY <1>4, <1>5, <1>6, <1>7, <1>8 DEF PayInv

\* A popup closes or turns to the hosted page; the codes go when it was paid.
LEMMA PopupStep ==
    ASSUME PayInv, NEW from \in Froms,
           Succeed(from) \/ Cancel(from) \/ PopupError(from) \/ StopLeaving(from)
    PROVE  PayInv'
  <1>1. /\ popup[from] \in {"open", "redirect"}
        /\ \E end \in {"closed", "redirect"} : popup' = [popup EXCEPT ![from] = end]
        /\ UNCHANGED <<call, script, loader>>
    BY DEF Succeed, Cancel, PopupError, StopLeaving, ClosePopup
  <1>2. \/ UNCHANGED <<stash, charged>>
        \/ stash' = "removed" /\ charged' = TRUE
    BY DEF Succeed, Cancel, PopupError, StopLeaving, ClosePopup
  <1>3. retry' \in {retry, FALSE, stash' = "kept"}
    BY LeavePageRetry DEF Succeed, Cancel, PopupError, StopLeaving, ClosePopup, payPage
  <1>4. \A f \in Froms : popup'[f] = popup[f] \/ (f = from /\ popup'[f] \in {"closed", "redirect"})
    BY <1>1 DEF PayInv, PayTypes
  <1>5. stash # "none"
    BY <1>1 DEF PayInv, PayableAgain
  <1>6. PayTypes'
    BY <1>1, <1>2 DEF PayInv, PayTypes
  <1>7. LoaderHasScript'
    BY <1>1 DEF PayInv, LoaderHasScript
  <1>8. RetryHasCodes'
    BY <1>2, <1>3, <1>5 DEF PayInv, RetryHasCodes
  <1>9. PayableAgain'
    BY <1>1, <1>2, <1>5 DEF PayInv, PayableAgain
  <1>10. WaitsForLiveScript'
    BY <1>1, <1>4 DEF PayInv, WaitsForLiveScript
  <1> QED BY <1>6, <1>7, <1>8, <1>9, <1>10 DEF PayInv

\* The tab leaves for the hosted page: nothing of it waits, and the codes stay.
LEMMA LeaveStep ==
    ASSUME PayInv, NEW from \in Froms, Leave(from) PROVE PayInv'
  <1>1. /\ popup' = [f \in Froms |-> "closed"] /\ script' = "absent" /\ loader' = "none"
        /\ UNCHANGED <<stash, charged>> /\ call' = "idle"
        /\ retry' \in {retry, FALSE, stash = "kept"}
    BY LeavePageRetry DEF Leave
  <1>2. PayTypes' /\ LoaderHasScript' /\ RetryHasCodes'
    BY <1>1 DEF PayInv, PayTypes, LoaderHasScript, RetryHasCodes
  <1>3. PayableAgain' /\ WaitsForLiveScript'
    BY <1>1 DEF PayInv, PayableAgain, WaitsForLiveScript
  <1> QED BY <1>2, <1>3 DEF PayInv

\* What the customer clicks.
LEMMA ClickStep == ASSUME PayInv, Click PROVE PayInv'
  <1>1. CASE CartClick /\ UNCHANGED <<order, call, payTab>> /\ LeavePage(stash)
    BY <1>1, LeavePageRetry, PaystackUntouched DEF payTab
  <1>2. CASE VisitCheckout
    BY <1>2, LeavePageRetry, PaystackUntouched DEF VisitCheckout, payTab
  <1>3. CASE ToggleRedeem
    BY <1>3, PaystackUntouched DEF ToggleRedeem, payTab
  <1>4. CASE Submit
    BY <1>4, PaystackUntouched DEF Submit, payTab
  <1>5. CASE VisitOrder
    BY <1>5, LeavePageRetry, PaystackUntouched DEF VisitOrder, payTab
  <1>6. CASE PayNow
    <2>1. stash # "none" /\ UNCHANGED <<stash, retry, charged>>
      BY <1>6 DEF PayNow, PayNowOffered, PayInv, RetryHasCodes, payPage
    <2> QED BY <1>6, <2>1, LoadStep DEF PayNow, Froms
  <1> QED BY <1>1, <1>2, <1>3, <1>4, <1>5, <1>6 DEF Click

\* How the submission goes on.
LEMMA ProgressStep == ASSUME PayInv, Progress PROVE PayInv'
  <1>1. CASE Refuse
    <2>1. call' # "opening"
      BY <1>1 DEF Refuse, Refusals
    <2> QED BY <1>1, <2>1, PaystackUntouched DEF Refuse, payTab, payPage
  <1>2. CASE Place \/ Initialize
    BY <1>2, PaystackUntouched DEF Place, Initialize, payTab, payPage
  <1>3. CASE Rejected
    <2>1. retry' \in {retry, FALSE, stash = "kept"}
      BY <1>3, LeavePageRetry DEF Rejected
    <2> QED BY <1>3, <2>1, PaystackUntouched DEF Rejected, payTab
  <1>4. CASE Answered
    BY <1>4, LoadStep DEF Answered, payPage, Froms
  <1>5. CASE Opened
    BY <1>5, PaystackUntouched DEF Opened, payTab
  <1> QED BY <1>1, <1>2, <1>3, <1>4, <1>5 DEF Progress

\* Every step keeps the codes and the script in order.
LEMMA PayStep == PayInv /\ [Next]_vars => PayInv'
  <1> SUFFICES ASSUME PayInv, [Next]_vars PROVE PayInv'
    OBVIOUS
  <1>1. CASE LoseCall \/ Webhook
    BY <1>1, PaystackUntouched DEF LoseCall, Webhook, payTab, payPage
  <1>2. CASE Return
    BY <1>2, LeavePageRetry, PaystackUntouched DEF Return
  <1>3. CASE UNCHANGED payVars
    BY <1>3, PaystackUntouched DEF payVars, payTab, payPage
  <1> QED BY <1>1, <1>2, <1>3, ClickStep, ProgressStep, ScriptStep, PopupStep, LeaveStep DEF Next, vars

\* A tab that has just been opened has nothing of Paystack.
LEMMA PayInitHolds == Init => PayInv
  BY DEF Init, PayInv, PayTypes, LoaderHasScript, RetryHasCodes, PayableAgain, WaitsForLiveScript

\* Codes, script and popups stay in order.
THEOREM PayInvariant == Spec => []PayInv
  BY PayInitHolds, PayStep, PTL DEF Spec
-----------------------------------------------------------------------------
(* The cart on the screen.                                                 *)

\* A request keeps its fields.
Shaped(q) ==
    q = [kind |-> q.kind, line |-> q.line, quantity |-> q.quantity, stage |-> q.stage,
         view |-> q.view, mounted |-> q.mounted]

\* What may still bring the cart to the screen: an answer that has it, or a fetch
\* that has not failed without a trace.
Brings(q) ==
    \/ q.stage = "answered" /\ q.view.lines = cart
    \/ q.kind = "get" /\ q.stage \in {"sent", "failed"}

\* The screen has the cart, or something on its way brings it, unless there is a
\* reason for it to be behind.
OnItsWay == behind = "nothing" => shown.lines = cart \/ \E r \in Requests : Brings(req[r])

CartInv ==
    /\ req = [r \in Requests |-> req[r]]
    /\ \A r \in Requests : Shaped(req[r])
    /\ OnItsWay

\* Requests of two moments: the ones under way stay so.
GoesOn(old, new) == old.stage # "idle" => new.kind = old.kind /\ new.stage = old.stage /\ new.view = old.view

\* Steps that only send requests.
LEMMA SendingKeepsCart ==
    ASSUME CartInv, UNCHANGED <<cart, shown, behind>>,
           req' = [r \in Requests |-> req'[r]],
           \A r \in Requests : Shaped(req'[r]) /\ GoesOn(req[r], req'[r])
    PROVE  CartInv'
  <1>1. ASSUME behind' = "nothing" PROVE shown'.lines = cart' \/ \E r \in Requests : Brings(req[r])'
    <2>1. CASE shown.lines = cart
      BY <2>1
    <2>2. CASE shown.lines # cart
      <3>1. PICK r \in Requests : Brings(req[r])
        BY <1>1, <2>2 DEF CartInv, OnItsWay
      <3>2. GoesOn(req[r], req'[r])
        OBVIOUS
      <3>3. Brings(req[r])'
        BY <3>1, <3>2 DEF Brings, GoesOn
      <3> QED BY <3>3
    <2> QED BY <2>1, <2>2
  <1> QED BY <1>1 DEF CartInv, OnItsWay

\* The idle slot has the fields of a request.
LEMMA IdleShape == Shaped(Idle) /\ Idle.stage = "idle" /\ Idle.kind = "idle"
  BY DEF Shaped, Idle

\* So has a request that is sent.
LEMMA RequestShape ==
    ASSUME NEW kind, NEW line, NEW quantity
    PROVE  /\ Shaped(Request(kind, line, quantity))
           /\ Request(kind, line, quantity).kind = kind /\ Request(kind, line, quantity).stage = "sent"
  BY DEF Shaped, Request

\* And what is left of one for its caller.
LEMMA OutcomeShape ==
    ASSUME NEW q, NEW stage, NEW view
    PROVE  /\ Shaped(Outcome(q, stage, view))
           /\ Outcome(q, stage, view).kind = q.kind
           /\ Outcome(q, stage, view).stage = stage
           /\ Outcome(q, stage, view).view = view
  BY DEF Outcome, Shaped

\* Leaving an item's page changes nothing else of the requests.
LEMMA UnmountedKeeps ==
    ASSUME CartInv
    PROVE  /\ Unmounted(req) = [r \in Requests |-> Unmounted(req)[r]]
           /\ \A r \in Requests : Shaped(Unmounted(req)[r]) /\ GoesOn(req[r], Unmounted(req)[r])
  <1>1. \A r \in Requests : Unmounted(req)[r] = [req[r] EXCEPT !.mounted = FALSE]
    BY DEF Unmounted
  <1>2. ASSUME NEW r \in Requests PROVE Shaped(Unmounted(req)[r]) /\ GoesOn(req[r], Unmounted(req)[r])
    <2> DEFINE q == req[r]
    <2>1. q = [kind |-> q.kind, line |-> q.line, quantity |-> q.quantity, stage |-> q.stage,
               view |-> q.view, mounted |-> q.mounted]
      BY DEF CartInv, Shaped
    <2>2. Unmounted(req)[r] = [kind |-> q.kind, line |-> q.line, quantity |-> q.quantity, stage |-> q.stage,
                               view |-> q.view, mounted |-> FALSE]
      BY <1>1, <2>1
    <2> QED BY <2>2 DEF Shaped, GoesOn
  <1> QED BY <1>2 DEF Unmounted

\* A request that is sent in a free slot.
LEMMA SentKeeps ==
    ASSUME NEW base, base = [r \in Requests |-> base[r]],
           \A r \in Requests : Shaped(base[r]) /\ GoesOn(req[r], base[r]),
           NEW r \in Requests, base[r] = Idle, NEW new, Shaped(new),
           req' = [base EXCEPT ![r] = new]
    PROVE  /\ req' = [x \in Requests |-> req'[x]]
           /\ \A x \in Requests : Shaped(req'[x]) /\ GoesOn(req[x], req'[x])
  <1>1. req' = [x \in Requests |-> req'[x]] /\ \A x \in Requests : req'[x] = IF x = r THEN new ELSE base[x]
    OBVIOUS
  <1>2. GoesOn(req[r], new)
    BY IdleShape DEF GoesOn
  <1> QED BY <1>1, <1>2

\* fetchCart, also of a page that is left for another.
LEMMA FetchingKeepsCart ==
    ASSUME CartInv, NEW r \in Requests, FetchIn(req, r) \/ FetchIn(Unmounted(req), r),
           UNCHANGED <<cart, shown, behind>>
    PROVE  CartInv'
  <1>1. Shaped(Request("get", 0, 0))
    BY RequestShape
  <1>2. \A x \in Requests : Shaped(req[x]) /\ GoesOn(req[x], req[x])
    BY DEF CartInv, GoesOn
  <1>3. CASE FetchIn(req, r)
    BY <1>1, <1>2, <1>3, SentKeeps, SendingKeepsCart DEF FetchIn, CartInv
  <1>4. CASE FetchIn(Unmounted(req), r)
    BY <1>1, <1>4, UnmountedKeeps, SentKeeps, SendingKeepsCart DEF FetchIn
  <1> QED BY <1>3, <1>4

\* A page that fetches nothing.
LEMMA GoingKeepsCart ==
    ASSUME CartInv, NEW p, GoTo(p), UNCHANGED <<cart, shown, behind>> PROVE CartInv'
  BY UnmountedKeeps, SendingKeepsCart DEF GoTo

\* A button of a line or of an item.
LEMMA SendKeepsCart ==
    ASSUME CartInv, NEW r \in Requests, NEW kind, NEW line, NEW quantity, Send(r, kind, line, quantity)
    PROVE  CartInv'
  <1>1. Shaped(Request(kind, line, quantity))
    BY RequestShape
  <1>2. \A x \in Requests : Shaped(req[x]) /\ GoesOn(req[x], req[x])
    BY DEF CartInv, GoesOn
  <1> QED BY <1>1, <1>2, SentKeeps, SendingKeepsCart DEF Send, CartInv

\* What leaves requests, cart and screen alone, or gives a reason.
LEMMA CartUntouched ==
    ASSUME CartInv, UNCHANGED req, UNCHANGED <<cart, shown, behind>> \/ behind' # "nothing"
    PROVE  CartInv'
  <1>1. CASE UNCHANGED <<cart, shown, behind>>
    <2>1. \A x \in Requests : Shaped(req'[x]) /\ GoesOn(req[x], req'[x])
      BY DEF CartInv, GoesOn
    <2> QED BY <1>1, <2>1, SendingKeepsCart DEF CartInv
  <1>2. CASE behind' # "nothing"
    BY <1>2 DEF CartInv, OnItsWay
  <1> QED BY <1>1, <1>2

\* Steps of the request in slot r alone.
LEMMA OneRequest ==
    ASSUME CartInv, NEW r \in Requests, NEW new, Shaped(new), req' = [req EXCEPT ![r] = new]
    PROVE  /\ req' = [x \in Requests |-> req'[x]]
           /\ \A x \in Requests : Shaped(req'[x])
           /\ req'[r] = new
           /\ \A x \in Requests : x # r => req'[x] = req[x]
  BY DEF CartInv

\* A handler writes, and answers with what it wrote.
LEMMA HandleKeepsCart == ASSUME CartInv, NEW r \in Requests, Handle(r) PROVE CartInv'
  <1>0. UNCHANGED <<shown, behind>>
    BY DEF Handle
  <1>1. CASE Accepts(req[r])
    <2> DEFINE new == Outcome(req[r], "answered", View(cart'))
    <2>1. req' = [req EXCEPT ![r] = new]
      BY <1>1 DEF Handle, CartInv
    <2>2. Shaped(new) /\ new.stage = "answered" /\ new.view = View(cart')
      BY OutcomeShape
    <2>3. View(cart').lines = cart'
      BY DEF View
    <2> HIDE DEF new
    <2>4. (Brings(req[r]))'
      BY <2>1, <2>2, <2>3, OneRequest DEF Brings
    <2>5. OnItsWay'
      BY <2>4 DEF OnItsWay
    <2> QED BY <2>1, <2>2, <2>5, OneRequest DEF CartInv
  <1>2. CASE ~Accepts(req[r])
    <2> DEFINE new == Outcome(req[r], "failed", NoCart)
    <2>1. req' = [req EXCEPT ![r] = new] /\ cart' = cart /\ req[r].stage = "sent"
      BY <1>2 DEF Handle, CartInv
    <2>2. Shaped(new) /\ new.stage = "failed" /\ new.kind = req[r].kind
      BY OutcomeShape
    <2> HIDE DEF new
    <2>3. \A x \in Requests : Brings(req[x]) => (Brings(req[x]))'
      BY <2>1, <2>2, OneRequest DEF Brings
    <2>4. OnItsWay'
      BY <1>0, <2>1, <2>3 DEF CartInv, OnItsWay
    <2> QED BY <2>1, <2>2, <2>4, OneRequest DEF CartInv
  <1> QED BY <1>1, <1>2

\* A request is lost with its reason, and a fetch that failed gives its own later.
LEMMA LoseKeepsCart == ASSUME CartInv, NEW r \in Requests, Lose(r) PROVE CartInv'
  <1> DEFINE new == Outcome(req[r], "failed", NoCart)
  <1>1. /\ req' = [req EXCEPT ![r] = new] /\ UNCHANGED <<cart, shown>>
        /\ req[r].stage \in {"sent", "answered"}
        /\ behind' = IF req[r].stage = "answered" THEN "lost" ELSE behind
    BY DEF Lose, CartInv
  <1>2. Shaped(new) /\ new.stage = "failed" /\ new.kind = req[r].kind
    BY OutcomeShape
  <1> HIDE DEF new
  <1>3. CASE req[r].stage = "answered"
    BY <1>1, <1>2, <1>3, OneRequest DEF CartInv, OnItsWay
  <1>4. CASE req[r].stage = "sent"
    <2>1. \A x \in Requests : Brings(req[x]) => (Brings(req[x]))'
      BY <1>1, <1>2, <1>4, OneRequest DEF Brings
    <2>2. OnItsWay'
      BY <1>1, <1>4, <2>1 DEF CartInv, OnItsWay
    <2> QED BY <1>1, <1>2, <2>2, OneRequest DEF CartInv
  <1> QED BY <1>1, <1>3, <1>4

\* An answer on the screen is the cart, or has been overtaken.
LEMMA ReplyKeepsCart == ASSUME CartInv, NEW r \in Requests, Reply(r) PROVE CartInv'
  <1>1. /\ shown' = req[r].view /\ cart' = cart
        /\ behind' = IF req[r].view.lines = cart THEN "nothing" ELSE "overtaken"
    BY DEF Reply
  <1>2. OnItsWay'
    BY <1>1 DEF OnItsWay
  <1>3. \E new : Shaped(new) /\ req' = [req EXCEPT ![r] = new]
    <2>1. CASE req' = [req EXCEPT ![r] = Idle]
      BY <2>1, IdleShape
    <2>2. CASE FetchIn([req EXCEPT ![r] = Idle], r)
      <3>1. req' = [[req EXCEPT ![r] = Idle] EXCEPT ![r] = Request("get", 0, 0)]
        BY <2>2 DEF FetchIn
      <3>2. req' = [req EXCEPT ![r] = Request("get", 0, 0)]
        BY <3>1 DEF CartInv
      <3> QED BY <3>2, RequestShape
    <2> QED BY <2>1, <2>2 DEF Reply
  <1> QED BY <1>2, <1>3, OneRequest DEF CartInv

\* A failure drops the cart with its reason, or nothing.
LEMMA FailureKeepsCart == ASSUME CartInv, NEW r \in Requests, ReplyFails(r) PROVE CartInv'
  <1>1. req' = [req EXCEPT ![r] = Idle] /\ req[r].stage = "failed" /\ cart' = cart
    BY DEF ReplyFails
  <1>2. OnItsWay'
    <2>1. CASE req[r].kind = "get"
      BY <2>1 DEF ReplyFails, OnItsWay
    <2>2. CASE req[r].kind # "get"
      <3>1. \A x \in Requests : Brings(req[x]) => (Brings(req[x]))'
        BY <1>1, <2>2, IdleShape, OneRequest DEF Brings
      <3> QED BY <1>1, <2>2, <3>1 DEF ReplyFails, CartInv, OnItsWay
    <2> QED BY <2>1, <2>2
  <1> QED BY <1>1, <1>2, IdleShape, OneRequest DEF CartInv

\* What the customer clicks only sends requests.
LEMMA CartClickStep == ASSUME CartInv, Click PROVE CartInv'
  <1>1. CASE CartClick
    <2>1. CASE VisitMenu
      BY <2>1, GoingKeepsCart DEF VisitMenu
    <2>2. CASE VisitCart \/ OpenDrawer
      BY <2>2, FetchingKeepsCart DEF VisitCart, GoAndFetch, OpenDrawer
    <2>3. CASE CloseDrawer
      BY <2>3, CartUntouched DEF CloseDrawer
    <2>4. ASSUME NEW r \in Requests, NEW v \in Variants,
                 Increase(r, v) \/ Decrease(r, v) \/ Remove(r, v) \/ Add(r, v, 1)
          PROVE  CartInv'
      BY <2>4, SendKeepsCart DEF Increase, Decrease, Remove, Add
    <2> QED BY <1>1, <2>1, <2>2, <2>3, <2>4 DEF CartClick
  <1>2. CASE VisitCheckout
    BY <1>2, FetchingKeepsCart DEF VisitCheckout, GoAndFetch
  <1>3. CASE ToggleRedeem \/ Submit \/ PayNow
    BY <1>3, CartUntouched DEF ToggleRedeem, Submit, PayNow, cartVars
  <1>4. CASE VisitOrder
    BY <1>4, GoingKeepsCart DEF VisitOrder
  <1> QED BY <1>1, <1>2, <1>3, <1>4 DEF Click

\* Every step of the tab and of the server keeps track of the cart.
LEMMA CartStep == CartInv /\ [Next]_vars => CartInv'
  <1> SUFFICES ASSUME CartInv, [Next]_vars PROVE CartInv'
    OBVIOUS
  <1>1. CASE Refuse \/ Initialize \/ Answered \/ Opened \/ LoseCall \/ Webhook \/ ScriptLoads \/ ScriptFails
    BY <1>1, CartUntouched DEF Refuse, Initialize, Answered, Opened, LoseCall, Webhook,
                               ScriptLoads, ScriptFails, cartVars
  <1>2. CASE Place
    <2>1. behind' = "sold" /\ req' = req
      BY <1>2 DEF Place
    <2> QED BY <2>1, CartUntouched
  <1>3. CASE Rejected
    <2>1. UNCHANGED <<cart, shown, behind>>
      BY <1>3 DEF Rejected
    <2>2. CASE GoTo("menu")
      BY <2>1, <2>2, GoingKeepsCart
    <2>3. CASE \E r \in Requests : FetchIn(req, r)
      BY <2>1, <2>3, FetchingKeepsCart
    <2>4. CASE UNCHANGED req
      BY <2>1, <2>4, CartUntouched
    <2> QED BY <1>3, <2>2, <2>3, <2>4 DEF Rejected
  <1>4. CASE Return
    BY <1>4, FetchingKeepsCart DEF Return
  <1>5. ASSUME NEW r \in Requests, Answer(r) \/ Lose(r) PROVE CartInv'
    BY <1>5, HandleKeepsCart, ReplyKeepsCart, FailureKeepsCart, LoseKeepsCart DEF Answer
  <1>6. ASSUME NEW v \in Variants, SwitchItem(v) PROVE CartInv'
    BY <1>6, CartUntouched DEF SwitchItem
  <1>7. ASSUME NEW f \in Froms, Succeed(f) \/ Cancel(f) PROVE CartInv'
    <2>1. PICK kept : ClosePopup(f, kept)
      BY <1>7 DEF Succeed, Cancel
    <2>2. CASE f = "checkout"
      <3>1. behind' = "cleared" /\ req' = Unmounted(req) /\ cart' = cart
        BY <2>1, <2>2 DEF ClosePopup, GoTo
      <3> QED BY <3>1, UnmountedKeeps DEF CartInv, OnItsWay
    <2>3. CASE f # "checkout"
      BY <2>1, <2>3, CartUntouched DEF ClosePopup
    <2> QED BY <2>2, <2>3
  <1>8. ASSUME NEW f \in Froms, PopupError(f) \/ StopLeaving(f) PROVE CartInv'
    BY <1>8, CartUntouched DEF PopupError, StopLeaving, cartVars
  <1>9. ASSUME NEW f \in Froms, Leave(f) PROVE CartInv'
    <2>1. behind' = "lost" /\ req' = [r \in Requests |-> Idle]
      BY <1>9 DEF Leave
    <2> QED BY <2>1, IdleShape DEF CartInv, OnItsWay
  <1>10. CASE UNCHANGED vars
    BY <1>10, CartUntouched DEF vars, cartVars
  <1> QED BY <1>1, <1>2, <1>3, <1>4, <1>5, <1>6, <1>7, <1>8, <1>9, <1>10, CartClickStep DEF Next, Progress

\* At first the cart is on its way.
LEMMA CartInitHolds == Init => CartInv
  <1> SUFFICES ASSUME Init PROVE CartInv
    OBVIOUS
  <1>1. PICK r \in Requests : req = [q \in Requests |-> IF q = r THEN Request("get", 0, 0) ELSE Idle]
    BY DEF Init, CartInit
  <1>2. Brings(req[r])
    BY <1>1, RequestShape DEF Brings
  <1> QED BY <1>1, <1>2, RequestShape, IdleShape DEF CartInv, OnItsWay

\* The cart is on the screen or on its way there.
THEOREM CartInvariant == Spec => []CartInv
  BY CartInitHolds, CartStep, PTL DEF Spec
-----------------------------------------------------------------------------
(* Results.                                                                *)

\* checkout/page.tsx, lib/paystack.ts: whatever becomes of popups, scripts and
\* pages, the payment codes are kept before a popup can come up and are removed
\* by a payment only.
THEOREM UnpaidStaysPayable == Spec => []PayableAgain
  <1>1. PayInv => PayableAgain
    BY DEF PayInv
  <1> QED BY <1>1, PayInvariant, PTL

\* lib/paystack.ts: nobody waits for a script that has already fired or failed.
THEOREM NobodyWaitsForDeadScript == Spec => []WaitsForLiveScript
  <1>1. PayInv => WaitsForLiveScript
    BY DEF PayInv
  <1> QED BY <1>1, PayInvariant, PTL

\* CartContext: for any number of requests that overtake each other, a cart with
\* nothing under way is on the screen as the server has it, or a reason is known
\* why it is not.
THEOREM CartComesToTheScreen == Spec => []CartOnScreenIsCurrent
  <1>1. CartInv => CartOnScreenIsCurrent
    <2> SUFFICES ASSUME CartInv, Quiet, behind = "nothing" PROVE shown.lines = cart
      BY DEF CartOnScreenIsCurrent
    <2>1. \A r \in Requests : ~Brings(req[r])
      BY IdleShape DEF Quiet, Brings
    <2> QED BY <2>1 DEF CartInv, OnItsWay
  <1> QED BY <1>1, CartInvariant, PTL
-----------------------------------------------------------------------------
(* Types, and the flags of the pages.                                      *)

Quantities == [Variants -> 0..MaxQuantity]

\* What a request asks for, and what it comes back with.
Typed(q) == q.quantity \in Nat /\ q.view.lines \in Quantities /\ q.view.dead \subseteq Variants

Fetching(requests) == \E r \in Requests : requests[r].kind = "get"

CartTypes ==
    /\ cart \in Quantities
    /\ shown.lines \in Quantities /\ shown.dead \subseteq Variants
    /\ onMenu \subseteq Variants
    /\ loading \in BOOLEAN /\ drawer \in BOOLEAN /\ behind \in Reasons
    /\ \A r \in Requests : Typed(req[r])
    /\ loading => Fetching(req)

PageTypes ==
    /\ page \in Pages
    /\ order \in {"none", "pending_payment", "paid", "cancelled"} /\ call \in Calls
    /\ visit \/ keyUsed \/ redeem => page = "checkout"
    /\ retry => page = "order"

\* Requests that change: they keep their types, and a fetch stays one.
KeepsTypes(old, new) ==
    /\ \A r \in Requests : Typed(new[r])
    /\ Fetching(old) => Fetching(new)

\* No cart is one with no lines.
LEMMA NoCartTyped == NoCart.lines \in Quantities /\ NoCart.dead \subseteq Variants
  BY CartAssumption DEF NoCart, Quantities

\* A free slot asks for nothing and brings no cart.
LEMMA IdleTyped == Typed(Idle)
  <1>1. Idle.quantity = 0 /\ Idle.view = NoCart
    BY DEF Idle
  <1> QED BY <1>1, NoCartTyped DEF Typed

\* A request that is sent brings no cart yet.
LEMMA RequestTyped ==
    ASSUME NEW kind, NEW line, NEW quantity \in Nat PROVE Typed(Request(kind, line, quantity))
  <1>1. /\ Request(kind, line, quantity).quantity = quantity
        /\ Request(kind, line, quantity).view = NoCart
    BY DEF Request
  <1> QED BY <1>1, NoCartTyped DEF Typed

\* What is left of a request has the cart it was answered with.
LEMMA OutcomeTyped ==
    ASSUME NEW q, NEW stage, NEW view, view.lines \in Quantities, view.dead \subseteq Variants
    PROVE  Typed(Outcome(q, stage, view))
  <1>1. Outcome(q, stage, view).quantity = 0 /\ Outcome(q, stage, view).view = view
    BY DEF Outcome
  <1> QED BY <1>1 DEF Typed

\* Leaving an item's page changes no request but for its caller.
LEMMA UnmountedTyped ==
    ASSUME CartInv, CartTypes PROVE KeepsTypes(req, Unmounted(req))
  <1>1. ASSUME NEW r \in Requests
        PROVE  /\ Unmounted(req)[r].kind = req[r].kind /\ Unmounted(req)[r].quantity = req[r].quantity
               /\ Unmounted(req)[r].view = req[r].view
    <2> DEFINE q == req[r]
    <2>1. q = [kind |-> q.kind, line |-> q.line, quantity |-> q.quantity, stage |-> q.stage,
               view |-> q.view, mounted |-> q.mounted]
      BY DEF CartInv, Shaped
    <2>2. Unmounted(req)[r] = [q EXCEPT !.mounted = FALSE]
      BY DEF Unmounted
    <2> QED BY <2>1, <2>2
  <1> QED BY <1>1 DEF CartTypes, Typed, KeepsTypes, Fetching

\* A slot that is idle, or ends here, takes another request.
LEMMA SlotTyped ==
    ASSUME NEW old, NEW base, base = [r \in Requests |-> base[r]], KeepsTypes(old, base),
           NEW r \in Requests, NEW new, Typed(new), new.kind = "get" \/ base[r].kind # "get"
    PROVE  LET after == [base EXCEPT ![r] = new]
           IN  KeepsTypes(old, after) /\ (new.kind = "get" => Fetching(after))
  <1> DEFINE after == [base EXCEPT ![r] = new]
  <1>1. after[r] = new /\ \A x \in Requests \ {r} : after[x] = base[x]
    OBVIOUS
  <1> HIDE DEF after
  <1>2. \A x \in Requests : Typed(after[x])
    BY <1>1 DEF KeepsTypes
  <1>3. Fetching(base) \/ new.kind = "get" => Fetching(after)
    BY <1>1 DEF Fetching
  <1> QED BY <1>2, <1>3 DEF KeepsTypes, after

\* fetchCart blocks the lines, with a request that will release them.
LEMMA FetchTyped ==
    ASSUME CartInv, CartTypes, NEW r \in Requests, FetchIn(req, r) \/ FetchIn(Unmounted(req), r)
    PROVE  KeepsTypes(req, req') /\ Fetching(req') /\ loading' = TRUE
  <1>1. KeepsTypes(req, req) /\ req = [x \in Requests |-> req[x]]
    BY DEF CartInv, CartTypes, KeepsTypes
  <1>2. KeepsTypes(req, Unmounted(req)) /\ Unmounted(req) = [x \in Requests |-> Unmounted(req)[x]]
    BY UnmountedTyped, UnmountedKeeps
  <1>3. PICK base \in {req, Unmounted(req)} : req' = [base EXCEPT ![r] = Request("get", 0, 0)]
    BY DEF FetchIn
  <1>4. Typed(Request("get", 0, 0)) /\ Request("get", 0, 0).kind = "get"
    BY RequestTyped, RequestShape
  <1>5. loading' = TRUE
    BY DEF FetchIn
  <1> HIDE DEF KeepsTypes
  <1> QED BY <1>1, <1>2, <1>3, <1>4, <1>5, SlotTyped

\* A step that sends requests, or that the cart has no part in.
LEMMA CartTypesKept ==
    ASSUME CartTypes, UNCHANGED <<cart, onMenu>>,
           shown' \in {shown, NoCart}, behind' \in Reasons, drawer' \in BOOLEAN,
           KeepsTypes(req, req'), loading' \in {loading, FALSE} \/ (loading' = TRUE /\ Fetching(req'))
    PROVE  CartTypes'
  <1>1. shown'.lines \in Quantities /\ shown'.dead \subseteq Variants
    BY NoCartTyped DEF CartTypes
  <1>2. loading' \in BOOLEAN /\ (loading' => Fetching(req'))
    <2>1. CASE loading' = loading
      BY <2>1 DEF CartTypes, KeepsTypes, Fetching
    <2>2. CASE loading' = FALSE
      BY <2>2
    <2>3. CASE loading' = TRUE /\ Fetching(req')
      BY <2>3
    <2> QED BY <2>1, <2>2, <2>3
  <1> QED BY <1>1, <1>2 DEF CartTypes, KeepsTypes, Fetching, Typed

\* Steps the cart has no part in, but for the drawer and the reason.
LEMMA CartTypesUntouched ==
    ASSUME CartTypes, UNCHANGED <<cart, onMenu, shown, loading, req>>, behind' \in Reasons, drawer' \in BOOLEAN
    PROVE  CartTypes'
  BY CartTypesKept DEF CartTypes, KeepsTypes

\* Steps of the request in slot r alone.
LEMMA OneTyped ==
    ASSUME CartInv, CartTypes, NEW r \in Requests, NEW new, Typed(new), req' = [req EXCEPT ![r] = new],
           new.kind = "get" \/ req[r].kind # "get"
    PROVE  KeepsTypes(req, req') /\ (new.kind = "get" => Fetching(req'))
  <1>1. req = [x \in Requests |-> req[x]] /\ KeepsTypes(req, req)
    BY DEF CartInv, CartTypes, KeepsTypes
  <1> QED BY <1>1, SlotTyped

\* A fetch that ends with its slot idle leaves nobody blocked.
LEMMA EndTyped ==
    ASSUME CartInv, CartTypes, NEW r \in Requests, NEW new, Typed(new), req' = [req EXCEPT ![r] = new]
    PROVE  \A x \in Requests : Typed(req'[x])
  <1>1. req = [x \in Requests |-> req[x]]
    BY DEF CartInv
  <1>2. \A x \in Requests : req'[x] = IF x = r THEN new ELSE req[x]
    BY <1>1
  <1> QED BY <1>2 DEF CartTypes

\* What a customer may ask for.
LEMMA SendTyped ==
    ASSUME CartInv, CartTypes, NEW r \in Requests, NEW kind, NEW line, NEW quantity \in Nat,
           Send(r, kind, line, quantity)
    PROVE  CartTypes'
  <1>1. Typed(Request(kind, line, quantity))
    BY RequestTyped
  <1>2. req' = [req EXCEPT ![r] = Request(kind, line, quantity)] /\ req[r].kind # "get"
    BY IdleShape DEF Send
  <1>3. KeepsTypes(req, req')
    BY <1>1, <1>2, OneTyped
  <1> QED BY <1>3, CartTypesKept DEF Send, CartTypes

\* A handler writes quantities, and answers with those it wrote.
LEMMA HandleTyped == ASSUME CartInv, CartTypes, NEW r \in Requests, Handle(r) PROVE CartTypes'
  <1>1. UNCHANGED <<onMenu, shown, loading, drawer, behind>>
    BY DEF Handle
  <1>2. cart' \in Quantities
    <2>1. CASE Accepts(req[r])
      <3> DEFINE written == Written(req[r])
      <3>1. cart' = written /\ \A v \in Variants : written[v] <= MaxQuantity
        BY <2>1 DEF Handle, Small
      <3>2. written \in [Variants -> Nat]
        <4> DEFINE line == req[r].line
                   quantity == req[r].quantity
        <4>1. quantity \in Nat /\ cart \in [Variants -> Nat]
          BY CartAssumption DEF CartTypes, Typed, Quantities
        <4>2. line \in Variants => cart[line] + quantity \in Nat
          BY <4>1
        <4>3. written \in {[cart EXCEPT ![line] = cart[line] + quantity],
                          [cart EXCEPT ![line] = quantity], [cart EXCEPT ![line] = 0], cart}
          BY DEF Written
        <4>4. ASSUME NEW n, line \in Variants => n \in Nat PROVE [cart EXCEPT ![line] = n] \in [Variants -> Nat]
          BY <4>1, <4>4
        <4> HIDE DEF written
        <4> QED BY <4>1, <4>2, <4>3, <4>4
      <3> HIDE DEF written
      <3> QED BY <3>1, <3>2, CartAssumption DEF Quantities
    <2>2. CASE ~Accepts(req[r])
      BY <2>2 DEF Handle, CartTypes
    <2> QED BY <2>1, <2>2
  <1>3. KeepsTypes(req, req')
    <2>1. PICK stage, view : /\ req' = [req EXCEPT ![r] = Outcome(req[r], stage, view)]
                             /\ view \in {View(cart'), NoCart}
      BY DEF Handle, CartInv
    <2>2. view.lines \in Quantities /\ view.dead \subseteq Variants
      BY <1>2, <2>1, NoCartTyped DEF View
    <2>3. Typed(Outcome(req[r], stage, view)) /\ Outcome(req[r], stage, view).kind = req[r].kind
      BY <2>2, OutcomeTyped, OutcomeShape
    <2> QED BY <2>1, <2>3, OneTyped
  <1> QED BY <1>1, <1>2, <1>3 DEF CartTypes, KeepsTypes, Fetching, Typed

\* A fetch that is lost is still one, until its failure is met.
LEMMA LoseTyped == ASSUME CartInv, CartTypes, NEW r \in Requests, Lose(r) PROVE CartTypes'
  <1>1. req' = [req EXCEPT ![r] = Outcome(req[r], "failed", NoCart)]
    BY DEF Lose, CartInv
  <1>2. /\ Typed(Outcome(req[r], "failed", NoCart))
        /\ Outcome(req[r], "failed", NoCart).kind = req[r].kind
    BY NoCartTyped, OutcomeTyped, OutcomeShape
  <1>3. KeepsTypes(req, req')
    BY <1>1, <1>2, OneTyped
  <1>4. behind' \in Reasons
    BY DEF Lose, CartTypes, Reasons
  <1> QED BY <1>3, <1>4, CartTypesKept DEF Lose, CartTypes

\* The lines are blocked on after an answer only when it was not a fetch's.
LEMMA ReplyTyped == ASSUME CartInv, CartTypes, NEW r \in Requests, Reply(r) PROVE CartTypes'
  <1>1. /\ UNCHANGED <<cart, onMenu>> /\ behind' \in Reasons /\ drawer' \in BOOLEAN
        /\ shown'.lines \in Quantities /\ shown'.dead \subseteq Variants
    BY DEF Reply, CartTypes, Typed, Reasons
  <1>2. CASE req[r].kind = "add" /\ ~drawer
    <2>1. req' = [[req EXCEPT ![r] = Idle] EXCEPT ![r] = Request("get", 0, 0)] /\ loading' = TRUE
      BY <1>2 DEF Reply, FetchIn
    <2>2. req' = [req EXCEPT ![r] = Request("get", 0, 0)]
      BY <2>1 DEF CartInv
    <2>3. Typed(Request("get", 0, 0)) /\ Request("get", 0, 0).kind = "get"
      BY RequestTyped, RequestShape
    <2>4. KeepsTypes(req, req') /\ Fetching(req')
      BY <2>2, <2>3, OneTyped
    <2> QED BY <1>1, <2>1, <2>4 DEF CartTypes, KeepsTypes, Fetching, Typed
  <1>3. CASE ~(req[r].kind = "add" /\ ~drawer)
    <2>1. req' = [req EXCEPT ![r] = Idle] /\ loading' = (loading /\ req[r].kind # "get")
      BY <1>3 DEF Reply
    <2>2. \A x \in Requests : Typed(req'[x])
      BY <2>1, IdleTyped, EndTyped
    <2>3. req[r].kind # "get" => KeepsTypes(req, req')
      BY <2>1, IdleTyped, OneTyped
    <2>4. loading' \in BOOLEAN /\ (loading' => Fetching(req'))
      BY <2>1, <2>3 DEF CartTypes, KeepsTypes
    <2> QED BY <1>1, <2>2, <2>4 DEF CartTypes, Fetching, Typed
  <1> QED BY <1>2, <1>3

\* A failed fetch releases the lines.
LEMMA FailureTyped == ASSUME CartInv, CartTypes, NEW r \in Requests, ReplyFails(r) PROVE CartTypes'
  <1>1. req' = [req EXCEPT ![r] = Idle] /\ UNCHANGED <<cart, onMenu, drawer>>
    BY DEF ReplyFails
  <1>2. \A x \in Requests : Typed(req'[x])
    BY <1>1, IdleTyped, EndTyped
  <1>3. CASE req[r].kind = "get"
    <2>1. shown' = NoCart /\ loading' = FALSE /\ behind' = "lost"
      BY <1>3 DEF ReplyFails
    <2> QED BY <1>1, <1>2, <2>1, NoCartTyped DEF CartTypes, Typed, Reasons
  <1>4. CASE req[r].kind # "get"
    <2>1. KeepsTypes(req, req')
      BY <1>1, <1>4, IdleTyped, OneTyped
    <2> QED BY <1>1, <1>4, <2>1, CartTypesKept DEF ReplyFails, CartTypes
  <1> QED BY <1>3, <1>4

\* A page that fetches nothing.
LEMMA GoingTyped ==
    ASSUME CartInv, CartTypes, NEW p, GoTo(p), UNCHANGED <<cart, onMenu, drawer>>,
           shown' \in {shown, NoCart}, behind' \in Reasons
    PROVE  CartTypes'
  <1>1. KeepsTypes(req, req') /\ loading' = loading
    BY UnmountedTyped DEF GoTo
  <1> QED BY <1>1, CartTypesKept DEF CartTypes

\* And one that fetches, or an opened drawer.
LEMMA FetchingTyped ==
    ASSUME CartInv, CartTypes, NEW r \in Requests, FetchIn(req, r) \/ FetchIn(Unmounted(req), r),
           UNCHANGED <<cart, onMenu, shown, behind>>, drawer' \in BOOLEAN
    PROVE  CartTypes'
  <1>1. KeepsTypes(req, req') /\ Fetching(req') /\ loading' = TRUE
    BY FetchTyped
  <1> QED BY <1>1, CartTypesKept DEF CartTypes

\* What the customer clicks asks for a quantity, for a fetch or for nothing.
LEMMA ClickTyped == ASSUME CartInv, CartTypes, Click PROVE CartTypes'
  <1>1. CASE CartClick
    <2>1. CASE VisitMenu
      BY <2>1, GoingTyped DEF VisitMenu, CartTypes
    <2>2. CASE VisitCart \/ OpenDrawer
      BY <2>2, FetchingTyped DEF VisitCart, GoAndFetch, OpenDrawer, CartTypes
    <2>3. CASE CloseDrawer
      BY <2>3, CartTypesUntouched DEF CloseDrawer, CartTypes
    <2>4. ASSUME NEW r \in Requests, NEW v \in Variants,
                 Increase(r, v) \/ Decrease(r, v) \/ Remove(r, v) \/ Add(r, v, 1)
          PROVE  CartTypes'
      <3>1. shown.lines[v] \in Nat
        BY CartAssumption DEF CartTypes, Quantities
      <3>2. PICK kind, quantity : Send(r, kind, v, quantity) /\ quantity \in Nat
        BY <2>4, <3>1 DEF Increase, Decrease, Remove, Add
      <3> QED BY <3>2, SendTyped
    <2> QED BY <1>1, <2>1, <2>2, <2>3, <2>4 DEF CartClick
  <1>2. CASE VisitCheckout
    BY <1>2, FetchingTyped DEF VisitCheckout, GoAndFetch
  <1>3. CASE ToggleRedeem \/ Submit \/ PayNow
    BY <1>3, CartTypesUntouched DEF ToggleRedeem, Submit, PayNow, cartVars, CartTypes
  <1>4. CASE VisitOrder
    BY <1>4, GoingTyped DEF VisitOrder, CartTypes
  <1> QED BY <1>1, <1>2, <1>3, <1>4 DEF Click

\* Every step keeps the types of the cart and of its requests.
LEMMA CartTypesStep == ASSUME CartInv, CartTypes, [Next]_vars PROVE CartTypes'
  <1>1. CASE Refuse \/ Initialize \/ Answered \/ Opened \/ LoseCall \/ Webhook \/ ScriptLoads \/ ScriptFails
    BY <1>1, CartTypesUntouched DEF Refuse, Initialize, Answered, Opened, LoseCall, Webhook,
                                    ScriptLoads, ScriptFails, cartVars, CartTypes
  <1>2. CASE Place
    <2>1. cart' \in Quantities /\ behind' \in Reasons /\ UNCHANGED <<onMenu, shown, loading, drawer, req>>
      BY <1>2, CartAssumption DEF Place, Quantities, Reasons
    <2> QED BY <2>1 DEF CartTypes, Typed, Fetching
  <1>3. CASE Rejected
    <2>1. UNCHANGED <<cart, onMenu, shown, behind>> /\ drawer' \in BOOLEAN
      BY <1>3 DEF Rejected, CartTypes
    <2>2. CASE GoTo("menu") /\ UNCHANGED drawer
      BY <2>1, <2>2, GoingTyped DEF CartTypes
    <2>3. CASE \E r \in Requests : FetchIn(req, r)
      BY <2>1, <2>3, FetchingTyped
    <2>4. CASE UNCHANGED <<req, loading>>
      BY <2>1, <2>4, CartTypesUntouched DEF CartTypes
    <2> QED BY <1>3, <2>2, <2>3, <2>4 DEF Rejected
  <1>4. CASE Return
    BY <1>4, FetchingTyped DEF Return, CartTypes
  <1>5. ASSUME NEW r \in Requests, Answer(r) \/ Lose(r) PROVE CartTypes'
    BY <1>5, HandleTyped, ReplyTyped, FailureTyped, LoseTyped DEF Answer
  <1>6. ASSUME NEW v \in Variants, SwitchItem(v) PROVE CartTypes'
    <2>1. onMenu' \subseteq Variants /\ UNCHANGED <<cart, shown, loading, drawer, req, behind>>
      BY <1>6 DEF SwitchItem, CartTypes
    <2> QED BY <2>1 DEF CartTypes, Typed, Fetching
  <1>7. ASSUME NEW f \in Froms, Succeed(f) \/ Cancel(f) PROVE CartTypes'
    <2>1. PICK kept : ClosePopup(f, kept)
      BY <1>7 DEF Succeed, Cancel
    <2>2. CASE f = "checkout"
      BY <2>1, <2>2, GoingTyped DEF ClosePopup, CartTypes, Reasons
    <2>3. CASE f # "checkout"
      BY <2>1, <2>3, CartTypesUntouched DEF ClosePopup, CartTypes
    <2> QED BY <2>2, <2>3
  <1>8. ASSUME NEW f \in Froms, PopupError(f) \/ StopLeaving(f) PROVE CartTypes'
    BY <1>8, CartTypesUntouched DEF PopupError, StopLeaving, cartVars, CartTypes
  <1>9. ASSUME NEW f \in Froms, Leave(f) PROVE CartTypes'
    <2>1. /\ shown' = NoCart /\ behind' = "lost" /\ drawer' = FALSE /\ loading' = FALSE
          /\ UNCHANGED <<cart, onMenu>> /\ \A r \in Requests : req'[r] = Idle
      BY <1>9 DEF Leave
    <2> QED BY <2>1, NoCartTyped, IdleTyped DEF CartTypes, Typed, Reasons
  <1>10. CASE UNCHANGED vars
    BY <1>10, CartTypesUntouched DEF vars, cartVars, CartTypes
  <1> QED BY <1>1, <1>2, <1>3, <1>4, <1>5, <1>6, <1>7, <1>8, <1>9, <1>10, ClickTyped DEF Next, Progress

\* Whoever leaves the checkout page leaves its visit, and whoever leaves the page
\* of the order its codes.
LEMMA PageLeft ==
    ASSUME NEW kept, LeavePage(kept), PageTypes, page' \in Pages, order' = order, call' \in {call, "idle"}
    PROVE  PageTypes'
  <1>1. visit' \/ keyUsed' \/ redeem' => page' = "checkout"
    BY DEF LeavePage, PageTypes
  <1>2. retry' => page' = "order"
    BY DEF LeavePage
  <1> QED BY <1>1, <1>2 DEF PageTypes, Calls

\* Steps that leave the page where it is.
LEMMA PageStays ==
    ASSUME PageTypes, UNCHANGED <<page, retry>>,
           order' \in {order, "pending_payment", "paid", "cancelled"}, call' \in Calls,
           visit' => visit, keyUsed' => keyUsed \/ visit, redeem' => redeem
    PROVE  PageTypes'
  BY DEF PageTypes

\* Whatever is clicked, the flags stay with their page.
LEMMA PageTypesClick == ASSUME PageTypes, Click PROVE PageTypes'
  <1>1. CASE CartClick /\ UNCHANGED <<order, call, payTab>> /\ LeavePage(stash)
    <2>1. page' \in Pages
      BY <1>1 DEF CartClick, VisitMenu, VisitCart, OpenDrawer, CloseDrawer, Increase, Decrease, Remove, Add,
                  Send, GoTo, GoAndFetch, PageTypes, Pages
    <2> QED BY <1>1, <2>1, PageLeft
  <1>2. CASE VisitCheckout
    BY <1>2, PageLeft DEF VisitCheckout, GoAndFetch, Pages
  <1>3. CASE ToggleRedeem \/ Submit
    BY <1>3 DEF ToggleRedeem, Submit, Form, PageTypes, cartVars, Calls
  <1>4. CASE VisitOrder
    BY <1>4, PageLeft DEF VisitOrder, GoTo, Pages
  <1>5. CASE PayNow
    BY <1>5 DEF PayNow, PageTypes, cartVars, payPage
  <1> QED BY <1>1, <1>2, <1>3, <1>4, <1>5 DEF Click

\* Every step keeps the flags with their page.
LEMMA PageTypesStep == ASSUME PageTypes, [Next]_vars PROVE PageTypes'
  <1>1. CASE Refuse \/ LoseCall \/ Webhook
    BY <1>1, PageStays DEF Refuse, Refusals, LoseCall, Webhook, cartVars, payPage, PageTypes, Calls, Codes
  <1>2. CASE Place \/ Initialize
    BY <1>2, PageStays DEF Place, Initialize, cartVars, payPage, Calls, Codes
  <1>3. CASE Rejected
    <2>1. CASE GoTo("menu") /\ LeavePage(stash)
      BY <1>3, <2>1, PageLeft DEF Rejected, GoTo, Pages
    <2>2. CASE ~(GoTo("menu") /\ LeavePage(stash))
      <3>1. /\ UNCHANGED <<page, order, keyUsed, retry>> /\ call' \in Calls /\ visit' = FALSE
            /\ redeem' = (redeem /\ ~(call = "insufficient_points" /\ visit))
        BY <1>3, <2>2 DEF Rejected, Calls
      <3> QED BY <3>1 DEF PageTypes
    <2> QED BY <2>1, <2>2
  <1>4. CASE Answered \/ Opened
    BY <1>4, PageStays DEF Answered, Opened, cartVars, payPage, Calls
  <1>5. CASE Return
    BY <1>5, PageLeft DEF Return, Pages
  <1>6. CASE UNCHANGED payVars /\ UNCHANGED page
    BY <1>6 DEF payVars, payPage, PageTypes
  <1>7. CASE ScriptLoads \/ ScriptFails
    BY <1>7 DEF ScriptLoads, ScriptFails, cartVars, payPage, PageTypes
  <1>8. ASSUME NEW f \in Froms, Succeed(f) \/ Cancel(f) PROVE PageTypes'
    <2>1. PICK kept : ClosePopup(f, kept)
      BY <1>8 DEF Succeed, Cancel
    <2>2. CASE f = "checkout"
      BY <2>1, <2>2, PageLeft DEF ClosePopup, GoTo, Pages
    <2>3. CASE f # "checkout"
      BY <2>1, <2>3 DEF ClosePopup, payPage, PageTypes
    <2> QED BY <2>2, <2>3
  <1>9. ASSUME NEW f \in Froms, PopupError(f) \/ StopLeaving(f) PROVE PageTypes'
    BY <1>9 DEF PopupError, StopLeaving, cartVars, payPage, PageTypes
  <1>10. ASSUME NEW f \in Froms, Leave(f) PROVE PageTypes'
    BY <1>10, PageLeft DEF Leave, Pages
  <1>11. ASSUME NEW r \in Requests, Answer(r) \/ Lose(r) PROVE UNCHANGED page
    BY <1>11 DEF Answer, Handle, Reply, ReplyFails, Lose
  <1>12. ASSUME NEW v \in Variants, SwitchItem(v) PROVE UNCHANGED page
    BY <1>12 DEF SwitchItem
  <1>13. CASE UNCHANGED vars
    BY <1>13, <1>6 DEF vars, cartVars
  <1> QED BY <1>1, <1>2, <1>3, <1>4, <1>5, <1>6, <1>7, <1>8, <1>9, <1>10, <1>11, <1>12, <1>13, PageTypesClick
          DEF Next, Progress

\* A tab that has just loaded the menu.
LEMMA TypesInit == Init => CartTypes /\ PageTypes
  <1> SUFFICES ASSUME Init PROVE CartTypes /\ PageTypes
    OBVIOUS
  <1>1. PICK r \in Requests : req = [q \in Requests |-> IF q = r THEN Request("get", 0, 0) ELSE Idle]
    BY DEF Init, CartInit
  <1>2. Typed(Request("get", 0, 0)) /\ Request("get", 0, 0).kind = "get" /\ Typed(Idle)
    BY RequestTyped, RequestShape, IdleTyped
  <1>3. (\A x \in Requests : Typed(req[x])) /\ Fetching(req)
    BY <1>1, <1>2 DEF Fetching
  <1>4. cart \in Quantities
    BY CartAssumption DEF Init, CartInit, Quantities
  <1>5. PageTypes
    BY DEF Init, CartInit, PageTypes, Pages, Calls
  <1> QED BY <1>3, <1>4, <1>5, NoCartTyped DEF Init, CartInit, CartTypes, Reasons

\* CartContext, checkout/page.tsx, orders/[id]/page.tsx: the lines of the cart are
\* blocked only while a fetch runs, a visit is remembered only by the mounted
\* page, and only a page that has read payment codes offers to pay again.
THEOREM ShopTypeCorrect == Spec => []ShopTypeOK
  <1>1. CartInv /\ PayInv /\ CartTypes /\ PageTypes /\ [Next]_vars => (CartTypes /\ PageTypes)'
    BY CartTypesStep, PageTypesStep
  <1>2. CartInv /\ PayInv /\ CartTypes /\ PageTypes => ShopTypeOK
    <2> SUFFICES ASSUME PayInv, CartTypes, PageTypes PROVE ShopTypeOK
      OBVIOUS
    <2>1. script \in {"absent", "loading", "fired"}
      BY DEF PayInv, LoaderHasScript
    <2> QED BY <2>1 DEF ShopTypeOK, PayInv, PayTypes, LoaderHasScript, RetryHasCodes, CartTypes, PageTypes,
                        Quantities, Fetching
  <1> QED BY <1>1, <1>2, TypesInit, CartInvariant, PayInvariant, PTL DEF Spec
=============================================================================
