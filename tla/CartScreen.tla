----------------------------- MODULE CartScreen -----------------------------
(***************************************************************************)
(* The cart as one customer sees it: the CartContext of a browser tab, the *)
(* pages and the drawer that show it, and the server's cart behind them.   *)
(* Requests overlap: buttons are only blocked while a fetch runs, handlers *)
(* answer in any order and answers arrive in any order.  A line is named   *)
(* by its variant, of which a cart has at most one.                        *)
(***************************************************************************)
EXTENDS Naturals, FiniteSets

CONSTANTS
    Variants,
    Requests,       \* cart requests that may be under way at once (a bound)
    MaxQuantity,    \* what the steppers stop at: 20
    MayFail         \* whether requests and answers get lost

ASSUME CartAssumption == MaxQuantity \in Nat \ {0} /\ MayFail \in BOOLEAN

VARIABLES
    cart,           \* cart_lines: the quantity of each variant, 0 without a line
    onMenu,         \* variants whose item is available
    shown,          \* CartContext.cart: the last answer, or NoCart
    loading,        \* CartContext.isLoading
    drawer,         \* CartContext.isOpen
    page,           \* the page of the tab
    req,            \* req[r]: the request, Idle, or its answer
    behind          \* (history) why the screen may differ from the server

cartVars == <<cart, onMenu, shown, loading, drawer, page, req, behind>>

NoCart == [lines |-> [v \in Variants |-> 0], dead |-> {}]
Idle == [kind |-> "idle", line |-> 0, quantity |-> 0, stage |-> "idle", view |-> NoCart, mounted |-> FALSE]

\* What a cart request returns: the lines, and those no longer available.
View(lines) == [lines |-> lines, dead |-> {v \in Variants \ onMenu : lines[v] > 0}]
Lines(view) == {v \in Variants : view.lines[v] > 0}

\* useCart: hasUnavailableLines, canCheckout.
CanCheckout == Lines(shown) # {} /\ shown.dead = {}
-----------------------------------------------------------------------------
(* Requests of the tab.                                                    *)

Request(kind, line, quantity) ==
    [kind |-> kind, line |-> line, quantity |-> quantity, stage |-> "sent",
     view |-> NoCart, mounted |-> kind = "add"]

\* The item page is left: what it waits for goes on without it.
Unmounted(requests) == [r \in Requests |-> [requests[r] EXCEPT !.mounted = FALSE]]

\* fetchCart, in the free slot r of requests.
FetchIn(requests, r) ==
    /\ requests[r] = Idle
    /\ req' = [requests EXCEPT ![r] = Request("get", 0, 0)]
    /\ loading' = TRUE

\* What is left of a request to its caller.
Outcome(q, stage, view) ==
    [kind |-> q.kind, line |-> 0, quantity |-> 0, stage |-> stage, view |-> view, mounted |-> q.mounted]

Send(r, kind, line, quantity) ==
    /\ req[r] = Idle
    /\ req' = [req EXCEPT ![r] = Request(kind, line, quantity)]
    /\ UNCHANGED <<cart, onMenu, shown, loading, drawer, page, behind>>

\* A page with nothing to fetch: the menu and an item's page.
GoTo(p) ==
    /\ page' = p
    /\ req' = Unmounted(req)
    /\ UNCHANGED loading

\* The cart page and the checkout page fetch when they mount.
GoAndFetch(p) ==
    /\ page' = p
    /\ \E r \in Requests : FetchIn(Unmounted(req), r)

VisitMenu == page # "menu" /\ GoTo("menu") /\ UNCHANGED <<cart, onMenu, shown, drawer, behind>>
VisitCart == page # "cart" /\ GoAndFetch("cart") /\ UNCHANGED <<cart, onMenu, shown, drawer, behind>>

OpenDrawer ==
    /\ ~drawer
    /\ drawer' = TRUE
    /\ \E r \in Requests : FetchIn(req, r)
    /\ UNCHANGED <<cart, onMenu, shown, page, behind>>

\* The cross, the backdrop, Escape, "Keep browsing", "Continue Shopping".
CloseDrawer ==
    /\ drawer
    /\ drawer' = FALSE
    /\ UNCHANGED <<cart, onMenu, shown, loading, page, req, behind>>

\* The buttons of a cart line.
LineButtons(v) ==
    IF loading \/ v \notin Lines(shown) \/ ~(drawer \/ page = "cart") THEN {}
    ELSE {"decrease", "remove"} \cup (IF shown.lines[v] < MaxQuantity THEN {"increase"} ELSE {})

\* A click sends what follows from the quantity on the screen.
Increase(r, v) == "increase" \in LineButtons(v) /\ Send(r, "update", v, shown.lines[v] + 1)

Decrease(r, v) ==
    /\ "decrease" \in LineButtons(v)
    /\ IF shown.lines[v] > 1 THEN Send(r, "update", v, shown.lines[v] - 1) ELSE Send(r, "remove", v, 0)

Remove(r, v) == "remove" \in LineButtons(v) /\ Send(r, "remove", v, 0)

\* "Add to Cart" of an item page, disabled while its own request runs.  The
\* server lets a line grow past the stepper's limit, this model does not.
Add(r, v, quantity) ==
    /\ page = "menu"
    /\ cart[v] + quantity <= MaxQuantity
    /\ \A q \in Requests : ~(req[q].kind = "add" /\ req[q].mounted)
    /\ Send(r, "add", v, quantity)
-----------------------------------------------------------------------------
(* The server.  A handler writes and then reads the view it answers with;  *)
(* here it does both at once, since reading later only makes a view newer. *)

Accepts(q) ==
    CASE q.kind = "add" -> q.line \in onMenu
      [] q.kind \in {"update", "remove"} -> cart[q.line] > 0
      [] OTHER -> TRUE

Written(q) ==
    CASE q.kind = "add" -> [cart EXCEPT ![q.line] = @ + q.quantity]
      [] q.kind = "update" -> [cart EXCEPT ![q.line] = q.quantity]
      [] q.kind = "remove" -> [cart EXCEPT ![q.line] = 0]
      [] OTHER -> cart

\* The same bound where two requests add to one line.
Small(lines) == \A v \in Variants : lines[v] <= MaxQuantity

Handle(r) ==
    /\ req[r].stage = "sent"
    /\ IF Accepts(req[r])
       THEN /\ Small(Written(req[r]))
            /\ cart' = Written(req[r])
            /\ req' = [req EXCEPT ![r] = Outcome(@, "answered", View(cart'))]
       ELSE cart' = cart /\ req' = [req EXCEPT ![r] = Outcome(@, "failed", NoCart)]
    /\ UNCHANGED <<onMenu, shown, loading, drawer, page, behind>>

\* The request or its answer is lost; the caller meets an error either way.
Lose(r) ==
    /\ MayFail
    /\ req[r].stage \in {"sent", "answered"}
    /\ req' = [req EXCEPT ![r] = Outcome(@, "failed", NoCart)]
    /\ behind' = IF req[r].stage = "answered" THEN "lost" ELSE behind
    /\ UNCHANGED <<cart, onMenu, shown, loading, drawer, page>>

\* Staff switch an item on or off.
SwitchItem(v) ==
    /\ onMenu' = IF v \in onMenu THEN onMenu \ {v} ELSE onMenu \cup {v}
    /\ UNCHANGED <<cart, shown, loading, drawer, page, req, behind>>
-----------------------------------------------------------------------------
(* Answers.                                                                *)

\* Mutant: only a fetch sets the state, a change keeps the old lines.
ReplyOfFetchOnly(r) ==
    /\ req[r].stage = "answered"
    /\ shown' = IF req[r].kind = "get" THEN req[r].view ELSE shown
    /\ behind' = IF req[r].view.lines = cart THEN "nothing" ELSE "overtaken"
    /\ loading' = (loading /\ req[r].kind # "get")
    /\ req' = [req EXCEPT ![r] = Idle]
    /\ drawer' = drawer
    /\ UNCHANGED <<cart, onMenu, page>>

\* Every answer replaces the state.  After an add the drawer opens, and opening
\* it fetches.
Reply(r) ==
    /\ req[r].stage = "answered"
    /\ shown' = req[r].view
    /\ behind' = IF req[r].view.lines = cart THEN "nothing" ELSE "overtaken"
    /\ IF req[r].kind = "add" /\ ~drawer
       THEN drawer' = TRUE /\ FetchIn([req EXCEPT ![r] = Idle], r)
       ELSE /\ drawer' = drawer
            /\ loading' = (loading /\ req[r].kind # "get")
            /\ req' = [req EXCEPT ![r] = Idle]
    /\ UNCHANGED <<cart, onMenu, page>>

\* Mutant: isLoading is only reset by a fetch that succeeds.
ReplyFailsStillLoading(r) ==
    /\ req[r].stage = "failed"
    /\ IF req[r].kind = "get"
       THEN shown' = NoCart /\ behind' = "lost"
       ELSE UNCHANGED <<shown, behind>>
    /\ req' = [req EXCEPT ![r] = Idle]
    /\ UNCHANGED <<cart, onMenu, loading, drawer, page>>

\* A failed fetch empties the state; a failed change leaves it and shows a toast.
ReplyFails(r) ==
    /\ req[r].stage = "failed"
    /\ IF req[r].kind = "get"
       THEN shown' = NoCart /\ loading' = FALSE /\ behind' = "lost"
       ELSE UNCHANGED <<shown, loading, behind>>
    /\ req' = [req EXCEPT ![r] = Idle]
    /\ UNCHANGED <<cart, onMenu, drawer, page>>
-----------------------------------------------------------------------------
\* A signed-in customer loads the menu; CartButton fetches what the cart holds.
CartInit ==
    /\ cart \in [Variants -> {0, 1}]
    /\ onMenu = Variants
    /\ shown = NoCart
    /\ drawer = FALSE
    /\ page = "menu"
    /\ behind = "nothing"
    /\ loading = TRUE
    /\ \E r \in Requests : req = [q \in Requests |-> IF q = r THEN Request("get", 0, 0) ELSE Idle]

CartClick ==
    \/ VisitMenu \/ VisitCart \/ OpenDrawer \/ CloseDrawer
    \/ \E r \in Requests, v \in Variants :
          Increase(r, v) \/ Decrease(r, v) \/ Remove(r, v) \/ Add(r, v, 1)

Answer(r) == Handle(r) \/ Reply(r) \/ ReplyFails(r)

CartNext ==
    \/ CartClick
    \/ \E r \in Requests : Answer(r) \/ Lose(r)
    \/ \E v \in Variants : SwitchItem(v)
-----------------------------------------------------------------------------
(* Properties.                                                             *)

Quiet == \A r \in Requests : req[r] = Idle

Reasons == {"nothing", "lost", "overtaken", "sold", "cleared"}

\* CartContext: once every request has been answered, the lines on the screen
\* are the lines of the cart, or an answer was lost, an older answer arrived
\* after a newer one, or a checkout took the lines (see CheckoutScreen).
CartOnScreenIsCurrent ==
    Quiet /\ behind = "nothing" => shown.lines = cart
=============================================================================
