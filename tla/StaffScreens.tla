---------------------------- MODULE StaffScreens ----------------------------
(***************************************************************************)
(* The staff console over one order: the queue with its cards, the page of *)
(* the order and the requests their buttons send.  The order moves under   *)
(* the screens: the webhook, other staff and the same person's earlier     *)
(* clicks reach the server in any order.                                   *)
(***************************************************************************)
EXTENDS Domain, QueryCache, Pages, FiniteSets

CONSTANTS
    Fulfilment,     \* of the order
    MaxClicks       \* how many requests of its buttons are under way at most (a bound)

ASSUME StaffAssumption ==
    /\ MaxClicks \in Nat
    /\ Fulfilment \in Fulfilments
    /\ {"staff-orders", "staff-order"} \subseteq Queries
    /\ Values["staff-orders"] = Statuses \cup {"unlisted"}
    /\ Values["staff-order"] = Statuses

VARIABLES
    status,         \* orders.status
    own,            \* whether the order is the staff member's own
    change,         \* change[b]: the request of button b
    seen            \* (history) the last change the mounted page of the order was told of

staffVars == <<status, own, change, seen>>

OrderQueries == {"staff-orders", "staff-order"}
Buttons == {"card", "advance", "cancel"}
Steps == {"idle", "sent", "done", "refused"}
NoStatus == "none"
NoChange == [to |-> NoStatus, step |-> "idle"]

-----------------------------------------------------------------------------
(* What the screens show of the lifecycle.                                 *)

\* Mutant: one table for both fulfilments.
NextStatusOfDelivery(f) ==
    [s \in Statuses |->
        IF s = "paid" THEN "preparing"
        ELSE IF s = "preparing" THEN "ready"
        ELSE IF s = "ready" THEN "out_for_delivery"
        ELSE IF s = "out_for_delivery" THEN "completed"
        ELSE NoStatus]

\* NEXT_STATUS.
NextStatus(f) ==
    [s \in Statuses |->
        IF s = "paid" THEN "preparing"
        ELSE IF s = "preparing" THEN "ready"
        ELSE IF s = "ready" THEN (IF f = "pickup" THEN "completed" ELSE "out_for_delivery")
        ELSE IF s = "out_for_delivery" /\ f = "delivery" THEN "completed"
        ELSE NoStatus]

\* The columns of the board; an order in none of them looks the same to it,
\* whatever its status.
Active == {"paid", "preparing", "ready", "out_for_delivery"}
Listed(s) == IF s \in Active THEN s ELSE "unlisted"

\* Where an order is on its way; a cancelled one has come to its end too.
Progress(s) ==
    CASE s = "pending_payment" -> 1 [] s = "paid" -> 2 [] s = "preparing" -> 3
      [] s = "ready" -> 4 [] s = "out_for_delivery" -> 5 [] OTHER -> 6

\* The card of the order on the queue.
Board == IF page = "queue" THEN query["staff-orders"].data ELSE NoData

\* The page of the order, which shows an error instead of what it has.
Detail == IF page = "detail" /\ ~query["staff-order"].failed THEN query["staff-order"].data ELSE NoData

\* Where the card's button would move the order.
CardTarget == IF Board \in Active THEN NextStatus(Fulfilment)[Board] ELSE NoStatus

\* Where the two buttons of the page would.
DetailTarget(b) ==
    CASE b = "advance" /\ Detail \in Active -> NextStatus(Fulfilment)[Detail]
      [] b = "cancel" /\ Detail \in {"paid", "preparing"} -> "cancelled"
      [] OTHER -> NoStatus

Target(b) == IF b = "card" THEN CardTarget ELSE DetailTarget(b)
-----------------------------------------------------------------------------
(* Pages.                                                                  *)

\* The query a page shows.
Shows(p, q) == <<p, q>> \in {<<"queue", "staff-orders">>, <<"detail", "staff-order">>}

\* A page mounts.
Visit(p) ==
    /\ page # p
    /\ page' = p /\ seen' = NoStatus
    /\ \E expired \in BOOLEAN :
          query' = [q \in Queries |-> IF Shows(p, q) THEN Mounted(query[q], expired) ELSE query[q]]
    /\ UNCHANGED <<status, own, change>>

VisitQueue == Visit("queue")

\* The arrow of a card, or the address.
VisitDetail == Visit("detail")

\* The window gets the focus, or the network comes back, and what the page shows
\* has expired.
Focus ==
    /\ \E q \in OrderQueries :
          /\ Shows(page, q) /\ ~Fetching(q)
          /\ query' = [query EXCEPT ![q] = Joining(@)]
    /\ UNCHANGED <<staffVars, page>>

\* Mutant: the interval is not set again once there are orders to show.
IntervalOnce ==
    /\ page = "queue" /\ ~Fetching("staff-orders") /\ ~Loaded("staff-orders")
    /\ query' = [query EXCEPT !["staff-orders"] = Joining(@)]
    /\ UNCHANGED <<staffVars, page>>

\* refetchInterval: every 30 seconds, while the queue is on the screen and the tab
\* visible.
Interval ==
    /\ page = "queue" /\ ~Fetching("staff-orders")
    /\ query' = [query EXCEPT !["staff-orders"] = Joining(@)]
    /\ UNCHANGED <<staffVars, page>>

\* "Refresh", disabled while the queue is fetched.
Refresh ==
    /\ page = "queue" /\ ~Fetching("staff-orders")
    /\ query' = [query EXCEPT !["staff-orders"] = Replacing(@)]
    /\ UNCHANGED <<staffVars, page>>
-----------------------------------------------------------------------------
(* Buttons.                                                                *)

\* A button blocks itself while its request runs, and so does here one of a page
\* that was left meanwhile and has come back (a bound).
Click(b) ==
    /\ change[b] = NoChange
    /\ Cardinality({other \in Buttons : change[other] # NoChange}) < MaxClicks
    /\ Target(b) # NoStatus
    /\ change' = [change EXCEPT ![b] = [to |-> Target(b), step |-> "sent"]]
    /\ UNCHANGED <<status, own, seen, page, query>>

\* handleAdminTransition.
Transition(b) ==
    /\ change[b].step = "sent"
    /\ IF CanTransition(Fulfilment, status, change[b].to)
       THEN status' = change[b].to /\ change' = [change EXCEPT ![b].step = "done"]
       ELSE /\ status' = status
            /\ change' = [change EXCEPT ![b].step = IF IsNoOp(status, change[b].to) THEN "done" ELSE "refused"]
    /\ UNCHANGED <<own, seen, page, query>>

\* The request or its answer is lost.
LoseChange(b) ==
    /\ MayFail
    /\ change[b].step \in {"sent", "done"}
    /\ change' = [change EXCEPT ![b] = NoChange]
    /\ UNCHANGED <<status, own, seen, page, query>>

\* Mutant: only the queue is told of a transition.
ToldQueueOnly(b) ==
    [q \in Queries |-> IF q = "staff-orders" THEN Invalidated(query[q], Shows(page, q)) ELSE query[q]]

\* What an answered button makes of the cache: onAdvanced refetches the queue,
\* a transition of the page invalidates both, a cancellation the order.
Told(b) ==
    [q \in Queries |->
        CASE b = "card" /\ q = "staff-orders" -> Replacing(query[q])
          [] b = "advance" /\ q \in OrderQueries -> Invalidated(query[q], Shows(page, q))
          [] b = "cancel" /\ q = "staff-order" -> Invalidated(query[q], Shows(page, q))
          [] OTHER -> query[q]]

Done(b) ==
    /\ change[b].step = "done"
    /\ query' = Told(b)
    /\ seen' = IF b # "card" /\ page = "detail" THEN change[b].to ELSE seen
    /\ change' = [change EXCEPT ![b] = NoChange]
    /\ UNCHANGED <<status, own, page>>

\* "Could not update order status": nothing is fetched again.
Denied(b) ==
    /\ change[b].step = "refused"
    /\ change' = [change EXCEPT ![b] = NoChange]
    /\ UNCHANGED <<status, own, seen, page, query>>
-----------------------------------------------------------------------------
(* The server.                                                             *)

\* GET /admin/orders; GET /orders/{id}, which knows the caller's own orders
\* only.
AnswerTo(q) ==
    CASE q = "staff-orders" -> Listed(status)
      [] q = "staff-order" -> IF own THEN status ELSE Refused

ServeOrder(q) == Serve(q, AnswerTo(q)) /\ UNCHANGED <<staffVars, page>>

ArriveOrder(q) == Arrive(q) /\ UNCHANGED <<staffVars, page>>
FailOrder(q) == Fail(q) /\ UNCHANGED <<staffVars, page>>

\* The webhook or other staff move the order on.
Elsewhere(to) ==
    /\ CanTransition(Fulfilment, status, to)
    /\ status' = to
    /\ UNCHANGED <<own, change, seen, page, query>>
-----------------------------------------------------------------------------
StaffInit ==
    /\ status \in {"pending_payment", "paid"}
    /\ own \in BOOLEAN
    /\ change = [b \in Buttons |-> NoChange]
    /\ seen = NoStatus

StaffStep ==
    \/ VisitQueue \/ VisitDetail \/ Focus \/ Interval \/ Refresh
    \/ \E b \in Buttons : Click(b) \/ Transition(b) \/ LoseChange(b) \/ Done(b) \/ Denied(b)
    \/ \E q \in OrderQueries : ServeOrder(q) \/ ArriveOrder(q) \/ FailOrder(q)
    \/ \E to \in Statuses : Elsewhere(to)
-----------------------------------------------------------------------------
(* Properties.                                                             *)

\* Types, and what hangs together: requests are those a button can make, and
\* only the page of the order remembers what it was told.
StaffTypeOK ==
    /\ status \in Statuses /\ own \in BOOLEAN
    /\ \A q \in OrderQueries : query[q] \in Query(q)
    /\ change \in [Buttons -> [to : Statuses \cup {NoStatus}, step : Steps]]
    /\ \A b \in Buttons : change[b].step = "idle" <=> change[b].to = NoStatus
    /\ seen \in Statuses \cup {NoStatus} /\ (seen # NoStatus => page = "detail")
    /\ Loaded("staff-order") => own

\* getNextStatus against handleAdminTransition: the server refuses an advance only
\* when the order has already come as far by another way.
RefusedWasOvertaken ==
    \A b \in {"card", "advance"} :
        change[b].step = "refused" => Progress(status) >= Progress(change[b].to) /\ status # change[b].to

\* transitionMutation, cancelMutation: a page of the order that was told of its
\* own change shows nothing earlier, unless it is fetching the order or says that
\* it could not.
OwnChangeIsShown ==
    page = "detail" /\ seen # NoStatus /\ Loaded("staff-order")
        => \/ Progress(query["staff-order"].data) >= Progress(seen)
           \/ Fetching("staff-order") \/ query["staff-order"].failed
=============================================================================
