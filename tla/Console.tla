------------------------------- MODULE Console -------------------------------
(***************************************************************************)
(* A browser tab: its way through the guards (Visits), the orders of the   *)
(* staff (StaffScreens) and the menu editor (MenuScreens), over one page   *)
(* and one cache of queries.  The three parts share nothing else, so a tab *)
(* is looked at in one of them, its desk, from a page load on; at the two  *)
(* desks of the console an admin has signed in before (bounds).            *)
(***************************************************************************)
EXTENDS StaffScreens, MenuScreens, Visits

ConsoleQueries == OrderQueries \cup MenuQueries
ASSUME ConsoleAssumption == Queries = ConsoleQueries

VARIABLES
    desk            \* the part of the console the tab is looked at in

Desks == {"doors", "orders", "menu"}
vars == <<desk, page, query, staffVars, menuVars, visitVars>>

\* A page load asks for what the page shows.
PageLoad(shown) == query = [q \in Queries |-> IF q \in shown THEN Started(Unasked) ELSE Unasked]

SignedInAdmin ==
    /\ user = "admin" /\ restoring = FALSE
    /\ pending = Nowhere /\ forced = FALSE /\ cut = FALSE
    /\ tab = "login" /\ form = "none" /\ leaving = "none"

Init ==
    \/ /\ desk = "doors"
       /\ VisitInit /\ PageLoad({})
       /\ StaffInit /\ status = "paid" /\ own = FALSE
       /\ MenuInit /\ item = Absent
    \/ /\ desk = "orders"
       /\ SignedInAdmin
       /\ page \in {"queue", "detail"} /\ PageLoad({q \in OrderQueries : Shows(page, q)})
       /\ StaffInit
       /\ MenuInit /\ item = Absent
    \/ /\ desk = "menu"
       /\ SignedInAdmin
       /\ page = "menu" /\ PageLoad(MenuQueries)
       /\ StaffInit /\ status = "paid" /\ own = FALSE
       /\ MenuInit

AtTheDoors(A) == desk = "doors" /\ A /\ UNCHANGED <<desk, query, staffVars, menuVars>>
AtTheOrders(A) == desk = "orders" /\ A /\ UNCHANGED <<desk, menuVars, visitVars>>
AtTheMenu(A) == desk = "menu" /\ A /\ UNCHANGED <<desk, page, staffVars, visitVars>>

Next == AtTheDoors(VisitStep) \/ AtTheOrders(StaffStep) \/ AtTheMenu(MenuStep)

Spec == Init /\ [][Next]_vars

\* The router finishes what it has begun, the session is restored or not; the
\* interval fires (the tab is visible), and requests that are sent again and again are answered in the
\* end.  Nobody has to click.
Fairness ==
    /\ WF_vars(AtTheDoors(PageArrives)) /\ WF_vars(AtTheDoors(Restore))
    /\ WF_vars(AtTheOrders(Interval))
    /\ SF_vars(AtTheOrders(ServeOrder("staff-orders")))
    /\ SF_vars(AtTheOrders(ArriveOrder("staff-orders")))

FairSpec == Spec /\ Fairness
-----------------------------------------------------------------------------
(* Properties.                                                             *)

\* The types of the three parts, see there.
ConsoleTypeOK == desk \in Desks /\ StaffTypeOK /\ MenuTypeOK /\ VisitTypeOK

\* "Refreshes every 30 seconds": a queue that stays on the screen of a visible tab
\* comes to list the order where it is, unless the order moves on first.
QueueCatchesUp ==
    desk = "orders" /\ page = "queue"
        ~> page # "queue" \/ query["staff-orders"].data = Listed(status)
=============================================================================
