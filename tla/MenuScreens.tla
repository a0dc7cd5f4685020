----------------------------- MODULE MenuScreens -----------------------------
(***************************************************************************)
(* The menu editor of the admins over one item: the list, the row of the   *)
(* item with its toggle, edit form and sizes, the form for a new item, and *)
(* what their requests do to the catalogue.  The page stays mounted and    *)
(* nobody else edits the menu (bounds).                                    *)
(***************************************************************************)
EXTENDS Naturals, QueryCache, FiniteSets

CONSTANTS
    Absent,         \* no such item
    MaxAsks         \* how many requests are under way at most (a bound)

VARIABLES
    item,           \* the row of items, its item_variants with it, or Absent
    token,          \* the access token of the tab
    ask,            \* ask[k]: the request of kind k
    row,            \* what the row of the item shows besides the item
    addForm,        \* the form for a new item
    behind          \* (history) whether a change has happened that no fetch will show

menuVars == <<item, token, ask, row, addForm, behind>>

Item == [available : BOOLEAN, size : BOOLEAN]
MenuQueries == {"admin-categories", "admin-items"}
Kinds == {"show", "hide", "save", "delete", "create", "add-size", "delete-size"}
MenuSteps == {"idle", "sent", "done"}
NewRow == [expanded |-> FALSE, editing |-> FALSE]

ASSUME MenuAssumption ==
    /\ MaxAsks \in Nat
    /\ Absent \notin Item
    /\ MenuQueries \subseteq Queries
    /\ Values["admin-categories"] = {"some"}
    /\ Values["admin-items"] = Item \cup {Absent}
-----------------------------------------------------------------------------
(* The page.                                                               *)

\* The row of the item: there are none until both queries have data.
Listing == query["admin-items"].data
RowShown(entries) ==
    /\ entries["admin-categories"].data # NoData
    /\ entries["admin-items"].data \notin {NoData, Absent}

\* The pencil opens or closes the edit form, the arrow the lower part of the row,
\* "Cancel" the edit form.
Pencil == row' = [expanded |-> TRUE, editing |-> ~row.editing]
Expand == row' = [row EXCEPT !.expanded = ~@]
CancelEdit == row.expanded /\ row.editing /\ row' = [row EXCEPT !.editing = FALSE]

RowButtons ==
    /\ RowShown(query)
    /\ Pencil \/ Expand \/ CancelEdit
    /\ UNCHANGED <<item, token, ask, addForm, behind, query>>

\* "Add item" above the list, and "Cancel" in its place.  The form takes its
\* category when it is mounted, and none when there are none yet.  It is opened
\* when there is no item on the list (a bound).
ShowAddItem ==
    /\ \/ addForm # "closed" /\ addForm' = "closed"
       \/ /\ addForm = "closed" /\ Listing \in {NoData, Absent}
          /\ addForm' = IF Loaded("admin-categories") THEN "ready" ELSE "blank"
    /\ UNCHANGED <<item, token, ask, row, behind, query>>

\* Another category is chosen.
ChooseCategory ==
    /\ addForm = "blank" /\ Loaded("admin-categories")
    /\ addForm' = "ready"
    /\ UNCHANGED <<item, token, ask, row, behind, query>>

\* The window gets the focus and what the page shows has expired; categories that
\* have been read stay as they are (a bound).
MenuFocus ==
    /\ \E q \in MenuQueries :
          /\ ~Fetching(q) /\ (q = "admin-items" \/ ~Loaded(q))
          /\ query' = [query EXCEPT ![q] = Joining(@)]
    /\ UNCHANGED menuVars
-----------------------------------------------------------------------------
(* Requests.                                                               *)

\* What the row and the forms have a button for.  There is one item and one size
\* of it: a new item is added to an empty menu, and who has its form open leaves
\* the row alone (bounds).
RowOffers(k) ==
    /\ RowShown(query) /\ addForm = "closed"
    /\ CASE k = "show" -> ~Listing.available /\ ask["hide"] = "idle"
         [] k = "hide" -> Listing.available /\ ask["show"] = "idle"
         [] k = "save" -> row.expanded /\ row.editing
         [] k = "delete" -> TRUE
         [] k = "add-size" -> row.expanded /\ ~Listing.size
         [] k = "delete-size" -> row.expanded /\ Listing.size
         [] OTHER -> FALSE

FormOffers(k) ==
    /\ k = "create" /\ addForm = "ready"
    /\ item = Absent /\ Listing \in {NoData, Absent}
    /\ \A other \in Kinds : ask[other] = "idle"

\* A button blocks itself while its request runs.
Ask(k) ==
    /\ ask[k] = "idle"
    /\ Cardinality({other \in Kinds : ask[other] # "idle"}) < MaxAsks
    /\ RowOffers(k) \/ FormOffers(k)
    /\ ask' = [ask EXCEPT ![k] = "sent"]
    /\ UNCHANGED <<item, token, row, addForm, behind, query>>

\* What a request makes of the catalogue: the values it may leave, none when it is
\* refused.  The fields an edit writes are not told apart.
Effect(k) ==
    IF k = "create" THEN {[available |-> TRUE, size |-> FALSE]}
    ELSE IF item = Absent THEN {}
    ELSE CASE k = "show" -> {[item EXCEPT !.available = TRUE]}
           [] k = "hide" -> {[item EXCEPT !.available = FALSE]}
           [] k = "save" -> {item}
           [] k = "delete" -> {Absent}
           [] k = "add-size" -> {[item EXCEPT !.size = TRUE]}
           [] k = "delete-size" -> IF item.size THEN {[item EXCEPT !.size = FALSE]} ELSE {}

\* The server takes a request, with a new token when the old one had expired.  A
\* refusal only makes the page say so, and is taken for answered at once.
Handle(k) ==
    /\ ask[k] = "sent"
    /\ token' = "fresh"
    /\ IF Effect(k) = {}
       THEN item' = item /\ ask' = [ask EXCEPT ![k] = "idle"]
       ELSE item' \in Effect(k) /\ ask' = [ask EXCEPT ![k] = "done"]
    /\ UNCHANGED <<row, addForm, behind, query>>

\* The request or its answer is lost; the page does not fetch what has changed.
LoseAsk(k) ==
    /\ MayFail
    /\ ask[k] \in {"sent", "done"}
    /\ behind' = (behind \/ ask[k] = "done")
    /\ ask' = [ask EXCEPT ![k] = "idle"]
    /\ UNCHANGED <<item, token, row, addForm, query>>

\* What has been read before the first list arrives is what comes.
TooEarly == ~Loaded("admin-items") /\ query["admin-items"].fetch \notin {NoFetch, Sent}

\* Mutant: a size is added without the list being fetched again.
AckedWithoutSize(k) ==
    /\ ask[k] = "done"
    /\ query' = IF k = "add-size" THEN query ELSE [query EXCEPT !["admin-items"] = Invalidated(@, TRUE)]
    /\ behind' = (behind \/ TooEarly)
    /\ row' = IF k = "save" THEN [row EXCEPT !.editing = FALSE] ELSE row
    /\ addForm' = IF k = "create" THEN "closed" ELSE addForm
    /\ ask' = [ask EXCEPT ![k] = "idle"]
    /\ UNCHANGED <<item, token>>

\* Every success fetches the list again, unless it is still fetched for the first
\* time: then what the server has read by now is what comes.  A saved edit closes
\* its form, a new item the one for new items.
Acked(k) ==
    /\ ask[k] = "done"
    /\ query' = [query EXCEPT !["admin-items"] = Invalidated(@, TRUE)]
    /\ behind' = (behind \/ TooEarly)
    /\ row' = IF k = "save" THEN [row EXCEPT !.editing = FALSE] ELSE row
    /\ addForm' = IF k = "create" THEN "closed" ELSE addForm
    /\ ask' = [ask EXCEPT ![k] = "idle"]
    /\ UNCHANGED <<item, token>>
-----------------------------------------------------------------------------
(* Reading.                                                                *)

\* GET /items reads sold-out items for staff only, and takes who comes with an
\* expired token for a visitor.
Readable == IF item # Absent /\ ~item.available /\ token = "expired" THEN Absent ELSE item

ServeItems ==
    /\ Serve("admin-items", Readable)
    /\ behind' = FALSE
    /\ UNCHANGED <<item, token, ask, row, addForm>>

ServeCategories == Serve("admin-categories", "some") /\ UNCHANGED menuVars

\* Mutant: the state of the rows is kept by the page.
ArriveMenuKeepingRow(q) == Arrive(q) /\ UNCHANGED menuVars

\* A row that goes takes its state with it.
ArriveMenu(q) ==
    /\ Arrive(q)
    /\ row' = IF RowShown(query') THEN row ELSE NewRow
    /\ UNCHANGED <<item, token, ask, addForm, behind>>

FailMenu(q) == Fail(q) /\ UNCHANGED menuVars

\* The access token expires, while nothing is under way (a bound).
Expire ==
    /\ \A k \in Kinds : ask[k] = "idle"
    /\ ~Fetching("admin-items")
    /\ token' = "expired"
    /\ UNCHANGED <<item, ask, row, addForm, behind, query>>
-----------------------------------------------------------------------------
MenuInit ==
    /\ item \in Item \cup {Absent}
    /\ token = "fresh"
    /\ ask = [k \in Kinds |-> "idle"]
    /\ row = NewRow /\ addForm = "closed" /\ behind = FALSE

MenuStep ==
    \/ RowButtons \/ ShowAddItem \/ ChooseCategory \/ MenuFocus
    \/ \E k \in Kinds : Ask(k) \/ Handle(k) \/ LoseAsk(k) \/ Acked(k)
    \/ ServeItems \/ ServeCategories \/ Expire
    \/ \E q \in MenuQueries : ArriveMenu(q) \/ FailMenu(q)
-----------------------------------------------------------------------------
(* Properties.                                                             *)

\* Types, and what hangs together: a row that is not on the screen has no state,
\* and the toggle has one request.
MenuTypeOK ==
    /\ item \in Item \cup {Absent} /\ token \in {"fresh", "expired"}
    /\ \A q \in MenuQueries : query[q] \in Query(q)
    /\ ask \in [Kinds -> MenuSteps] /\ (ask["show"] = "idle" \/ ask["hide"] = "idle")
    /\ row \in [expanded : BOOLEAN, editing : BOOLEAN] /\ (RowShown(query) \/ row = NewRow)
    /\ addForm \in {"closed", "blank", "ready"} /\ behind \in BOOLEAN

\* invalidateQueries of the menu editor: when nothing is under way, the list has
\* the item as the catalogue does, whatever the order in which requests were sent,
\* handled and answered.  Known exceptions: an answer was lost or the first list
\* was still on its way (behind), the list could not be fetched, or it was fetched
\* with an expired token, which hides an item that is sold out.
ListIsTheMenu ==
    /\ \A k \in Kinds : ask[k] = "idle"
    /\ ~Fetching("admin-items") /\ Loaded("admin-items") /\ ~query["admin-items"].failed
    /\ ~behind
    => \/ Listing = item
       \/ Listing = Absent /\ ~item.available
=============================================================================
