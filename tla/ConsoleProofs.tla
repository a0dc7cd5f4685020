---------------------------- MODULE ConsoleProofs ----------------------------
(***************************************************************************)
(* The whole console, for either fulfilment and any number of requests     *)
(* under way.  The orders: a refused advance was overtaken, and a page     *)
(* shows its own change; both rest on one fact, that what a screen has     *)
(* read of an order never lies ahead of it.  The menu editor: a change     *)
(* that is not on the list has an answer to come that fetches the list.    *)
(***************************************************************************)
EXTENDS Console, TLAPS

\* The order has come as far as s, or further.
Reached(s) == s = status \/ Progress(s) < Progress(status)

Entries ==
    /\ query = [q \in Queries |-> query[q]]
    /\ \A q \in OrderQueries : query[q] \in Query(q)

Requests ==
    /\ change \in [Buttons -> [to : Statuses \cup {NoStatus}, step : Steps]]
    /\ \A b \in Buttons : change[b].step = "idle" <=> change[b].to = NoStatus

\* Only an order that is delivered goes out for delivery.
OnItsWay == status \in Statuses /\ (Fulfilment = "pickup" => status # "out_for_delivery")

\* What was read, or is being brought, the order has reached.
NothingAhead ==
    \A q \in OrderQueries : \A s \in Statuses :
        s = query[q].data \/ s = query[q].fetch => Reached(s)

\* An advance was asked for from a status the order has reached.
AskedFromThere ==
    \A b \in {"card", "advance"} :
        change[b].to # NoStatus =>
            \E s \in Active : Reached(s) /\ change[b].to = NextStatus(Fulfilment)[s]

\* What the server has said yes to has happened.
DoneIsReached == \A b \in Buttons : change[b].step = "done" => Reached(change[b].to)

\* The page's buttons are there once the order has been read, and it stays read.
AskedOfRead == \A b \in {"advance", "cancel"} : change[b].to # NoStatus => Loaded("staff-order")

\* What a page was told of has happened, and an answer under way knows of it.
ToldIsReached ==
    /\ seen \in Statuses \cup {NoStatus}
    /\ seen # NoStatus =>
          /\ desk # "doors" /\ Reached(seen)
          /\ \A s \in Statuses : s = query["staff-order"].fetch => Progress(s) >= Progress(seen)

ConsoleInv ==
    /\ Entries /\ Requests /\ OnItsWay /\ NothingAhead
    /\ AskedFromThere /\ DoneIsReached /\ AskedOfRead /\ ToldIsReached
    /\ RefusedWasOvertaken /\ OwnChangeIsShown
-----------------------------------------------------------------------------
(* The lifecycle.                                                          *)

\* How far along each status is.
LEMMA ProgressTable ==
    /\ Progress("pending_payment") = 1 /\ Progress("paid") = 2 /\ Progress("preparing") = 3
    /\ Progress("ready") = 4 /\ Progress("out_for_delivery") = 5
    /\ Progress("completed") = 6 /\ Progress("cancelled") = 6
  BY DEF Progress

\* The range of progress.
LEMMA ProgressIsNat == ASSUME NEW s \in Statuses PROVE Progress(s) \in 1..6
  BY ProgressTable DEF Statuses

\* Every legal transition leads onwards.
LEMMA TransitionsLeadOn ==
    ASSUME NEW f, NEW from, NEW to, CanTransition(f, from, to)
    PROVE  /\ from \in Statuses /\ to \in Statuses /\ f \in Fulfilments
           /\ Progress(from) < Progress(to)
           /\ f = "pickup" => to # "out_for_delivery"
  <1>1. /\ f \in Fulfilments /\ from \in Statuses /\ to \in Statuses
        /\ <<from, to>> \in CommonTransitions \cup FulfilmentTransitions(f)
    BY DEF CanTransition, AllowedTargets
  <1>2. CASE <<from, to>> \in CommonTransitions
    BY <1>1, <1>2, ProgressTable DEF CommonTransitions
  <1>3. CASE <<from, to>> \in FulfilmentTransitions(f)
    BY <1>1, <1>3, ProgressTable DEF FulfilmentTransitions, Fulfilments
  <1> QED BY <1>1, <1>2, <1>3

\* Where the screens' table leads from s is legal from s, and the next stop of
\* an order of this fulfilment.
LEMMA TableIsLegal ==
    ASSUME NEW s \in Active, NextStatus(Fulfilment)[s] # NoStatus
    PROVE  /\ NextStatus(Fulfilment)[s] \in Statuses
           /\ CanTransition(Fulfilment, s, NextStatus(Fulfilment)[s])
           /\ \A t \in Statuses :
                 /\ Progress(s) < Progress(t)
                 /\ Fulfilment = "pickup" => t # "out_for_delivery"
                 => Progress(NextStatus(Fulfilment)[s]) <= Progress(t)
  <1> DEFINE to == NextStatus(Fulfilment)[s]
  <1>1. Fulfilment \in {"pickup", "delivery"} /\ s \in Statuses
    BY StaffAssumption DEF Fulfilments, Active, Statuses
  <1>2. to = IF s = "paid" THEN "preparing"
             ELSE IF s = "preparing" THEN "ready"
             ELSE IF s = "ready" THEN (IF Fulfilment = "pickup" THEN "completed" ELSE "out_for_delivery")
             ELSE IF s = "out_for_delivery" /\ Fulfilment = "delivery" THEN "completed"
             ELSE NoStatus
    BY <1>1 DEF NextStatus
  <1>3. to \in Statuses
    BY <1>1, <1>2 DEF Active, Statuses
  <1>4. <<s, to>> \in CommonTransitions \cup FulfilmentTransitions(Fulfilment)
    BY <1>1, <1>2 DEF Active, CommonTransitions, FulfilmentTransitions
  <1>5. CanTransition(Fulfilment, s, to)
    <2>1. ~IsTerminal(s)
      BY DEF Active, IsTerminal
    <2> QED BY <1>1, <1>3, <1>4, <2>1 DEF CanTransition, AllowedTargets, Fulfilments
  <1>6. ASSUME NEW t \in Statuses, Progress(s) < Progress(t), Fulfilment = "pickup" => t # "out_for_delivery"
        PROVE  Progress(to) <= Progress(t)
    <2>1. CASE s = "paid"
      BY <1>2, <1>6, <2>1, ProgressTable DEF Statuses
    <2>2. CASE s = "preparing"
      BY <1>2, <1>6, <2>2, ProgressTable DEF Statuses
    <2>3. CASE s = "ready"
      BY <1>1, <1>2, <1>6, <2>3, ProgressTable DEF Statuses
    <2>4. CASE s = "out_for_delivery"
      BY <1>1, <1>2, <1>6, <2>4, ProgressTable DEF Statuses
    <2> QED BY <2>1, <2>2, <2>3, <2>4 DEF Active
  <1> QED BY <1>3, <1>5, <1>6

\* The order moving on leaves behind what it had reached.
LEMMA ReachedStays ==
    ASSUME NEW s \in Statuses, status \in Statuses, Reached(s),
           status' = status \/ CanTransition(Fulfilment, status, status')
    PROVE  Reached(s)'
  <1>1. CASE status' = status
    BY <1>1 DEF Reached
  <1>2. CASE CanTransition(Fulfilment, status, status')
    BY <1>2, TransitionsLeadOn, ProgressIsNat DEF Reached
  <1> QED BY <1>1, <1>2

-----------------------------------------------------------------------------
(* The cache.                                                              *)

\* What asking again makes of an entry: its data stay, its request too or it is
\* sent anew.
Again(entry, new) ==
    /\ new.data = entry.data
    /\ new.fetch = entry.fetch \/ new.fetch = Sent
    /\ new.failed = entry.failed \/ new.fetch = Sent

\* A fetch that starts keeps what has been read.
LEMMA StartedAgain ==
    ASSUME NEW q, NEW entry \in Query(q)
    PROVE  Started(entry) \in Query(q) /\ Again(entry, Started(entry)) /\ Started(entry).fetch = Sent
  BY DEF Query, Started, Again

\* So does one that joins the one under way.
LEMMA JoiningAgain ==
    ASSUME NEW q, NEW entry \in Query(q)
    PROVE  Joining(entry) \in Query(q) /\ Again(entry, Joining(entry))
  <1>1. CASE entry.fetch = NoFetch
    BY <1>1, StartedAgain DEF Joining
  <1>2. CASE entry.fetch # NoFetch
    BY <1>2 DEF Joining, Again
  <1> QED BY <1>1, <1>2

\* So does one that takes its place, and what has been read before is read anew.
LEMMA ReplacingAgain ==
    ASSUME NEW q, NEW entry \in Query(q)
    PROVE  /\ Replacing(entry) \in Query(q) /\ Again(entry, Replacing(entry))
           /\ entry.data # NoData => Replacing(entry).fetch = Sent
  <1>1. CASE entry.data = NoData
    BY <1>1, JoiningAgain DEF Replacing
  <1>2. CASE entry.data # NoData
    BY <1>2, StartedAgain DEF Replacing
  <1> QED BY <1>1, <1>2

\* So does a page that mounts.
LEMMA MountedAgain ==
    ASSUME NEW q, NEW entry \in Query(q), NEW expired \in BOOLEAN
    PROVE  Mounted(entry, expired) \in Query(q) /\ Again(entry, Mounted(entry, expired))
  <1>1. Mounted(entry, expired) = entry \/ Mounted(entry, expired) = Joining(entry)
    BY DEF Mounted
  <1> QED BY <1>1, JoiningAgain DEF Again

\* So does an invalidation, and what is shown is read anew.
LEMMA InvalidatedAgain ==
    ASSUME NEW q, NEW entry \in Query(q), NEW shown \in BOOLEAN
    PROVE  /\ Invalidated(entry, shown) \in Query(q) /\ Again(entry, Invalidated(entry, shown))
           /\ shown /\ entry.data # NoData => Invalidated(entry, shown).fetch = Sent
  <1> DEFINE marked == [entry EXCEPT !.invalid = TRUE]
  <1>1. /\ marked \in Query(q)
        /\ marked.data = entry.data /\ marked.fetch = entry.fetch /\ marked.failed = entry.failed
    BY DEF Query
  <1> HIDE DEF marked
  <1>2. Invalidated(entry, shown) = IF shown THEN Replacing(marked) ELSE marked
    BY DEF Invalidated, marked
  <1>3. CASE shown
    BY <1>1, <1>2, <1>3, ReplacingAgain DEF Again
  <1>4. CASE ~shown
    BY <1>1, <1>2, <1>4 DEF Again
  <1> QED BY <1>3, <1>4

-----------------------------------------------------------------------------
(* Steps.                                                                  *)

\* A page load has read nothing, and no button has been pressed.
LEMMA ConsoleInitHolds == Init => ConsoleInv
  <1> SUFFICES ASSUME Init PROVE ConsoleInv
    OBVIOUS
  <1>1. /\ status \in {"pending_payment", "paid"}
        /\ change = [b \in Buttons |-> NoChange] /\ seen = NoStatus
        /\ \E shown : PageLoad(shown)
    BY DEF Init, StaffInit
  <1>2. PICK shown : query = [q \in Queries |-> IF q \in shown THEN Started(Unasked) ELSE Unasked]
    BY <1>1 DEF PageLoad
  <1>3. ASSUME NEW q \in OrderQueries
        PROVE  query[q] \in Query(q) /\ query[q].data = NoData /\ query[q].fetch \in {NoFetch, Sent}
    <2>1. q \in Queries
      BY StaffAssumption DEF OrderQueries
    <2>2. Unasked \in Query(q) /\ Unasked.data = NoData /\ Unasked.fetch = NoFetch
      BY DEF Unasked, Query
    <2>3. Started(Unasked) \in Query(q) /\ Again(Unasked, Started(Unasked)) /\ Started(Unasked).fetch = Sent
      BY <2>2, StartedAgain
    <2>4. query[q] = Started(Unasked) \/ query[q] = Unasked
      BY <1>2, <2>1
    <2> QED BY <2>2, <2>3, <2>4 DEF Again
  <1>4. Entries
    BY <1>2, <1>3 DEF Entries
  <1>5. \A b \in Buttons : change[b].to = NoStatus /\ change[b].step = "idle"
    BY <1>1 DEF NoChange
  <1>6. Requests
    <2>1. NoChange \in [to : Statuses \cup {NoStatus}, step : Steps]
      BY DEF NoChange, Steps
    <2> QED BY <1>1, <1>5, <2>1 DEF Requests
  <1>7. OnItsWay
    BY <1>1 DEF OnItsWay, Statuses
  <1>8. NothingAhead
    <2>1. \A q \in OrderQueries : Statuses \subseteq Values[q] /\ q \in Queries
      BY StaffAssumption DEF OrderQueries
    <2> QED BY <1>3, <2>1, CacheAssumption DEF NothingAhead
  <1>9. Loaded("staff-order") = FALSE
    BY <1>3 DEF Loaded, OrderQueries
  <1> QED BY <1>1, <1>4, <1>5, <1>6, <1>7, <1>8, <1>9
          DEF ConsoleInv, AskedFromThere, DoneIsReached, AskedOfRead, ToldIsReached,
              RefusedWasOvertaken, OwnChangeIsShown, Buttons

\* Steps that only ask again and drop requests of buttons, and what they may
\* tell the page of.
LEMMA AskingAgain ==
    ASSUME ConsoleInv, UNCHANGED status,
           change' = [b \in Buttons |-> change'[b]],
           \A b \in Buttons : change'[b] = change[b] \/ change'[b] = NoChange,
           query' = [q \in Queries |-> query'[q]],
           \A q \in OrderQueries : query'[q] \in Query(q) /\ Again(query[q], query'[q]),
           \/ seen' = NoStatus
           \/ UNCHANGED <<page, seen, desk>>
           \/ /\ seen' \in Statuses /\ Reached(seen') /\ desk' # "doors"
              /\ query'["staff-order"].fetch = Sent
    PROVE  ConsoleInv'
  <1>0. /\ {"staff-orders", "staff-order"} = OrderQueries /\ Sent \notin Statuses /\ NoFetch # Sent
        /\ NoChange.to = NoStatus /\ NoChange.step = "idle"
        /\ NoChange \in [to : Statuses \cup {NoStatus}, step : Steps]
    BY StaffAssumption, CacheAssumption DEF OrderQueries, NoChange, Steps
  <1>1. Entries' /\ OnItsWay'
    BY DEF ConsoleInv, Entries, OnItsWay
  <1>2. Requests'
    <2>1. \A b \in Buttons : /\ change'[b] \in [to : Statuses \cup {NoStatus}, step : Steps]
                             /\ change'[b].step = "idle" <=> change'[b].to = NoStatus
      BY <1>0 DEF ConsoleInv, Requests
    <2> QED BY <2>1 DEF Requests
  <1>3. \A s : Reached(s) <=> Reached(s)'
    BY DEF Reached
  <1>4. NothingAhead'
    BY <1>0, <1>3 DEF ConsoleInv, NothingAhead, Again
  <1>5. AskedFromThere'
    BY <1>0, <1>3 DEF ConsoleInv, AskedFromThere, Buttons
  <1>6. DoneIsReached' /\ RefusedWasOvertaken'
    BY <1>0 DEF ConsoleInv, DoneIsReached, RefusedWasOvertaken, Reached, Buttons
  <1>7. AskedOfRead'
    BY <1>0 DEF ConsoleInv, AskedOfRead, Again, Loaded, Buttons
  <1>8. ToldIsReached'
    BY <1>0, <1>3 DEF ConsoleInv, ToldIsReached, Again, Reached
  <1>9. OwnChangeIsShown'
    BY <1>0 DEF ConsoleInv, OwnChangeIsShown, Again, Loaded, Fetching
  <1> QED BY <1>1, <1>2, <1>4, <1>5, <1>6, <1>7, <1>8, <1>9 DEF ConsoleInv

\* The request of a button goes, refused or lost.
LEMMA RequestEnds ==
    ASSUME ConsoleInv, NEW b \in Buttons, change' = [change EXCEPT ![b] = NoChange],
           UNCHANGED <<status, seen, page, query, desk>>
    PROVE  ConsoleInv'
  <1>1. /\ change' = [x \in Buttons |-> change'[x]]
        /\ \A x \in Buttons : change'[x] = change[x] \/ change'[x] = NoChange
    BY DEF ConsoleInv, Requests
  <1>2. /\ query' = [q \in Queries |-> query'[q]]
        /\ \A q \in OrderQueries : query'[q] \in Query(q) /\ Again(query[q], query'[q])
    BY DEF ConsoleInv, Entries, Again
  <1> QED BY <1>1, <1>2, AskingAgain

\* Steps of the requests of buttons that do not touch the cache.
LEMMA RequestMoves ==
    ASSUME ConsoleInv, UNCHANGED <<query, page, desk, seen>>,
           status' = status \/ CanTransition(Fulfilment, status, status'),
           Requests', AskedFromThere', DoneIsReached', AskedOfRead', RefusedWasOvertaken'
    PROVE  ConsoleInv'
  <1>1. OnItsWay'
    BY TransitionsLeadOn DEF ConsoleInv, OnItsWay
  <1>2. \A s \in Statuses : Reached(s) => Reached(s)'
    BY ReachedStays DEF ConsoleInv, OnItsWay
  <1>3. Entries' /\ OwnChangeIsShown'
    BY DEF ConsoleInv, Entries, OwnChangeIsShown, Loaded, Fetching
  <1>4. NothingAhead'
    BY <1>2 DEF ConsoleInv, NothingAhead
  <1>5. ToldIsReached'
    BY <1>2 DEF ConsoleInv, ToldIsReached
  <1> QED BY <1>1, <1>3, <1>4, <1>5 DEF ConsoleInv

\* A button asks for what its screen shows next.
LEMMA ClickStep ==
    ASSUME ConsoleInv, NEW b \in Buttons, Click(b), UNCHANGED desk PROVE ConsoleInv'
  <1> DEFINE to == Target(b)
  <1>1. /\ to # NoStatus
        /\ change' = [change EXCEPT ![b] = [to |-> to, step |-> "sent"]]
        /\ UNCHANGED <<status, own, seen, page, query>>
    BY DEF Click
  <1>2. ASSUME b \in {"card", "advance"}
        PROVE  /\ \E s \in Active : Reached(s) /\ to = NextStatus(Fulfilment)[s]
               /\ b = "advance" => Loaded("staff-order")
    <2>1. CASE b = "card"
      <3>1. Board \in Active /\ to = NextStatus(Fulfilment)[Board]
        BY <1>1, <2>1 DEF Target, CardTarget
      <3>2. Board = query["staff-orders"].data /\ Board \in Statuses
        BY <3>1, CacheAssumption, StaffAssumption DEF Board, Active, Statuses
      <3> QED BY <2>1, <3>1, <3>2 DEF ConsoleInv, NothingAhead, OrderQueries
    <2>2. CASE b = "advance"
      <3>1. Detail \in Active /\ to = NextStatus(Fulfilment)[Detail]
        BY <1>1, <2>2 DEF Target, DetailTarget
      <3>2. Detail = query["staff-order"].data /\ Detail \in Statuses /\ Loaded("staff-order")
        BY <3>1, CacheAssumption, StaffAssumption DEF Detail, Loaded, Active, Statuses
      <3> QED BY <2>2, <3>1, <3>2 DEF ConsoleInv, NothingAhead, OrderQueries
    <2> QED BY <1>2, <2>1, <2>2
  <1>3. ASSUME b = "cancel" PROVE to = "cancelled" /\ Loaded("staff-order")
    <2>1. to = "cancelled" /\ Detail \in {"paid", "preparing"}
      BY <1>1, <1>3 DEF Target, DetailTarget
    <2>2. Detail = query["staff-order"].data /\ Detail \in Statuses /\ Loaded("staff-order")
      BY <2>1, CacheAssumption, StaffAssumption DEF Detail, Loaded, Statuses
    <2> QED BY <2>1, <2>2
  <1>4. to \in Statuses
    BY <1>1, <1>2, <1>3, TableIsLegal DEF Statuses, Buttons
  <1> HIDE DEF to
  <1>5. /\ change'[b] = [to |-> to, step |-> "sent"]
        /\ \A other \in Buttons : other # b => change'[other] = change[other]
    BY <1>1 DEF ConsoleInv, Requests
  <1>6. Requests'
    <2>1. [to |-> to, step |-> "sent"] \in [to : Statuses \cup {NoStatus}, step : Steps]
      BY <1>4 DEF Steps
    <2>2. \A x \in Buttons : change'[x].step = "idle" <=> change'[x].to = NoStatus
      BY <1>1, <1>5 DEF ConsoleInv, Requests
    <2> QED BY <1>1, <2>1, <2>2 DEF ConsoleInv, Requests
  <1>7. AskedFromThere'
    <2> SUFFICES ASSUME NEW x \in {"card", "advance"}, change'[x].to # NoStatus
                 PROVE  \E s \in Active : Reached(s)' /\ change'[x].to = NextStatus(Fulfilment)[s]
      BY DEF AskedFromThere
    <2>1. \A s : Reached(s)' <=> Reached(s)
      BY <1>1 DEF Reached
    <2>2. CASE x = b
      BY <1>2, <1>5, <2>1, <2>2
    <2>3. CASE x # b
      BY <1>5, <2>1, <2>3 DEF ConsoleInv, AskedFromThere, Buttons
    <2> QED BY <2>2, <2>3
  <1>8. DoneIsReached' /\ RefusedWasOvertaken'
    BY <1>1, <1>5 DEF ConsoleInv, DoneIsReached, RefusedWasOvertaken, Reached, Buttons
  <1>9. AskedOfRead'
    BY <1>1, <1>2, <1>3, <1>5 DEF ConsoleInv, AskedOfRead, Loaded, Buttons
  <1> QED BY <1>1, <1>6, <1>7, <1>8, <1>9, RequestMoves

\* The server moves the order, or finds that it has gone further.
LEMMA TransitionStep ==
    ASSUME ConsoleInv, NEW b \in Buttons, Transition(b), UNCHANGED desk PROVE ConsoleInv'
  <1> DEFINE to == change[b].to
  <1>1. PICK step \in {"done", "refused"} :
           /\ change' = [change EXCEPT ![b].step = step]
           /\ step = "done" => (status' = to /\ CanTransition(Fulfilment, status, to)) \/ (status' = status /\ status = to)
           /\ step = "refused" => status' = status /\ status # to /\ ~CanTransition(Fulfilment, status, to)
    BY DEF Transition, IsNoOp
  <1>2. change[b].step = "sent" /\ UNCHANGED <<own, seen, page, query>>
    BY DEF Transition
  <1>3. /\ change[b] \in [to : Statuses \cup {NoStatus}, step : Steps]
        /\ to \in Statuses
    BY <1>2 DEF ConsoleInv, Requests
  <1>4. /\ change'[b] = [to |-> to, step |-> step]
        /\ \A other \in Buttons : other # b => change'[other] = change[other]
    BY <1>1, <1>3 DEF ConsoleInv, Requests
  <1>5. status \in Statuses /\ (status' = status \/ CanTransition(Fulfilment, status, status'))
    BY <1>1 DEF ConsoleInv, OnItsWay
  <1>6. \A s \in Statuses : Reached(s) => Reached(s)'
    BY <1>5, ReachedStays
  <1>7. status' \in Statuses /\ Progress(status) <= Progress(status)'
    BY <1>5, TransitionsLeadOn, ProgressIsNat
  <1>8. Requests'
    <2>1. [to |-> to, step |-> step] \in [to : Statuses \cup {NoStatus}, step : Steps]
      BY <1>3 DEF Steps
    <2>2. change' = [x \in Buttons |-> change'[x]]
      BY <1>1 DEF ConsoleInv, Requests
    <2>3. \A x \in Buttons : /\ change'[x] \in [to : Statuses \cup {NoStatus}, step : Steps]
                             /\ change'[x].step = "idle" <=> change'[x].to = NoStatus
      BY <1>2, <1>4, <2>1 DEF ConsoleInv, Requests
    <2> QED BY <2>2, <2>3 DEF Requests
  <1>9. AskedFromThere'
    <2>1. \A x \in Buttons : change'[x].to = change[x].to
      BY <1>4
    <2>2. \A s \in Active : s \in Statuses
      BY DEF Active, Statuses
    <2> QED BY <1>6, <2>1, <2>2 DEF ConsoleInv, AskedFromThere, Buttons
  <1>10. DoneIsReached'
    <2> SUFFICES ASSUME NEW x \in Buttons, change'[x].step = "done" PROVE (Reached(change[x].to))'
      BY DEF DoneIsReached
    <2>1. CASE x = b
      BY <1>1, <1>4, <2>1 DEF Reached
    <2>2. CASE x # b
      <3>1. change'[x] = change[x] /\ change[x].to \in Statuses /\ Reached(change[x].to)
        BY <1>4, <2>2 DEF ConsoleInv, Requests, DoneIsReached
      <3>2. Reached(change[x].to)
        BY <3>1
      <3> QED BY <1>6, <3>1 DEF Reached
    <2> QED BY <2>1, <2>2
  <1>11. RefusedWasOvertaken'
    <2> SUFFICES ASSUME NEW x \in {"card", "advance"}, change'[x].step = "refused"
                 PROVE  Progress(status') >= Progress(change'[x].to) /\ status' # change'[x].to
      BY DEF RefusedWasOvertaken
    <2>1. CASE x = b
      <3>1. status' = status /\ status # to /\ ~CanTransition(Fulfilment, status, to) /\ change'[x].to = to
        BY <1>1, <1>4, <2>1
      <3>2. to # NoStatus
        BY <1>2 DEF ConsoleInv, Requests
      <3>3. PICK s \in Active : Reached(s) /\ to = NextStatus(Fulfilment)[s]
        BY <2>1, <3>2 DEF ConsoleInv, AskedFromThere
      <3>4. s # status /\ Progress(s) < Progress(status)
        BY <3>1, <3>2, <3>3, TableIsLegal DEF Reached
      <3>5. Progress(to) <= Progress(status)
        BY <1>5, <3>2, <3>3, <3>4, TableIsLegal DEF ConsoleInv, OnItsWay
      <3> QED BY <1>3, <1>5, <3>1, <3>5, ProgressIsNat
    <2>2. CASE x # b
      <3>1. /\ change'[x] = change[x] /\ change[x].to \in Statuses
            /\ Progress(status) >= Progress(change[x].to) /\ status # change[x].to
        BY <1>4, <2>2 DEF ConsoleInv, Requests, RefusedWasOvertaken, Buttons
      <3>2. status' = status \/ Progress(status) < Progress(status')
        BY <1>5, TransitionsLeadOn
      <3> QED BY <1>5, <1>7, <3>1, <3>2, ProgressIsNat
    <2> QED BY <2>1, <2>2
  <1>12. AskedOfRead'
    <2>1. \A x \in Buttons : change'[x].to = change[x].to
      BY <1>4
    <2> QED BY <1>2, <2>1 DEF ConsoleInv, AskedOfRead, Loaded, Buttons
  <1> QED BY <1>2, <1>5, <1>8, <1>9, <1>10, <1>11, <1>12, RequestMoves

\* Somebody else moves the order on.
LEMMA ElsewhereStep ==
    ASSUME ConsoleInv, NEW to \in Statuses, Elsewhere(to), UNCHANGED desk PROVE ConsoleInv'
  <1>1. /\ CanTransition(Fulfilment, status, status') /\ status \in Statuses
        /\ UNCHANGED <<own, change, seen, page, query>>
    BY DEF Elsewhere, ConsoleInv, OnItsWay
  <1>2. \A s \in Statuses : Reached(s) => Reached(s)'
    BY <1>1, ReachedStays
  <1>3. status' \in Statuses /\ Progress(status) < Progress(status')
    BY <1>1, TransitionsLeadOn
  <1>4. Requests' /\ AskedOfRead'
    BY <1>1 DEF ConsoleInv, Requests, AskedOfRead, Loaded
  <1>5. AskedFromThere'
    <2>1. \A s \in Active : s \in Statuses
      BY DEF Active, Statuses
    <2> QED BY <1>1, <1>2, <2>1 DEF ConsoleInv, AskedFromThere
  <1>6. DoneIsReached'
    <2> SUFFICES ASSUME NEW x \in Buttons, change[x].step = "done" PROVE (Reached(change[x].to))'
      BY <1>1 DEF DoneIsReached
    <2>1. change[x].to \in Statuses /\ Reached(change[x].to)
      BY DEF ConsoleInv, Requests, DoneIsReached
    <2> QED BY <1>1, <1>2, <2>1 DEF Reached
  <1>7. RefusedWasOvertaken'
    <2> SUFFICES ASSUME NEW x \in {"card", "advance"}, change[x].step = "refused"
                 PROVE  Progress(status') >= Progress(change[x].to) /\ status' # change[x].to
      BY <1>1 DEF RefusedWasOvertaken
    <2>1. Progress(status) >= Progress(change[x].to) /\ change[x].to \in Statuses
      BY DEF ConsoleInv, Requests, RefusedWasOvertaken, Buttons
    <2> QED BY <1>1, <1>3, <2>1, ProgressIsNat
  <1> QED BY <1>1, <1>4, <1>5, <1>6, <1>7, RequestMoves

\* What an answered button makes of the cache is asking again.
LEMMA ToldAgain ==
    ASSUME Entries, NEW b \in Buttons
    PROVE  /\ Told(b) = [q \in Queries |-> Told(b)[q]]
           /\ \A q \in OrderQueries : Told(b)[q] \in Query(q) /\ Again(query[q], Told(b)[q])
           /\ b # "card" /\ page = "detail" /\ Loaded("staff-order") => Told(b)["staff-order"].fetch = Sent
  <1>1. ASSUME NEW q \in OrderQueries
        PROVE  \/ Told(b)[q] = query[q] \/ Told(b)[q] = Replacing(query[q])
               \/ Told(b)[q] = Invalidated(query[q], Shows(page, q))
    <2>1. q \in Queries
      BY StaffAssumption DEF OrderQueries
    <2> QED BY <2>1 DEF Told, OrderQueries, Buttons
  <1>2. ASSUME NEW q \in OrderQueries PROVE Told(b)[q] \in Query(q) /\ Again(query[q], Told(b)[q])
    <2>1. query[q] \in Query(q) /\ Shows(page, q) \in BOOLEAN /\ Again(query[q], query[q])
      BY DEF Entries, Shows, Again
    <2> QED BY <1>1, <2>1, ReplacingAgain, InvalidatedAgain
  <1>3. ASSUME b # "card", page = "detail", Loaded("staff-order")
        PROVE  Told(b)["staff-order"].fetch = Sent
    <2>1. "staff-order" \in OrderQueries /\ "staff-order" \in Queries
      BY StaffAssumption DEF OrderQueries
    <2>2. Shows(page, "staff-order") = TRUE
      BY <1>3 DEF Shows
    <2>3. Told(b)["staff-order"] = Invalidated(query["staff-order"], TRUE)
      BY <1>3, <2>1, <2>2 DEF Told, Buttons
    <2>4. query["staff-order"] \in Query("staff-order") /\ query["staff-order"].data # NoData
      BY <1>3, <2>1 DEF Entries, Loaded
    <2> QED BY <2>3, <2>4, InvalidatedAgain
  <1>4. Told(b) = [q \in Queries |-> Told(b)[q]]
    BY DEF Told
  <1> QED BY <1>2, <1>3, <1>4

\* The answer of a button arrives: the page is told, and fetches the order.
LEMMA DoneStep ==
    ASSUME ConsoleInv, NEW b \in Buttons, Done(b), UNCHANGED desk, desk = "orders" PROVE ConsoleInv'
  <1>1. /\ change[b].step = "done" /\ query' = Told(b)
        /\ seen' = IF b # "card" /\ page = "detail" THEN change[b].to ELSE seen
        /\ change' = [change EXCEPT ![b] = NoChange]
        /\ UNCHANGED <<status, page>>
    BY DEF Done
  <1>2. /\ change[b].to \in Statuses /\ Reached(change[b].to)
        /\ b # "card" => Loaded("staff-order")
    BY <1>1 DEF ConsoleInv, Requests, DoneIsReached, AskedOfRead, Buttons
  <1>3. /\ query' = [q \in Queries |-> query'[q]]
        /\ \A q \in OrderQueries : query'[q] \in Query(q) /\ Again(query[q], query'[q])
        /\ b # "card" /\ page = "detail" /\ Loaded("staff-order") => query'["staff-order"].fetch = Sent
    BY <1>1, ToldAgain DEF ConsoleInv
  <1>4. /\ change' = [x \in Buttons |-> change'[x]]
        /\ \A x \in Buttons : change'[x] = change[x] \/ change'[x] = NoChange
    BY <1>1 DEF ConsoleInv, Requests
  <1>5. CASE b # "card" /\ page = "detail"
    <2>1. seen' \in Statuses /\ Reached(seen') /\ query'["staff-order"].fetch = Sent
      BY <1>1, <1>2, <1>3, <1>5
    <2> QED BY <1>1, <1>3, <1>4, <2>1, AskingAgain
  <1>6. CASE ~(b # "card" /\ page = "detail")
    BY <1>1, <1>3, <1>4, <1>6, AskingAgain
  <1> QED BY <1>5, <1>6

\* Only the queries of the orders matter, and of them one changes.
LEMMA OneAskedAgain ==
    ASSUME ConsoleInv, NEW q \in OrderQueries, NEW entry \in Query(q), Again(query[q], entry),
           query' = [query EXCEPT ![q] = entry], UNCHANGED <<staffVars, page, desk>>
    PROVE  ConsoleInv'
  <1>1. /\ query' = [r \in Queries |-> query'[r]]
        /\ \A r \in OrderQueries : query'[r] = IF r = q THEN entry ELSE query[r]
    BY StaffAssumption DEF ConsoleInv, Entries, OrderQueries
  <1>2. \A r \in OrderQueries : query'[r] \in Query(r) /\ Again(query[r], query'[r])
    BY <1>1 DEF ConsoleInv, Entries, Again
  <1>3. change' = [b \in Buttons |-> change'[b]]
    BY DEF ConsoleInv, Requests, staffVars
  <1> QED BY <1>1, <1>2, <1>3, AskingAgain DEF staffVars

\* Pages that are mounted, queries that are asked again.
LEMMA ScreenStep ==
    ASSUME ConsoleInv, UNCHANGED desk,
           VisitQueue \/ VisitDetail \/ Focus \/ Interval \/ Refresh
    PROVE  ConsoleInv'
  <1>1. \A q \in OrderQueries : query[q] \in Query(q)
    BY DEF ConsoleInv, Entries
  <1>2. ASSUME NEW p, Visit(p) PROVE ConsoleInv'
    <2>1. PICK expired \in BOOLEAN :
             query' = [q \in Queries |-> IF Shows(p, q) THEN Mounted(query[q], expired) ELSE query[q]]
      BY <1>2 DEF Visit
    <2>2. \A q \in OrderQueries : query'[q] = Mounted(query[q], expired) \/ query'[q] = query[q]
      BY <2>1, StaffAssumption DEF OrderQueries
    <2>3. \A q \in OrderQueries : query'[q] \in Query(q) /\ Again(query[q], query'[q])
      BY <1>1, <2>2, MountedAgain DEF Again
    <2>4. query' = [q \in Queries |-> query'[q]]
      BY <2>1
    <2>5. seen' = NoStatus /\ UNCHANGED <<status, change>>
      BY <1>2 DEF Visit
    <2>6. change' = [b \in Buttons |-> change'[b]]
      BY <2>5 DEF ConsoleInv, Requests
    <2> QED BY <2>3, <2>4, <2>5, <2>6, AskingAgain
  <1>3. ASSUME NEW q \in OrderQueries, query' = [query EXCEPT ![q] = Joining(@)], UNCHANGED <<staffVars, page>>
        PROVE  ConsoleInv'
    <2>1. Joining(query[q]) \in Query(q) /\ Again(query[q], Joining(query[q]))
      BY <1>1, JoiningAgain
    <2> QED BY <1>3, <2>1, OneAskedAgain
  <1>4. CASE Focus
    BY <1>3, <1>4 DEF Focus
  <1>5. CASE Interval
    BY <1>3, <1>5 DEF Interval, OrderQueries
  <1>6. CASE Refresh
    <2>1. "staff-orders" \in OrderQueries
      BY DEF OrderQueries
    <2>2. Replacing(query["staff-orders"]) \in Query("staff-orders")
          /\ Again(query["staff-orders"], Replacing(query["staff-orders"]))
      BY <1>1, <2>1, ReplacingAgain
    <2> QED BY <1>6, <2>1, <2>2, OneAskedAgain DEF Refresh
  <1> QED BY <1>2, <1>4, <1>5, <1>6 DEF VisitQueue, VisitDetail

\* A query's request is read, answered or lost.
LEMMA FetchStep ==
    ASSUME ConsoleInv, NEW q \in OrderQueries, UNCHANGED desk,
           ServeOrder(q) \/ ArriveOrder(q) \/ FailOrder(q)
    PROVE  ConsoleInv'
  <1>1. /\ query[q] \in Query(q) /\ q \in Queries
        /\ {"staff-orders", "staff-order"} = OrderQueries
        /\ Statuses \subseteq Values[q] /\ Values[q] \subseteq Statuses \cup {"unlisted"}
        /\ NoData \notin Values[q] /\ Refused \notin Values[q] /\ Sent \notin Values[q] /\ NoFetch \notin Values[q]
    BY StaffAssumption, CacheAssumption DEF ConsoleInv, Entries, OrderQueries
  <1>2. UNCHANGED <<staffVars, page>>
    BY DEF ServeOrder, ArriveOrder, FailOrder
  <1>3. \E entry : query' = [query EXCEPT ![q] = entry]
    BY DEF ServeOrder, Serve, ArriveOrder, Arrive, FailOrder, Fail
  <1>4. /\ query' = [r \in Queries |-> query'[r]]
        /\ \A r \in OrderQueries : r # q => query'[r] = query[r]
    BY <1>1, <1>3 DEF ConsoleInv, Entries
  <1> DEFINE old == query[q]
             new == query'[q]
  <1>5. /\ new \in Query(q)
        /\ \A s \in Statuses : s = new.data => s = old.data \/ s = old.fetch
        /\ \A s \in Statuses : s = new.fetch => s = old.fetch \/ s = status
        /\ old.data # NoData => new.data # NoData
        /\ new.failed \/ new.fetch # NoFetch \/ (new.data = old.fetch /\ old.fetch \in Values[q])
    <2>1. CASE ServeOrder(q)
      <3>1. old.fetch = Sent /\ new = [old EXCEPT !.fetch = AnswerTo(q)]
        BY <1>1, <2>1 DEF ServeOrder, Serve, ConsoleInv, Entries
      <3>2. AnswerTo(q) \in Values[q] \cup {Refused} /\ \A s \in Statuses : s = AnswerTo(q) => s = status
        <4>1. CASE q = "staff-orders"
          <5>1. AnswerTo(q) = Listed(status)
            BY <4>1 DEF AnswerTo
          <5> QED BY <4>1, <5>1, StaffAssumption DEF Listed, ConsoleInv, OnItsWay, Active, Statuses
        <4>2. CASE q = "staff-order"
          <5>1. AnswerTo(q) = IF own THEN status ELSE Refused
            BY <4>2 DEF AnswerTo
          <5> QED BY <1>1, <4>2, <5>1, StaffAssumption DEF ConsoleInv, OnItsWay
        <4> QED BY <4>1, <4>2 DEF OrderQueries
      <3>3. /\ new.data = old.data /\ new.fetch = AnswerTo(q)
            /\ new \in Query(q)
        BY <1>1, <3>1, <3>2 DEF Query
      <3> QED BY <1>1, <3>2, <3>3, CacheAssumption
    <2>2. CASE ArriveOrder(q) /\ old.fetch # Refused
      <3>1. old.fetch \in Values[q] /\ new = Answered(old)
        BY <1>1, <2>2 DEF ArriveOrder, Arrive, ConsoleInv, Entries
      <3>2. new.data = old.fetch /\ new.fetch = NoFetch /\ new \in Query(q)
        BY <1>1, <3>1 DEF Answered, Query
      <3> QED BY <1>1, <3>1, <3>2
    <2>3. CASE FailOrder(q) \/ (ArriveOrder(q) /\ old.fetch = Refused)
      <3>1. new = Broken(old)
        BY <1>1, <2>3 DEF FailOrder, Fail, ArriveOrder, Arrive, ConsoleInv, Entries
      <3>2. new.data = old.data /\ new.fetch = NoFetch /\ new.failed = TRUE /\ new \in Query(q)
        BY <1>1, <3>1 DEF Broken, Query
      <3> QED BY <1>1, <3>2
    <2> QED BY <2>1, <2>2, <2>3
  <1> HIDE DEF old, new
  <1>6. Entries' /\ Requests' /\ OnItsWay' /\ AskedFromThere' /\ DoneIsReached' /\ RefusedWasOvertaken'
    <2>1. Entries'
      BY <1>4, <1>5 DEF ConsoleInv, Entries, new
    <2> QED BY <1>2, <2>1 DEF ConsoleInv, Requests, OnItsWay, AskedFromThere, DoneIsReached,
                              RefusedWasOvertaken, Reached, staffVars
  <1>7. \A s : Reached(s) <=> Reached(s)'
    BY <1>2 DEF Reached, staffVars
  <1>8. NothingAhead'
    <2>1. Reached(status)
      BY DEF Reached
    <2> QED BY <1>4, <1>5, <1>7, <2>1 DEF ConsoleInv, NothingAhead, old, new
  <1>9. AskedOfRead'
    BY <1>1, <1>2, <1>4, <1>5 DEF ConsoleInv, AskedOfRead, Loaded, old, new, staffVars
  <1>10. ToldIsReached'
    <2> SUFFICES ASSUME seen # NoStatus, NEW s \in Statuses, s = query'["staff-order"].fetch
                 PROVE  Progress(s) >= Progress(seen)
      BY <1>2, <1>7 DEF ConsoleInv, ToldIsReached, staffVars
    <2>1. seen \in Statuses /\ Reached(seen) /\ status \in Statuses
      BY DEF ConsoleInv, ToldIsReached, OnItsWay
    <2>2. Progress(status) >= Progress(seen)
      BY <2>1, ProgressIsNat DEF Reached
    <2>3. s = query["staff-order"].fetch \/ s = status
      BY <1>1, <1>4, <1>5 DEF old, new
    <2> QED BY <2>2, <2>3 DEF ConsoleInv, ToldIsReached
  <1>11. OwnChangeIsShown'
    <2>1. CASE q = "staff-order"
      <3> SUFFICES ASSUME seen # NoStatus, page = "detail", new.data # NoData,
                          ~new.failed, new.fetch = NoFetch
                   PROVE  Progress(new.data) >= Progress(seen)
        BY <1>2, <2>1 DEF OwnChangeIsShown, Loaded, Fetching, new, staffVars
      <3>1. new.data = query["staff-order"].fetch /\ new.data \in Statuses
        BY <1>5, <2>1, StaffAssumption DEF old
      <3> QED BY <3>1 DEF ConsoleInv, ToldIsReached
    <2>2. CASE q # "staff-order"
      <3>1. query'["staff-order"] = query["staff-order"]
        BY <1>1, <1>4, <2>2
      <3> QED BY <1>2, <3>1 DEF ConsoleInv, OwnChangeIsShown, Loaded, Fetching, staffVars
    <2> QED BY <2>1, <2>2
  <1> QED BY <1>6, <1>8, <1>9, <1>10, <1>11 DEF ConsoleInv

\* What is done at the other two desks.
LEMMA MenuLeavesOrders ==
    ASSUME Entries, MenuStep
    PROVE  query' = [q \in Queries |-> query'[q]] /\ \A q \in OrderQueries : query'[q] = query[q]
  <1>1. UNCHANGED query \/ \E q \in MenuQueries : \E entry : query' = [query EXCEPT ![q] = entry]
    BY DEF MenuStep, RowButtons, ShowAddItem, ChooseCategory, MenuFocus, Ask, Handle, LoseAsk, Acked,
           ServeItems, ServeCategories, Expire, ArriveMenu, FailMenu, Serve, Arrive, Fail, MenuQueries
  <1> QED BY <1>1, StaffAssumption DEF Entries, OrderQueries, MenuQueries

\* What leaves the orders alone keeps the invariant.
LEMMA OrdersUntouched ==
    ASSUME ConsoleInv, UNCHANGED <<desk, staffVars>>,
           query' = [q \in Queries |-> query'[q]], \A q \in OrderQueries : query'[q] = query[q],
           page' = page \/ desk = "doors"
    PROVE  ConsoleInv'
  <1>1. \A q \in OrderQueries : query'[q] \in Query(q) /\ Again(query[q], query'[q])
    BY DEF ConsoleInv, Entries, Again
  <1>2. change' = [b \in Buttons |-> change'[b]]
    BY DEF ConsoleInv, Requests, staffVars
  <1>3. seen' = NoStatus \/ UNCHANGED <<page, seen, desk>>
    BY DEF ConsoleInv, ToldIsReached, staffVars
  <1> QED BY <1>1, <1>2, <1>3, AskingAgain DEF staffVars

\* Every step keeps the invariant.
LEMMA ConsoleStep == ConsoleInv /\ [Next]_vars => ConsoleInv'
  <1> SUFFICES ASSUME ConsoleInv, [Next]_vars PROVE ConsoleInv'
    OBVIOUS
  <1>0. query = [q \in Queries |-> query[q]]
    BY DEF ConsoleInv, Entries
  <1>1. CASE AtTheDoors(VisitStep)
    BY <1>0, <1>1, OrdersUntouched DEF AtTheDoors
  <1>2. CASE AtTheMenu(MenuStep)
    BY <1>2, MenuLeavesOrders, OrdersUntouched DEF AtTheMenu, ConsoleInv
  <1>3. CASE AtTheOrders(StaffStep)
    <2>1. desk = "orders" /\ UNCHANGED desk
      BY <1>3 DEF AtTheOrders
    <2>2. CASE VisitQueue \/ VisitDetail \/ Focus \/ Interval \/ Refresh
      BY <2>1, <2>2, ScreenStep
    <2>3. ASSUME NEW b \in Buttons, Click(b) \/ Transition(b) \/ LoseChange(b) \/ Done(b) \/ Denied(b)
          PROVE  ConsoleInv'
      <3>1. CASE LoseChange(b) \/ Denied(b)
        BY <2>1, <3>1, RequestEnds DEF LoseChange, Denied
      <3> QED BY <2>1, <2>3, <3>1, ClickStep, TransitionStep, DoneStep
    <2>4. ASSUME NEW q \in OrderQueries, ServeOrder(q) \/ ArriveOrder(q) \/ FailOrder(q) PROVE ConsoleInv'
      BY <2>1, <2>4, FetchStep
    <2>5. ASSUME NEW to \in Statuses, Elsewhere(to) PROVE ConsoleInv'
      BY <2>1, <2>5, ElsewhereStep
    <2> QED BY <1>3, <2>2, <2>3, <2>4, <2>5 DEF AtTheOrders, StaffStep
  <1>4. CASE UNCHANGED vars
    BY <1>0, <1>4, OrdersUntouched DEF vars
  <1> QED BY <1>1, <1>2, <1>3, <1>4 DEF Next

\* What the screens have read, and what their buttons ask for, never lies ahead of
\* the order.
THEOREM ConsoleInvariant == Spec => []ConsoleInv
  BY ConsoleInitHolds, ConsoleStep, PTL DEF Spec
-----------------------------------------------------------------------------
(* Results about the orders.                                               *)

\* getNextStatus against handleAdminTransition: whatever screens staff use, and
\* however late their requests are, the server refuses an advance only when the
\* order has come as far without it.
THEOREM RefusalsAreOvertaken == Spec => []RefusedWasOvertaken
  <1>1. ConsoleInv => RefusedWasOvertaken
    BY DEF ConsoleInv
  <1> QED BY <1>1, ConsoleInvariant, PTL

\* The page of an order never shows an older status than the change it was told
\* of, unless it is fetching the order or says that it could not.
THEOREM OwnChangesAreShown == Spec => []OwnChangeIsShown
  <1>1. ConsoleInv => OwnChangeIsShown
    BY DEF ConsoleInv
  <1> QED BY <1>1, ConsoleInvariant, PTL
-----------------------------------------------------------------------------
(* The menu editor.                                                        *)

\* What a list may have for the item as it is: a sold-out one may be missing.
Right(v) == v = item \/ (v = Absent /\ ~item.available)

\* An answer on its way, or else the list on the screen, has the item.
UpToDate(entry) ==
    /\ entry.fetch \in Item \cup {Absent} => Right(entry.fetch)
    /\ entry.fetch = NoFetch /\ entry.data # NoData /\ ~entry.failed => Right(entry.data)

NoneDone == \A k \in Kinds : ask[k] # "done"

\* A change that has happened and is not on the list has its answer still to come,
\* which fetches the list.
ListInv == NoneDone /\ ~behind => UpToDate(query["admin-items"])

MenuInv == MenuTypeOK /\ ListInv

\* The markers of a request and of missing data are no items.
LEMMA MenuConstants ==
    /\ MenuQueries = {"admin-categories", "admin-items"}
    /\ Values["admin-items"] = Item \cup {Absent} /\ Values["admin-categories"] = {"some"}
    /\ {NoData, NoFetch, Sent, Refused} \cap (Item \cup {Absent}) = {}
    /\ {NoData, NoFetch, Sent, Refused} \cap {"some"} = {}
    /\ NoFetch # Sent /\ NoFetch # Refused /\ Sent # Refused /\ Absent \notin Item
    /\ MenuQueries \subseteq Queries
  BY MenuAssumption, CacheAssumption DEF MenuQueries

\* Steps that leave the requests and the list alone.
LEMMA MenuUntouched ==
    ASSUME MenuInv, UNCHANGED <<item, ask, behind>>, \A q \in MenuQueries : query'[q] = query[q],
           token' \in {"fresh", "expired"}, addForm' \in {"closed", "blank", "ready"},
           row' \in [expanded : BOOLEAN, editing : BOOLEAN], RowShown(query) \/ row' = NewRow
    PROVE  MenuInv'
  <1>1. query'["admin-items"] = query["admin-items"] /\ query'["admin-categories"] = query["admin-categories"]
    BY MenuConstants
  <1>2. MenuTypeOK'
    BY <1>1 DEF MenuInv, MenuTypeOK, RowShown
  <1>3. ListInv'
    BY <1>1 DEF MenuInv, ListInv, NoneDone, UpToDate, Right
  <1> QED BY <1>2, <1>3 DEF MenuInv

\* The buttons of the row, the forms and the token change none of them.
LEMMA MenuButtons ==
    ASSUME MenuInv, RowButtons \/ ShowAddItem \/ ChooseCategory \/ Expire PROVE MenuInv'
  <1>1. UNCHANGED <<item, ask, behind, query>> /\ token' \in {"fresh", "expired"}
    BY DEF RowButtons, ShowAddItem, ChooseCategory, Expire, MenuInv, MenuTypeOK
  <1>2. addForm' \in {"closed", "blank", "ready"}
    BY DEF RowButtons, ShowAddItem, ChooseCategory, Expire, MenuInv, MenuTypeOK
  <1>3. row' \in [expanded : BOOLEAN, editing : BOOLEAN] /\ (RowShown(query) \/ row' = NewRow)
    <2>1. row \in [expanded : BOOLEAN, editing : BOOLEAN] /\ (RowShown(query) \/ row = NewRow)
      BY DEF MenuInv, MenuTypeOK
    <2>2. CASE RowButtons
      <3>1. RowShown(query) /\ (Pencil \/ Expand \/ CancelEdit)
        BY <2>2 DEF RowButtons
      <3>2. /\ row = [expanded |-> row.expanded, editing |-> row.editing]
            /\ row.expanded \in BOOLEAN /\ row.editing \in BOOLEAN
        BY <2>1
      <3>3. CASE Pencil
        BY <3>1, <3>2, <3>3 DEF Pencil
      <3>4. CASE Expand
        BY <3>1, <3>2, <3>4 DEF Expand
      <3>5. CASE CancelEdit
        BY <3>1, <3>2, <3>5 DEF CancelEdit
      <3> QED BY <3>1, <3>3, <3>4, <3>5
    <2>3. CASE ~RowButtons
      BY <2>1, <2>3 DEF ShowAddItem, ChooseCategory, Expire
    <2> QED BY <2>2, <2>3
  <1> QED BY <1>1, <1>2, <1>3, MenuUntouched

\* What a request does to the item.
LEMMA EffectTyped ==
    ASSUME NEW k \in Kinds, item \in Item \cup {Absent} PROVE Effect(k) \subseteq Item \cup {Absent}
  <1>1. CASE k = "create" \/ item = Absent
    <2>1. Effect(k) \in {{[available |-> TRUE, size |-> FALSE]}, {}}
      BY <1>1 DEF Effect
    <2>2. [available |-> TRUE, size |-> FALSE] \in Item
      BY DEF Item
    <2> QED BY <2>1, <2>2
  <1>2. CASE k # "create" /\ item \in Item
    <2>1. /\ [item EXCEPT !.available = TRUE] \in Item /\ [item EXCEPT !.available = FALSE] \in Item
          /\ [item EXCEPT !.size = TRUE] \in Item /\ [item EXCEPT !.size = FALSE] \in Item
      BY <1>2 DEF Item
    <2> QED BY <1>2, <2>1 DEF Effect, Kinds
  <1> QED BY <1>1, <1>2

\* A request is sent, taken by the server or lost.
LEMMA MenuRequests ==
    ASSUME MenuInv, NEW k \in Kinds, Ask(k) \/ Handle(k) \/ LoseAsk(k) PROVE MenuInv'
  <1>1. UNCHANGED <<row, addForm, query>> /\ token' \in {"fresh", "expired"}
    BY DEF Ask, Handle, LoseAsk, MenuInv, MenuTypeOK
  <1>2. PICK step \in MenuSteps :
           /\ ask' = [ask EXCEPT ![k] = step]
           /\ (step = "sent" /\ ask[k] = "idle" /\ Ask(k)) \/ (ask[k] \in {"sent", "done"} /\ step \in {"idle", "done"})
    BY DEF Ask, Handle, LoseAsk, MenuSteps
  <1>3. /\ ask' \in [Kinds -> MenuSteps] /\ ask'[k] = step
        /\ \A other \in Kinds : other # k => ask'[other] = ask[other]
    BY <1>2 DEF MenuInv, MenuTypeOK
  <1>4. ask'["show"] = "idle" \/ ask'["hide"] = "idle"
    <2>1. CASE step = "sent"
      <3>1. k = "show" => ask["hide"] = "idle"
        BY <1>2, <2>1 DEF Ask, RowOffers, FormOffers
      <3>2. k = "hide" => ask["show"] = "idle"
        BY <1>2, <2>1 DEF Ask, RowOffers, FormOffers
      <3> QED BY <1>3, <3>1, <3>2 DEF MenuInv, MenuTypeOK, Kinds
    <2>2. CASE step # "sent"
      BY <1>2, <1>3, <2>2 DEF MenuInv, MenuTypeOK, Kinds
    <2> QED BY <2>1, <2>2
  <1>5. item' \in Item \cup {Absent} /\ behind' \in BOOLEAN
    <2>1. CASE Handle(k)
      BY <2>1, EffectTyped DEF Handle, MenuInv, MenuTypeOK
    <2>2. CASE ~Handle(k)
      BY <2>2 DEF Ask, LoseAsk, MenuInv, MenuTypeOK
    <2> QED BY <2>1, <2>2
  <1>6. MenuTypeOK'
    BY <1>1, <1>3, <1>4, <1>5 DEF MenuInv, MenuTypeOK, RowShown
  <1>7. ListInv'
    <2> SUFFICES ASSUME NoneDone', ~behind' PROVE UpToDate(query["admin-items"])'
      BY DEF ListInv
    <2>1. item' = item /\ ask[k] # "done" /\ ~behind
      <3>1. ask'[k] # "done" /\ ask \in [Kinds -> MenuSteps]
        BY DEF NoneDone, MenuInv, MenuTypeOK
      <3>2. CASE Ask(k)
        BY <3>2 DEF Ask
      <3>3. CASE Handle(k)
        BY <3>1, <3>3 DEF Handle
      <3>4. CASE LoseAsk(k)
        BY <3>1, <3>4 DEF LoseAsk
      <3> QED BY <3>2, <3>3, <3>4
    <2>2. NoneDone
      BY <1>3, <2>1 DEF NoneDone
    <2> QED BY <1>1, <2>1, <2>2 DEF MenuInv, ListInv, UpToDate, Right
  <1> QED BY <1>6, <1>7 DEF MenuInv

\* A success fetches the list, whose answer is still to be read.
LEMMA MenuAcked == ASSUME Entries, MenuInv, NEW k \in Kinds, Acked(k) PROVE MenuInv'
  <1> DEFINE entry == query["admin-items"]
             new == Invalidated(entry, TRUE)
  <1>1. /\ UNCHANGED <<item, token>> /\ behind' = (behind \/ TooEarly)
        /\ ask' = [ask EXCEPT ![k] = "idle"] /\ query' = [query EXCEPT !["admin-items"] = new]
        /\ addForm' \in {addForm, "closed"} /\ row' \in {row, [row EXCEPT !.editing = FALSE]}
    BY DEF Acked
  <1>2. entry \in Query("admin-items")
    BY MenuConstants DEF MenuInv, MenuTypeOK
  <1>3. /\ new \in Query("admin-items") /\ new.data = entry.data
        /\ entry.data # NoData => new.fetch = Sent
        /\ new.fetch = entry.fetch \/ new.fetch = Sent
    BY <1>2, InvalidatedAgain DEF Again
  <1>4. entry.data = NoData /\ entry.fetch = NoFetch => new.fetch = Sent
    <2>1. [entry EXCEPT !.invalid = TRUE] \in Query("admin-items")
      BY <1>2 DEF Query
    <2>2. /\ [entry EXCEPT !.invalid = TRUE].data = entry.data
          /\ [entry EXCEPT !.invalid = TRUE].fetch = entry.fetch
      BY <1>2 DEF Query
    <2> QED BY <2>1, <2>2, StartedAgain DEF Invalidated, Replacing, Joining
  <1> HIDE DEF new
  <1>5. ~behind' => new.fetch = Sent
    BY <1>1, <1>3, <1>4 DEF TooEarly, Loaded
  <1>6. \A q \in MenuQueries : query'[q] \in Query(q) /\ query'[q].data = query[q].data
    <2>1. "admin-items" \in Queries /\ MenuQueries \subseteq Queries
      BY MenuConstants
    <2>2. \A q \in MenuQueries : query'[q] = IF q = "admin-items" THEN new ELSE query[q]
      BY <1>1, <2>1 DEF Entries
    <2>3. \A q \in MenuQueries : query[q] \in Query(q)
      BY DEF MenuInv, MenuTypeOK
    <2> QED BY <1>3, <2>2, <2>3
  <1>7. row' \in [expanded : BOOLEAN, editing : BOOLEAN] /\ (RowShown(query') \/ row' = NewRow)
    <2>1. RowShown(query') <=> RowShown(query)
      BY <1>6, MenuConstants DEF RowShown
    <2>2. row \in [expanded : BOOLEAN, editing : BOOLEAN] /\ (RowShown(query) \/ row = NewRow)
      BY DEF MenuInv, MenuTypeOK
    <2> DEFINE closed == [row EXCEPT !.editing = FALSE]
    <2>3. closed \in [expanded : BOOLEAN, editing : BOOLEAN]
      BY <2>2
    <2>4. closed.expanded = row.expanded /\ closed.editing = FALSE
      BY <2>2
    <2>5. row' \in {row, closed}
      BY <1>1
    <2> HIDE DEF closed
    <2>6. closed = [expanded |-> closed.expanded, editing |-> closed.editing]
      BY <2>3
    <2>7. row = NewRow => closed = NewRow
      BY <2>4, <2>6 DEF NewRow
    <2> QED BY <2>1, <2>2, <2>3, <2>5, <2>7
  <1>8. behind' \in BOOLEAN /\ ask' \in [Kinds -> MenuSteps] /\ (ask'["show"] = "idle" \/ ask'["hide"] = "idle")
    <2>1. behind' \in BOOLEAN
      BY <1>1 DEF MenuInv, MenuTypeOK
    <2> QED BY <1>1, <2>1 DEF MenuInv, MenuTypeOK, MenuSteps, Kinds
  <1>9. MenuTypeOK'
    BY <1>1, <1>6, <1>7, <1>8 DEF MenuInv, MenuTypeOK
  <1>10. ListInv'
    <2>1. query'["admin-items"] = new
      BY <1>1, MenuConstants DEF Entries
    <2>2. ~behind' => query'["admin-items"].fetch = Sent
      BY <1>5, <2>1
    <2> QED BY <2>2, MenuConstants DEF ListInv, UpToDate
  <1> QED BY <1>9, <1>10 DEF MenuInv

\* Steps of one query of the menu that keep the rest.
LEMMA MenuQueryStep ==
    ASSUME Entries, MenuInv, NEW q \in MenuQueries, NEW entry \in Query(q), query' = [query EXCEPT ![q] = entry],
           UNCHANGED <<item, token, ask, addForm>>, behind' \in {behind, FALSE},
           \/ row' = row /\ entry.data = query[q].data
           \/ row' = IF RowShown(query') THEN row ELSE NewRow,
           q = "admin-items" => (NoneDone /\ ~behind' => UpToDate(entry)),
           q # "admin-items" => behind' = behind
    PROVE  MenuInv'
  <1>1. \A x \in MenuQueries : query'[x] = IF x = q THEN entry ELSE query[x]
    BY MenuConstants DEF Entries
  <1>2. \A x \in MenuQueries : query[x] \in Query(x)
    BY DEF MenuInv, MenuTypeOK
  <1>3. \A x \in MenuQueries : query'[x] \in Query(x)
    BY <1>1, <1>2
  <1>4. row' \in [expanded : BOOLEAN, editing : BOOLEAN] /\ (RowShown(query') \/ row' = NewRow)
    <2>1. /\ row \in [expanded : BOOLEAN, editing : BOOLEAN] /\ (RowShown(query) \/ row = NewRow)
          /\ NewRow \in [expanded : BOOLEAN, editing : BOOLEAN]
      BY DEF MenuInv, MenuTypeOK, NewRow
    <2>2. CASE row' = IF RowShown(query') THEN row ELSE NewRow
      BY <2>1, <2>2
    <2>3. CASE row' = row /\ entry.data = query[q].data
      <3>1. RowShown(query) => RowShown(query')
        BY <1>1, <2>3, MenuConstants DEF RowShown
      <3> QED BY <2>1, <2>3, <3>1
    <2> QED BY <2>2, <2>3
  <1>5. MenuTypeOK'
    BY <1>3, <1>4 DEF MenuInv, MenuTypeOK
  <1>6. ListInv'
    <2>1. NoneDone' <=> NoneDone
      BY DEF NoneDone
    <2>2. \A e : UpToDate(e)' <=> UpToDate(e)
      BY DEF UpToDate, Right
    <2>3. CASE q = "admin-items"
      BY <1>1, <2>1, <2>2, <2>3 DEF ListInv
    <2>4. CASE q # "admin-items"
      <3>1. query'["admin-items"] = query["admin-items"]
        BY <1>1, <2>4, MenuConstants
      <3> QED BY <2>1, <2>2, <2>4, <3>1 DEF MenuInv, ListInv
    <2> QED BY <2>3, <2>4
  <1> QED BY <1>5, <1>6 DEF MenuInv

\* What the page shows is asked for again, read, answered or not.
LEMMA MenuFetches ==
    ASSUME Entries, MenuInv,
           \/ MenuFocus \/ ServeItems \/ ServeCategories
           \/ \E q \in MenuQueries : ArriveMenu(q) \/ FailMenu(q)
    PROVE  MenuInv'
  <1>0. \A q \in MenuQueries : query[q] \in Query(q) /\ q \in Queries
    BY MenuConstants DEF MenuInv, MenuTypeOK
  <1>1. CASE MenuFocus
    <2>1. PICK q \in MenuQueries : ~Fetching(q) /\ query' = [query EXCEPT ![q] = Joining(query[q])]
      BY <1>1 DEF MenuFocus
    <2>2. /\ Joining(query[q]) \in Query(q) /\ Joining(query[q]).data = query[q].data
          /\ Joining(query[q]).fetch = Sent
      BY <1>0, <2>1, StartedAgain DEF Joining, Fetching, Again
    <2>3. UpToDate(Joining(query[q]))
      BY <2>2, MenuConstants DEF UpToDate
    <2> QED BY <1>1, <2>1, <2>2, <2>3, MenuQueryStep DEF MenuFocus, menuVars
  <1>2. CASE ServeItems
    <2> DEFINE entry == query["admin-items"]
               new == [entry EXCEPT !.fetch = Readable]
    <2>1. /\ query' = [query EXCEPT !["admin-items"] = new] /\ behind' = FALSE
          /\ UNCHANGED <<item, token, ask, row, addForm>>
      BY <1>0, <1>2, MenuConstants DEF ServeItems, Serve, Entries
    <2>2. Readable \in Item \cup {Absent} /\ Right(Readable)
      BY DEF MenuInv, MenuTypeOK, Readable, Right
    <2>3. new \in Query("admin-items") /\ new.data = entry.data /\ new.fetch = Readable
      BY <1>0, <2>2, MenuConstants DEF Query
    <2> HIDE DEF new
    <2>4. UpToDate(new)
      BY <2>2, <2>3, MenuConstants DEF UpToDate
    <2> QED BY <2>1, <2>3, <2>4, MenuConstants, MenuQueryStep
  <1>3. CASE ServeCategories
    <2> DEFINE entry == query["admin-categories"]
               new == [entry EXCEPT !.fetch = "some"]
    <2>1. query' = [query EXCEPT !["admin-categories"] = new] /\ UNCHANGED menuVars
      BY <1>0, <1>3, MenuConstants DEF ServeCategories, Serve, Entries
    <2>2. new \in Query("admin-categories") /\ new.data = entry.data
      BY <1>0, MenuConstants DEF Query
    <2> HIDE DEF new
    <2> QED BY <2>1, <2>2, MenuConstants, MenuQueryStep DEF menuVars
  <1>4. ASSUME NEW q \in MenuQueries, ArriveMenu(q) \/ FailMenu(q) PROVE MenuInv'
    <2>1. /\ UNCHANGED <<item, token, ask, addForm, behind>>
          /\ \/ row' = row /\ FailMenu(q)
             \/ row' = IF RowShown(query') THEN row ELSE NewRow
      BY <1>4 DEF ArriveMenu, FailMenu, menuVars
    <2>2. CASE FailMenu(q) \/ query[q].fetch = Refused
      <3>1. query' = [query EXCEPT ![q] = Broken(query[q])]
        BY <1>0, <1>4, <2>2 DEF ArriveMenu, Arrive, FailMenu, Fail, Entries
      <3>2. /\ Broken(query[q]) \in Query(q) /\ Broken(query[q]).data = query[q].data
            /\ Broken(query[q]).fetch = NoFetch /\ Broken(query[q]).failed = TRUE
        BY <1>0 DEF Broken, Query
      <3>3. UpToDate(Broken(query[q]))
        BY <3>2, MenuConstants DEF UpToDate
      <3> QED BY <2>1, <3>1, <3>2, <3>3, MenuQueryStep
    <2>3. CASE ~(FailMenu(q) \/ query[q].fetch = Refused)
      <3>1. query[q].fetch \in Values[q] /\ query' = [query EXCEPT ![q] = Answered(query[q])]
        BY <1>0, <1>4, <2>3 DEF ArriveMenu, Arrive, Entries
      <3>2. /\ Answered(query[q]) \in Query(q) /\ Answered(query[q]).data = query[q].fetch
            /\ Answered(query[q]).fetch = NoFetch
        BY <3>1 DEF Answered, Query
      <3>3. q = "admin-items" => (NoneDone /\ ~behind => UpToDate(Answered(query[q])))
        BY <3>1, <3>2, MenuConstants DEF MenuInv, ListInv, UpToDate
      <3> QED BY <2>1, <2>3, <3>1, <3>2, <3>3, MenuQueryStep
    <2> QED BY <2>2, <2>3
  <1> QED BY <1>1, <1>2, <1>3, <1>4

\* The staff's screens leave the menu alone.
LEMMA StaffLeavesMenu ==
    ASSUME Entries, StaffStep PROVE \A q \in MenuQueries : query'[q] = query[q]
  <1>1. MenuQueries \subseteq Queries /\ OrderQueries \cap MenuQueries = {}
    BY MenuConstants DEF OrderQueries
  <1>2. \/ UNCHANGED query
        \/ \E q \in OrderQueries : \E entry : query' = [query EXCEPT ![q] = entry]
        \/ \E b \in Buttons : query' = Told(b)
        \/ VisitQueue \/ VisitDetail
    BY DEF StaffStep, Focus, Interval, Refresh, Click, Transition, LoseChange, Done, Denied,
           ServeOrder, ArriveOrder, FailOrder, Serve, Arrive, Fail, Elsewhere, OrderQueries
  <1>3. ASSUME NEW q \in OrderQueries, NEW entry, query' = [query EXCEPT ![q] = entry]
        PROVE  \A x \in MenuQueries : query'[x] = query[x]
    BY <1>1, <1>3 DEF Entries
  <1>4. ASSUME NEW b \in Buttons, NEW q \in MenuQueries PROVE Told(b)[q] = query[q]
    BY <1>1 DEF Told, OrderQueries, MenuQueries
  <1>5. ASSUME NEW p, Visit(p), NEW q \in MenuQueries PROVE query'[q] = query[q]
    <2>1. ~Shows(p, q)
      BY DEF Shows, MenuQueries
    <2> QED BY <1>1, <1>5, <2>1 DEF Visit
  <1> QED BY <1>2, <1>3, <1>4, <1>5 DEF VisitQueue, VisitDetail

\* A page load has read no list yet.
LEMMA MenuInitHolds == Init => MenuInv
  <1> SUFFICES ASSUME Init PROVE MenuInv
    OBVIOUS
  <1>1. MenuInit /\ item \in Item \cup {Absent} /\ \E shown : PageLoad(shown)
    BY DEF Init, MenuInit
  <1>2. PICK shown : query = [q \in Queries |-> IF q \in shown THEN Started(Unasked) ELSE Unasked]
    BY <1>1 DEF PageLoad
  <1>3. ASSUME NEW q \in MenuQueries
        PROVE  query[q] \in Query(q) /\ query[q].data = NoData /\ query[q].fetch \in {NoFetch, Sent}
    <2>1. Unasked \in Query(q) /\ Unasked.data = NoData /\ Unasked.fetch = NoFetch
      BY DEF Unasked, Query
    <2>2. Started(Unasked) \in Query(q) /\ Again(Unasked, Started(Unasked)) /\ Started(Unasked).fetch = Sent
      BY <2>1, StartedAgain
    <2>3. query[q] = Started(Unasked) \/ query[q] = Unasked
      BY <1>2, MenuConstants
    <2> QED BY <2>1, <2>2, <2>3 DEF Again
  <1>4. MenuTypeOK
    BY <1>1, <1>3 DEF MenuInit, MenuTypeOK, MenuSteps, NewRow, Kinds
  <1>5. UpToDate(query["admin-items"])
    BY <1>3, MenuConstants DEF UpToDate
  <1> QED BY <1>4, <1>5 DEF MenuInv, ListInv

\* No step of any desk leaves a change off the list for good.
LEMMA MenuInvStep == ASSUME Entries, MenuInv, [Next]_vars PROVE MenuInv'
  <1>0. UNCHANGED menuVars /\ (\A q \in MenuQueries : query'[q] = query[q]) => MenuInv'
    <2>1. /\ token \in {"fresh", "expired"} /\ addForm \in {"closed", "blank", "ready"}
          /\ row \in [expanded : BOOLEAN, editing : BOOLEAN] /\ (RowShown(query) \/ row = NewRow)
      BY DEF MenuInv, MenuTypeOK
    <2> QED BY <2>1, MenuUntouched DEF menuVars
  <1>1. CASE AtTheDoors(VisitStep)
    BY <1>0, <1>1 DEF AtTheDoors
  <1>2. CASE AtTheOrders(StaffStep)
    BY <1>0, <1>2, StaffLeavesMenu DEF AtTheOrders
  <1>3. CASE AtTheMenu(MenuStep)
    <2>1. MenuStep
      BY <1>3 DEF AtTheMenu
    <2>2. CASE RowButtons \/ ShowAddItem \/ ChooseCategory \/ Expire
      BY <2>2, MenuButtons
    <2>3. ASSUME NEW k \in Kinds, Ask(k) \/ Handle(k) \/ LoseAsk(k) \/ Acked(k) PROVE MenuInv'
      BY <2>3, MenuRequests, MenuAcked
    <2> QED BY <2>1, <2>2, <2>3, MenuFetches DEF MenuStep
  <1>4. CASE UNCHANGED vars
    BY <1>0, <1>4 DEF vars
  <1> QED BY <1>1, <1>2, <1>3, <1>4 DEF Next

\* The list has the item, or what brings it is still to come.
THEOREM MenuInvariant == Spec => []MenuInv
  <1>1. ConsoleInv /\ MenuInv /\ [Next]_vars => MenuInv'
    BY MenuInvStep DEF ConsoleInv
  <1> QED BY <1>1, MenuInitHolds, ConsoleInvariant, PTL DEF Spec

\* invalidateQueries of the menu editor: whatever the order in which requests are
\* sent, handled and answered, a list with nothing under way has the item as the
\* catalogue does, but for the exceptions the property names.
THEOREM ListComesToTheMenu == Spec => []ListIsTheMenu
  <1>1. MenuInv => ListIsTheMenu
    BY DEF MenuInv, ListInv, NoneDone, UpToDate, Right, ListIsTheMenu, Listing, Fetching, Loaded
  <1> QED BY <1>1, MenuInvariant, PTL
-----------------------------------------------------------------------------
(* Types, and what hangs together.                                         *)

\* GET /orders/{id} is answered for the caller's own orders only, and only the
\* page of the order remembers what it was told.
OwnOrders ==
    /\ own \in BOOLEAN
    /\ Loaded("staff-order") \/ query["staff-order"].fetch \in Statuses => own
    /\ seen # NoStatus => page = "detail"

TabInv == desk \in Desks /\ OwnOrders /\ VisitTypeOK

\* Where guards send: to the sign-in page or home.
LEMMA RedirectTyped == ASSUME NEW p, NEW u PROVE Redirect(p, u) \in {"auth", "home", Nowhere}
  <1>1. /\ AuthRedirect(p, u) \in {"auth", Nowhere} /\ RoleRedirect(p, u) \in {"auth", "home", Nowhere}
        /\ SignedInRedirect(p, u) \in {"home", Nowhere}
    BY DEF AuthRedirect, RoleRedirect, SignedInRedirect
  <1> QED BY <1>1 DEF Redirect

\* The pages that code and guards name.
LEMMA PagesKnown == "auth" \in VisitPages /\ "home" \in VisitPages /\ {"queue", "detail", "menu"} \subseteq VisitPages
  BY DEF VisitPages, CustomerPages, StaffPages, Public

\* What is called for, by a guard or by code.
NavigationTyped ==
    /\ pending \in VisitPages \cup {Nowhere} /\ forced \in BOOLEAN /\ cut \in BOOLEAN
    /\ forced => pending \in {"auth", "home"}

\* The router is called by code.
LEMMA CalledTyped ==
    ASSUME NavigationTyped, NEW p \in VisitPages, Call(p) PROVE NavigationTyped'
  BY DEF NavigationTyped, Call

\* The router is called by a guard.
LEMMA GuardedTyped ==
    ASSUME NEW p \in {"auth", "home"}, Guarded(p) PROVE NavigationTyped'
  BY PagesKnown DEF NavigationTyped, Guarded

\* The user changes, and the guards look again.
LEMMA AuthChangesTyped ==
    ASSUME NavigationTyped, NEW u, NEW called \in VisitPages \cup {Nowhere}, AuthChanges(u, called)
    PROVE  NavigationTyped' /\ user' = u
  <1>1. CASE Redirect(page, u) # Nowhere
    BY <1>1, RedirectTyped, GuardedTyped DEF AuthChanges
  <1>2. CASE Redirect(page, u) = Nowhere /\ called # Nowhere
    BY <1>2, CalledTyped DEF AuthChanges
  <1>3. CASE Redirect(page, u) = Nowhere /\ called = Nowhere
    BY <1>3 DEF AuthChanges, NavigationTyped
  <1> QED BY <1>1, <1>2, <1>3 DEF AuthChanges

\* What a visitor does stays on the pages there are.
LEMMA VisitTyped == ASSUME VisitTypeOK, VisitStep PROVE VisitTypeOK'
  <1>0. NavigationTyped
    BY DEF NavigationTyped, VisitTypeOK
  <1>1. CASE PageArrives
    <2>1. NavigationTyped'
      <3>1. CASE ~restoring /\ GuardRuns(page, pending) /\ Redirect(pending, user) # Nowhere
        BY <1>1, <3>1, RedirectTyped, GuardedTyped DEF PageArrives
      <3>2. CASE ~(~restoring /\ GuardRuns(page, pending) /\ Redirect(pending, user) # Nowhere)
        BY <1>0, <1>1, <3>2 DEF PageArrives, NavigationTyped
      <3> QED BY <3>1, <3>2
    <2>2. page' \in VisitPages /\ tab' \in Tabs /\ UNCHANGED <<user, restoring, form, leaving>>
      BY <1>1 DEF PageArrives, VisitTypeOK, Tabs
    <2> QED BY <2>1, <2>2 DEF VisitTypeOK, NavigationTyped
  <1>2. CASE Restore
    <2>1. PICK u \in Roles \cup {Nobody} : AuthChanges(u, Nowhere)
      BY <1>2 DEF Restore
    <2>2. NavigationTyped' /\ user' \in Roles \cup {Nobody}
      BY <1>0, <2>1, AuthChangesTyped
    <2> QED BY <1>2, <2>2 DEF Restore, VisitTypeOK, NavigationTyped
  <1>3. CASE SignedIn
    <2>1. PICK u \in Roles :
             \/ AuthChanges(u, "home") \/ AuthChanges(u, Nowhere)
             \/ user' = u /\ \E back \in VisitPages : Call(back)
      BY <1>3 DEF SignedIn, Roles
    <2>2. NavigationTyped' /\ user' \in Roles \cup {Nobody}
      BY <1>0, <2>1, AuthChangesTyped, CalledTyped, PagesKnown
    <2> QED BY <1>3, <2>2 DEF SignedIn, VisitTypeOK, NavigationTyped, Forms
  <1>4. CASE SignedOut
    <2>1. NavigationTyped' /\ user' \in Roles \cup {Nobody}
      BY <1>0, <1>4, AuthChangesTyped, PagesKnown DEF SignedOut
    <2> QED BY <1>4, <2>1 DEF SignedOut, VisitTypeOK, NavigationTyped
  <1>5. CASE SubmitForm
    <2>1. form' \in Forms
      BY <1>5 DEF SubmitForm, OnScreen, VisitTypeOK, Tabs, Forms
    <2> QED BY <1>5, <2>1 DEF SubmitForm, VisitTypeOK
  <1>6. CASE PasswordSet
    <2>1. NavigationTyped' /\ tab' \in Tabs
      BY <1>0, <1>6, CalledTyped, PagesKnown DEF PasswordSet, NavigationTyped, VisitTypeOK, Tabs
    <2> QED BY <1>6, <2>1 DEF PasswordSet, VisitTypeOK, NavigationTyped, Forms
  <1>7. CASE ResetAsked \/ FormFails
    BY <1>7 DEF ResetAsked, FormFails, VisitTypeOK, Tabs, Forms
  <1>8. CASE SignOut
    BY <1>8 DEF SignOut, VisitTypeOK
  <1>9. ASSUME NEW p \in VisitPages, Follow(p) PROVE VisitTypeOK'
    <2>1. NavigationTyped'
      BY <1>0, <1>9, CalledTyped DEF Follow
    <2> QED BY <1>9, <2>1 DEF Follow, VisitTypeOK, NavigationTyped
  <1>10. ASSUME NEW t \in Tabs, ChooseTab(t) PROVE VisitTypeOK'
    BY <1>10 DEF ChooseTab, VisitTypeOK
  <1> QED BY <1>1, <1>2, <1>3, <1>4, <1>5, <1>6, <1>7, <1>8, <1>9, <1>10 DEF VisitStep

\* What a step of the staff makes of the order the page has read.
LEMMA OrderRead ==
    ASSUME ConsoleInv, StaffStep
    PROVE  LET old == query["staff-order"]
               new == query'["staff-order"]
           IN  \/ Again(old, new)
               \/ new.data = old.data /\ (new.fetch \in Statuses => own)
               \/ new.data = old.fetch /\ old.fetch \in Statuses /\ new.fetch = NoFetch
  <1> DEFINE old == query["staff-order"]
             new == query'["staff-order"]
  <1>0. /\ old \in Query("staff-order") /\ "staff-order" \in Queries /\ "staff-order" \in OrderQueries
        /\ Values["staff-order"] = Statuses /\ Refused \notin Statuses /\ NoFetch \notin Statuses
    BY StaffAssumption, CacheAssumption DEF ConsoleInv, Entries, OrderQueries
  <1>1. CASE UNCHANGED query
    BY <1>1 DEF Again
  <1>2. ASSUME NEW q \in OrderQueries, NEW entry, query' = [query EXCEPT ![q] = entry]
        PROVE  new = IF q = "staff-order" THEN entry ELSE old
    BY <1>0, <1>2 DEF ConsoleInv, Entries
  <1>3. CASE Focus \/ Interval
    <2>1. PICK q \in OrderQueries : query' = [query EXCEPT ![q] = Joining(query[q])]
      BY <1>3 DEF Focus, Interval, OrderQueries
    <2>2. new = Joining(old) \/ new = old
      BY <1>2, <2>1
    <2> QED BY <1>0, <2>2, JoiningAgain DEF Again
  <1>4. CASE Refresh
    <2>1. query' = [query EXCEPT !["staff-orders"] = Replacing(query["staff-orders"])]
      BY <1>4 DEF Refresh
    <2>2. new = old
      BY <1>2, <2>1 DEF OrderQueries
    <2> QED BY <2>2 DEF Again
  <1>5. ASSUME NEW p, Visit(p) PROVE Again(old, new)
    <2>1. PICK expired \in BOOLEAN :
             query' = [q \in Queries |-> IF Shows(p, q) THEN Mounted(query[q], expired) ELSE query[q]]
      BY <1>5 DEF Visit
    <2>2. new = Mounted(old, expired) \/ new = old
      BY <1>0, <2>1
    <2> QED BY <1>0, <2>2, MountedAgain DEF Again
  <1>6. ASSUME NEW b \in Buttons, Done(b) PROVE Again(old, new)
    BY <1>0, <1>6, ToldAgain DEF Done, ConsoleInv
  <1>7. ASSUME NEW q \in OrderQueries, ServeOrder(q)
        PROVE  Again(old, new) \/ (new.data = old.data /\ (new.fetch \in Statuses => own))
    <2>1. query' = [query EXCEPT ![q] = [query[q] EXCEPT !.fetch = AnswerTo(q)]]
      BY <1>7 DEF ServeOrder, Serve, ConsoleInv, Entries
    <2>2. CASE q = "staff-order"
      <3>1. AnswerTo(q) = IF own THEN status ELSE Refused
        BY <2>2 DEF AnswerTo
      <3>2. new = [old EXCEPT !.fetch = AnswerTo(q)]
        BY <1>2, <2>1, <2>2
      <3> QED BY <1>0, <3>1, <3>2 DEF Query
    <2>3. CASE q # "staff-order"
      BY <1>2, <2>1, <2>3 DEF Again
    <2> QED BY <2>2, <2>3
  <1>8. ASSUME NEW q \in OrderQueries, ArriveOrder(q) \/ FailOrder(q)
        PROVE  \/ Again(old, new)
               \/ new.data = old.data /\ (new.fetch \in Statuses => own)
               \/ new.data = old.fetch /\ old.fetch \in Statuses /\ new.fetch = NoFetch
    <2>1. CASE q # "staff-order"
      <3>1. \E entry : query' = [query EXCEPT ![q] = entry]
        BY <1>8 DEF ArriveOrder, Arrive, FailOrder, Fail
      <3> QED BY <1>2, <2>1, <3>1 DEF Again
    <2>2. CASE q = "staff-order" /\ (FailOrder(q) \/ old.fetch = Refused)
      <3>1. query' = [query EXCEPT ![q] = Broken(old)]
        BY <1>0, <1>8, <2>2 DEF ArriveOrder, Arrive, FailOrder, Fail, ConsoleInv, Entries
      <3>2. new = Broken(old)
        BY <1>2, <2>2, <3>1
      <3> QED BY <1>0, <3>2 DEF Broken, Query
    <2>3. CASE q = "staff-order" /\ ~(FailOrder(q) \/ old.fetch = Refused)
      <3>1. old.fetch \in Statuses /\ query' = [query EXCEPT ![q] = Answered(old)]
        BY <1>0, <1>8, <2>3 DEF ArriveOrder, Arrive, ConsoleInv, Entries
      <3>2. new = Answered(old)
        BY <1>2, <2>3, <3>1
      <3> QED BY <3>1, <3>2 DEF Answered
    <2> QED BY <2>1, <2>2, <2>3
  <1>9. CASE UNCHANGED query \/ Focus \/ Interval \/ Refresh \/ VisitQueue \/ VisitDetail
    BY <1>1, <1>3, <1>4, <1>5, <1>9 DEF VisitQueue, VisitDetail
  <1>10. \/ UNCHANGED query
         \/ Focus \/ Interval \/ Refresh \/ VisitQueue \/ VisitDetail \/ \E b \in Buttons : Done(b)
         \/ \E q \in OrderQueries : ServeOrder(q) \/ ArriveOrder(q) \/ FailOrder(q)
    BY DEF StaffStep, Click, Transition, LoseChange, Denied, Elsewhere
  <1> QED BY <1>6, <1>7, <1>8, <1>9, <1>10

\* The page remembers what it was told until it is left.
LEMMA SeenStaysOnPage ==
    ASSUME OwnOrders, StaffStep PROVE seen' # NoStatus => page' = "detail"
  <1>1. CASE VisitQueue \/ VisitDetail
    BY <1>1 DEF VisitQueue, VisitDetail, Visit
  <1>2. ASSUME NEW b \in Buttons, Done(b) PROVE seen' # NoStatus => page' = "detail"
    BY <1>2 DEF Done, OwnOrders
  <1>3. UNCHANGED <<seen, page>> \/ VisitQueue \/ VisitDetail \/ \E b \in Buttons : Done(b)
    BY DEF StaffStep, Focus, Interval, Refresh, Click, Transition, LoseChange, Denied, ServeOrder,
           ArriveOrder, FailOrder, Elsewhere, staffVars
  <1> QED BY <1>1, <1>2, <1>3 DEF OwnOrders

\* An order is only read by its owner, whatever staff click.
LEMMA StaffTyped ==
    ASSUME ConsoleInv, OwnOrders, VisitTypeOK, StaffStep, UNCHANGED visitVars
    PROVE  OwnOrders' /\ VisitTypeOK'
  <1>1. own' = own
    BY DEF StaffStep, VisitQueue, VisitDetail, Visit, Focus, Interval, Refresh, Click, Transition, LoseChange,
           Done, Denied, ServeOrder, ArriveOrder, FailOrder, Elsewhere, staffVars
  <1>2. page' = page \/ page' \in {"queue", "detail"}
    BY DEF StaffStep, VisitQueue, VisitDetail, Visit, Focus, Interval, Refresh, Click, Transition, LoseChange,
           Done, Denied, ServeOrder, ArriveOrder, FailOrder, Elsewhere
  <1>3. VisitTypeOK'
    BY <1>2, PagesKnown DEF VisitTypeOK, visitVars
  <1>4. Sent \notin Statuses /\ NoFetch \notin Statuses
    BY StaffAssumption, CacheAssumption
  <1>5. Loaded("staff-order")' \/ query'["staff-order"].fetch \in Statuses => own
    BY <1>4, OrderRead DEF OwnOrders, Loaded, Again
  <1> QED BY <1>1, <1>3, <1>5, SeenStaysOnPage DEF OwnOrders

\* Every step of the tab keeps its types.
LEMMA TabStep == ASSUME ConsoleInv, TabInv, [Next]_vars PROVE TabInv'
  <1>1. CASE AtTheDoors(VisitStep)
    <2>1. seen = NoStatus /\ UNCHANGED <<desk, query, own, seen>>
      BY <1>1 DEF AtTheDoors, ConsoleInv, ToldIsReached, staffVars
    <2>2. VisitTypeOK'
      BY <1>1, VisitTyped DEF AtTheDoors, TabInv
    <2> QED BY <2>1, <2>2 DEF TabInv, OwnOrders, Loaded
  <1>2. CASE AtTheOrders(StaffStep)
    BY <1>2, StaffTyped DEF AtTheOrders, TabInv
  <1>3. CASE AtTheMenu(MenuStep)
    <2>1. query'["staff-order"] = query["staff-order"]
      BY <1>3, MenuLeavesOrders DEF AtTheMenu, ConsoleInv, OrderQueries
    <2>2. UNCHANGED <<desk, page, own, seen>> /\ UNCHANGED visitVars
      BY <1>3 DEF AtTheMenu, staffVars
    <2>3. VisitTypeOK'
      BY <2>2 DEF TabInv, VisitTypeOK, visitVars
    <2> QED BY <2>1, <2>2, <2>3 DEF TabInv, OwnOrders, Loaded
  <1>4. CASE UNCHANGED vars
    BY <1>4 DEF vars, staffVars, visitVars, TabInv, OwnOrders, Loaded, VisitTypeOK
  <1> QED BY <1>1, <1>2, <1>3, <1>4 DEF Next

\* A page load has nobody signed in, or an admin.
LEMMA TabInitHolds == Init => TabInv
  <1> SUFFICES ASSUME Init PROVE TabInv
    OBVIOUS
  <1>1. VisitTypeOK
    <2>1. CASE VisitInit
      BY <2>1 DEF VisitInit, VisitTypeOK, Roles, Tabs, Forms
    <2>2. CASE SignedInAdmin /\ page \in {"queue", "detail", "menu"}
      BY <2>2, PagesKnown DEF SignedInAdmin, VisitTypeOK, Roles, Tabs, Forms
    <2> QED BY <2>1, <2>2 DEF Init
  <1>2. own \in BOOLEAN /\ seen = NoStatus
    BY DEF Init, StaffInit
  <1>3. query["staff-order"].data = NoData /\ query["staff-order"].fetch \in {NoFetch, Sent}
    <2>1. PICK shown : query = [q \in Queries |-> IF q \in shown THEN Started(Unasked) ELSE Unasked]
      <3>1. \E shown : PageLoad(shown)
        BY DEF Init
      <3> QED BY <3>1 DEF PageLoad
    <2>2. query["staff-order"] = Started(Unasked) \/ query["staff-order"] = Unasked
      BY <2>1, StaffAssumption
    <2>3. Unasked \in Query("staff-order") /\ Unasked.data = NoData /\ Unasked.fetch = NoFetch
      BY DEF Unasked, Query
    <2> QED BY <2>2, <2>3, StartedAgain DEF Again
  <1>4. NoFetch \notin Statuses /\ Sent \notin Statuses
    BY StaffAssumption, CacheAssumption
  <1> QED BY <1>1, <1>2, <1>3, <1>4 DEF TabInv, OwnOrders, Loaded, Init, Desks

\* AppProviders, the guards, the staff console and the menu editor: the toggle of
\* an item has one request, a row that is gone keeps nothing, only the page of an
\* order remembers what it was told, an order is shown to its owner, and a guard
\* sends nowhere but home and to the sign-in page.
THEOREM ConsoleTypeCorrect == Spec => []ConsoleTypeOK
  <1>1. ConsoleInv /\ TabInv /\ [Next]_vars => TabInv'
    BY TabStep
  <1>2. ConsoleInv /\ MenuInv /\ TabInv => ConsoleTypeOK
    BY DEF ConsoleInv, MenuInv, TabInv, OwnOrders, OnItsWay, Entries, Requests, ToldIsReached,
           ConsoleTypeOK, StaffTypeOK
  <1> QED BY <1>1, <1>2, TabInitHolds, ConsoleInvariant, MenuInvariant, PTL DEF Spec
=============================================================================
