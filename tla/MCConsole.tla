------------------------------ MODULE MCConsole ------------------------------
(***************************************************************************)
(* The bounds of the runs of Console.                                      *)
(***************************************************************************)
EXTENDS Console, TLC

MCQueries == ConsoleQueries
MCValues ==
    [q \in Queries |->
        CASE q = "staff-orders" -> Statuses \cup {"unlisted"}
          [] q = "staff-order" -> Statuses
          [] q = "admin-items" -> Item \cup {Absent}
          [] q = "admin-categories" -> {"some"}]
=============================================================================
