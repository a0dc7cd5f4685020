-------------------------------- MODULE Pages --------------------------------
(***************************************************************************)
(* The routes of the frontend, as far as guards and screens tell them      *)
(* apart: "home" stands for every customer page without a guard of its     *)
(* own, "profile" for every one with a ProtectedRoute.                     *)
(***************************************************************************)

VARIABLES
    page            \* the page on the screen

Public == {"auth", "reset-password"}
CustomerPages == {"home", "profile"} \cup Public
StaffPages == {"queue", "detail", "menu", "reports"}
VisitPages == CustomerPages \cup StaffPages
=============================================================================
