------------------------------- MODULE Visits -------------------------------
(***************************************************************************)
(* Who may see which page, and how a tab gets there: AuthContext, the      *)
(* guards around the pages (RequireAuth of the customer layout, Protected- *)
(* Route, the gate of the staff page, the redirect of the sign-in page),   *)
(* the navigation bars, the forms of sign-in and password reset, and       *)
(* signing out.                                                            *)
(***************************************************************************)
EXTENDS Naturals, Pages

VARIABLES
    user,           \* AuthContext.user: its role, or Nobody
    restoring,      \* whether the first /auth/refresh of the page load runs: isLoading
    pending,        \* the navigation the router has not finished, or Nowhere
    forced,         \* whether a guard called for it
    cut,            \* (history) whether another navigation took the place of a guard's
    tab,            \* what the sign-in page shows
    form,           \* the form that has been sent, and has no answer yet
    leaving         \* the sign-out under way

visitVars == <<user, restoring, pending, forced, cut, tab, form, leaving>>

Nobody == "nobody"
Nowhere == "nowhere"
Roles == {"customer", "staff", "admin"}
Level(role) == CASE role = "customer" -> 0 [] role = "staff" -> 1 [] role = "admin" -> 2

Tabs == {"login", "register", "reset-request", "reset-sent", "reset-confirm"}
Forms == {"none", "login", "register", "staff-login", "reset-request", "reset-confirm", "new-password"}
-----------------------------------------------------------------------------
(* The guards.  A guard is an effect: it runs when it is mounted or when   *)
(* what it depends on has changed, after the code that changed it, and of  *)
(* two navigations the router finishes the later.                          *)

\* RequireAuth: sign in before anything else.
AuthRedirect(p, u) == IF p \in CustomerPages \ Public /\ u = Nobody THEN "auth" ELSE Nowhere

\* ProtectedRoute around a page of the console.  Around a customer page it never
\* redirects, because RequireAuth unmounts it.
RoleRedirect(p, u) ==
    IF p \notin {"detail", "menu", "reports"} THEN Nowhere
    ELSE IF u = Nobody THEN "auth"
    ELSE IF Level(u) < Level(IF p = "detail" THEN "staff" ELSE "admin") THEN "home"
    ELSE Nowhere

\* AuthContent: who is signed in has no business there.
SignedInRedirect(p, u) == IF p = "auth" /\ u # Nobody THEN "home" ELSE Nowhere

\* Where the guards of page p send u.
Redirect(p, u) ==
    CASE AuthRedirect(p, u) # Nowhere -> AuthRedirect(p, u)
      [] RoleRedirect(p, u) # Nowhere -> RoleRedirect(p, u)
      [] OTHER -> SignedInRedirect(p, u)

\* The layout stays from one customer page to the next, and its guard only runs
\* again when it comes to a page that is not public from one that is.
GuardRuns(from, to) ==
    IF AuthRedirect(to, user) # Nowhere
    THEN from \notin CustomerPages \/ from \in Public
    ELSE from # to

\* The router is called, by a guard or by code; what it had not finished is given up.
Guarded(p) == pending' = p /\ forced' = TRUE /\ cut' = FALSE
Call(p) == pending' = p /\ forced' = FALSE /\ cut' = (cut \/ forced)

\* Mutant: the guards only look when they are mounted.
AuthChangesUnguarded(u, called) ==
    /\ user' = u
    /\ IF called # Nowhere THEN Call(called) ELSE UNCHANGED <<pending, forced, cut>>

\* The user has changed and the code has called for a page: every mounted guard
\* looks again.
AuthChanges(u, called) ==
    /\ user' = u
    /\ IF Redirect(page, u) # Nowhere THEN Guarded(Redirect(page, u))
       ELSE IF called # Nowhere THEN Call(called)
       ELSE UNCHANGED <<pending, forced, cut>>

-----------------------------------------------------------------------------
(* Moving about.                                                           *)

\* What the bars and the pages lead to.  On its own page a link changes nothing.
CustomerNav == IF user = Nobody THEN {"home", "auth"} ELSE {"home", "profile"}
StaffNav == {"queue"} \cup (IF user = "admin" THEN {"menu", "reports"} ELSE {})

\* "Change password", the dashboard of staff.
ProfileLinks ==
    IF user = Nobody THEN {}
    ELSE {"auth"} \cup (IF user = "admin" THEN {"menu"} ELSE IF user = "staff" THEN {"queue"} ELSE {})

Links ==
    CASE page = "profile" -> CustomerNav \cup ProfileLinks
      [] page = "reset-password" -> CustomerNav \cup {"auth"}
      [] page = "queue" /\ user \in {"staff", "admin"} -> StaffNav \cup {"detail"}
      [] page \in {"home", "auth"} -> CustomerNav
      [] OTHER -> StaffNav

Follow(p) ==
    /\ p \in Links \ {page}
    /\ Call(p)
    /\ UNCHANGED <<page, user, restoring, tab, form, leaving>>

\* The router shows the page.  Its guards wait for the session to be restored.
PageArrives ==
    /\ pending # Nowhere
    /\ page' = pending
    /\ IF ~restoring /\ GuardRuns(page, pending) /\ Redirect(pending, user) # Nowhere
       THEN Guarded(Redirect(pending, user))
       ELSE pending' = Nowhere /\ forced' = FALSE /\ UNCHANGED cut
    /\ tab' = IF page = "auth" /\ pending = "auth" THEN tab ELSE "login"
    /\ UNCHANGED <<user, restoring, form, leaving>>
-----------------------------------------------------------------------------
(* The session.                                                            *)

\* restoreSession: the first refresh is answered or fails, whatever happened to
\* the user meanwhile.
Restore ==
    /\ restoring
    /\ restoring' = FALSE
    /\ \E u \in Roles \cup {Nobody} : AuthChanges(u, Nowhere)
    /\ UNCHANGED <<page, tab, form, leaving>>

\* The tabs of the sign-in page and the ways back to them.
ChooseTab(t) ==
    /\ page = "auth" /\ t # tab
    /\ \/ tab \in {"login", "register"} /\ t \in {"login", "register"}
       \/ tab = "login" /\ t = "reset-request"
       \/ tab \in {"reset-request", "reset-sent", "reset-confirm"} /\ t = "login"
    /\ tab' = t
    /\ UNCHANGED <<page, user, restoring, pending, forced, cut, form, leaving>>

\* The forms on the screen.  The sign-in page shows its own before the guard has
\* looked; the staff page is its own gate.
OnScreen ==
    CASE page = "auth" -> {tab} \ {"reset-sent"}
      [] page = "reset-password" -> {"new-password"}
      [] page = "queue" /\ ~restoring /\ user \notin {"staff", "admin"} -> {"staff-login"}
      [] OTHER -> {}

\* One form at a time, also of two pages (a bound).
SubmitForm ==
    /\ form = "none"
    /\ form' \in OnScreen
    /\ UNCHANGED <<page, user, restoring, pending, forced, cut, tab, leaving>>

\* Signing in: the page goes back to where the visitor came from, or home, unless
\* its guard is later.  A page that has been left goes on just the same.
SignedIn ==
    /\ form \in {"login", "register", "staff-login"}
    /\ \E u \in IF form = "register" THEN {"customer"} ELSE Roles :
          \/ form # "staff-login" /\ AuthChanges(u, "home")
          \/ form # "staff-login" /\ user' = u /\ \E back \in VisitPages \ {page} : Call(back)
          \/ form = "staff-login" /\ AuthChanges(u, Nowhere)
    /\ form' = "none"
    /\ UNCHANGED <<page, restoring, tab, leaving>>

\* A reset has been asked for, which is answered alike however it went.
ResetAsked ==
    /\ form = "reset-request"
    /\ tab' = IF page = "auth" THEN "reset-sent" ELSE tab
    /\ form' = "none"
    /\ UNCHANGED <<page, user, restoring, pending, forced, cut, leaving>>

\* The new password is set, with the form of either page.
PasswordSet ==
    /\ \/ form = "reset-confirm" /\ tab' = (IF page = "auth" THEN "login" ELSE tab) /\ UNCHANGED <<pending, forced, cut>>
       \/ form = "new-password" /\ Call("auth") /\ UNCHANGED tab
    /\ form' = "none"
    /\ UNCHANGED <<page, user, restoring, leaving>>

\* Wrong password, taken address, used link, too many attempts: the form says so.
FormFails ==
    /\ form \in {"login", "register", "staff-login", "reset-confirm", "new-password"}
    /\ form' = "none"
    /\ UNCHANGED <<page, user, restoring, pending, forced, cut, tab, leaving>>

\* "Sign out" of the profile and of the console's bar, which shows it to anyone.
SignOut ==
    /\ leaving = "none"
    /\ \/ page = "profile" /\ user # Nobody /\ leaving' = "profile"
       \/ page \in StaffPages /\ leaving' = "console"
    /\ UNCHANGED <<page, user, restoring, pending, forced, cut, tab, form>>

\* logout: the user goes even when the call has failed, but the console's bar only
\* goes on to its own sign-in when it has not.
SignedOut ==
    /\ leaving # "none"
    /\ AuthChanges(Nobody, "home") \/ (leaving = "console" /\ AuthChanges(Nobody, "queue"))
    /\ leaving' = "none"
    /\ UNCHANGED <<page, restoring, tab, form>>
-----------------------------------------------------------------------------
\* A page load, from a link, a bookmark or the mail with the reset link.
VisitInit ==
    /\ page \in VisitPages
    /\ user = Nobody /\ restoring = TRUE
    /\ pending = Nowhere /\ forced = FALSE /\ cut = FALSE
    /\ tab \in IF page = "auth" THEN {"login", "reset-confirm"} ELSE {"login"}
    /\ form = "none" /\ leaving = "none"

VisitStep ==
    \/ PageArrives \/ Restore \/ SubmitForm \/ SignedIn \/ ResetAsked \/ PasswordSet \/ FormFails
    \/ SignOut \/ SignedOut
    \/ \E p \in VisitPages : Follow(p)
    \/ \E t \in Tabs : ChooseTab(t)
-----------------------------------------------------------------------------
(* Properties.                                                             *)

VisitTypeOK ==
    /\ page \in VisitPages /\ user \in Roles \cup {Nobody} /\ restoring \in BOOLEAN
    /\ pending \in VisitPages \cup {Nowhere} /\ forced \in BOOLEAN /\ cut \in BOOLEAN
    /\ tab \in Tabs /\ form \in Forms /\ leaving \in {"none", "profile", "console"}
    /\ forced => pending \in {"auth", "home"}

\* What the tab shows is there to stay: a page for this user, or a form for a
\* visitor, and no spinner, no blank page and nothing to wait for.
AtRest == ~restoring /\ pending = Nowhere /\ Redirect(page, user) = Nowhere

\* RequireAuth, ProtectedRoute, AuthContent: wherever a visit begins, and whatever
\* signing in, signing out and restoring the session do to it in whatever order,
\* no guard sends a visitor round in circles or leaves a spinner, unless they
\* went elsewhere, or were taken, while a guard was redirecting.
VisitsSettle == ~AtRest ~> AtRest \/ cut
=============================================================================
