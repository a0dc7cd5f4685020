----------------------------- MODULE TokenRefresh ---------------------------
(***************************************************************************)
(* A browser's tabs over the server of Sessions: AuthContext, the          *)
(* interceptors of services/api.ts and the cookie the tabs share.  A tab   *)
(* keeps its access token in memory; the refresh token lives in the cookie *)
(* and changes when a reply arrives, not when the server sends it.         *)
(*                                                                         *)
(* Of the server this module takes the handlers that touch the cookie.     *)
(* The account's password does not change, and the seven days of a refresh *)
(* token do not pass: to a browser both look like a row that is gone.      *)
(***************************************************************************)
EXTENDS Sessions

CONSTANTS
    Tabs,
    Calls,          \* API calls that need a session
    TabOf,          \* TabOf[c]: the tab that makes call c
    User,           \* whose browser it is
    Untroubled      \* nobody signs in or out, no reply is lost

ASSUME TabOfAssumption == TabOf \in [Calls -> Tabs]
ASSUME TokensAssumption ==
    /\ IsFiniteSet(RefreshTokens) /\ IsFiniteSet(Requests)
    /\ Cardinality(RefreshTokens) > Cardinality(Requests)
ASSUME UserAssumption == User \in Users
ASSUME UntroubledAssumption == Untroubled \in BOOLEAN

VARIABLES
    cookie,         \* the refresh token in the cookie jar
    tab,            \* tab[t]: the page AuthContext shows, access token, isRefreshing
    call,           \* call[c]: the stage of an API call and its _retry flag
    purpose         \* purpose[r]: which tab waits for server request r, and for what

browserVars == <<cookie, tab, call, purpose>>
allVars == <<vars, browserVars>>

Closed == [page |-> "closed", access |-> "none", isRefreshing |-> FALSE]
NoCall == [stage |-> "idle", retried |-> FALSE]
NoPurpose == [tab |-> None, for |-> "nothing"]
Nobody == [tab |-> None, for |-> "nobody"]
Purposes == {"nothing", "nobody", "restore", "refresh", "login", "logout"}

CallsOf(t) == {c \in Calls : TabOf[c] = t}
Queued(t) == {c \in CallsOf(t) : call[c].stage = "queued"}
Leader(t) == {c \in CallsOf(t) : call[c].stage = "leading"}
Awaits(r, t, for) == purpose[r] = [tab |-> t, for |-> for]
Send(r, t, for) == purpose' = [purpose EXCEPT ![r] = [tab |-> t, for |-> for]]

\* No reply of AuthContext's own requests is on its way to the tab.
AuthIsQuiet(t) == \A r \in Requests : purpose[r].tab = t => purpose[r].for = "refresh"

\* The jar after the reply to r has arrived.
CookieAfter(r) ==
    CASE request[r].reply = "session" -> request[r].row
      [] request[r].reply = "clear" -> None
      [] OTHER -> cookie
Granted(r) == request[r].reply = "session"

\* The request's slot is free again when its reply has been used or dropped.
Used(r) == Finish(r) /\ purpose' = [purpose EXCEPT ![r] = NoPurpose]

\* What the server makes of an API call depends on the access token it carries.
Outcome(access) == IF access = "fresh" THEN "accepted" ELSE "unauthorized"

\* handleRefresh answers 401 when there is no cookie.
AskRefresh(r) ==
    IF cookie = None
    THEN /\ AtStage(r, "idle")
         /\ Answer(r, "error", None)
         /\ UNCHANGED <<accounts, password, refresh_tokens, password_reset_tokens>>
    ELSE ReadToken(r, cookie)

\* Requests of a page that is gone: their replies reach nobody.
Abandoned(t) == [r \in Requests |-> IF purpose[r].tab = t THEN Nobody ELSE purpose[r]]
CallsDropped(t) == [c \in Calls |-> IF TabOf[c] = t THEN NoCall ELSE call[c]]
-----------------------------------------------------------------------------
(* AuthContext.                                                            *)

\* The page is loaded, for the first time or again: its memory is empty and the
\* session is restored from the cookie.
LoadPage(t, r) ==
    /\ Untroubled => tab[t].page = "closed"
    /\ purpose[r] = NoPurpose
    /\ AskRefresh(r)
    /\ purpose' = [Abandoned(t) EXCEPT ![r] = [tab |-> t, for |-> "restore"]]
    /\ tab' = [tab EXCEPT ![t] = [Closed EXCEPT !.page = "restoring"]]
    /\ call' = CallsDropped(t)
    /\ UNCHANGED cookie

Restored(t, r) ==
    /\ Awaits(r, t, "restore")
    /\ Used(r)
    /\ cookie' = CookieAfter(r)
    /\ tab' = [tab EXCEPT ![t].page = IF Granted(r) THEN "signed_in" ELSE "signed_out",
                          ![t].access = IF Granted(r) THEN "fresh" ELSE @]
    /\ UNCHANGED call

\* login; register differs in what it does to the accounts.
SignIn(t, r) ==
    /\ ~Untroubled
    /\ tab[t].page = "signed_out"
    /\ AuthIsQuiet(t)
    /\ purpose[r] = NoPurpose
    /\ Login(r, User)
    /\ Send(r, t, "login")
    /\ UNCHANGED <<cookie, tab, call>>

SignedIn(t, r) ==
    /\ Awaits(r, t, "login")
    /\ Used(r)
    /\ cookie' = CookieAfter(r)
    /\ tab' = [tab EXCEPT ![t].page = IF Granted(r) THEN "signed_in" ELSE @,
                          ![t].access = IF Granted(r) THEN "fresh" ELSE @]
    /\ UNCHANGED call

SignOut(t, r) ==
    /\ ~Untroubled
    /\ tab[t].page = "signed_in"
    /\ AuthIsQuiet(t)
    /\ purpose[r] = NoPurpose
    /\ cookie # None
    /\ Logout(r, cookie)
    /\ Send(r, t, "logout")
    /\ UNCHANGED <<cookie, tab, call>>

\* The user is forgotten in any case, the access token only after a reply.
SignedOut(t, r) ==
    /\ Awaits(r, t, "logout")
    /\ Used(r)
    /\ cookie' = CookieAfter(r)
    /\ tab' = [tab EXCEPT ![t].page = "signed_out",
                          ![t].access = IF request[r].reply = "clear" THEN "none" ELSE @]
    /\ UNCHANGED call
-----------------------------------------------------------------------------
(* The interceptors.                                                       *)

\* Pages that need a session make their calls behind ProtectedRoute.
SendCall(c) ==
    /\ call[c] = NoCall
    /\ tab[TabOf[c]].page = "signed_in"
    /\ call' = [call EXCEPT ![c].stage = Outcome(tab[TabOf[c]].access)]
    /\ UNCHANGED <<vars, cookie, tab, purpose>>

Succeed(c) ==
    /\ call[c].stage = "accepted"
    /\ call' = [call EXCEPT ![c] = NoCall]
    /\ UNCHANGED <<vars, cookie, tab, purpose>>

\* The second 401 of a call is final.
RejectForGood(c) ==
    /\ call[c].stage = "unauthorized"
    /\ call[c].retried
    /\ call' = [call EXCEPT ![c] = NoCall]
    /\ UNCHANGED <<vars, cookie, tab, purpose>>

\* A 401 while a refresh is in flight: the call waits for it.
Enqueue(c) ==
    /\ call[c].stage = "unauthorized"
    /\ ~call[c].retried
    /\ tab[TabOf[c]].isRefreshing
    /\ call' = [call EXCEPT ![c].stage = "queued"]
    /\ UNCHANGED <<vars, cookie, tab, purpose>>

\* Mutant: isRefreshing is set by whoever gets its reply first.
LeadUnmarked(c, r) ==
    /\ call[c] = [stage |-> "unauthorized", retried |-> FALSE]
    /\ ~tab[TabOf[c]].isRefreshing
    /\ purpose[r] = NoPurpose
    /\ AskRefresh(r)
    /\ Send(r, TabOf[c], "refresh")
    /\ call' = [call EXCEPT ![c] = [stage |-> "leading", retried |-> TRUE]]
    /\ UNCHANGED <<cookie, tab>>

\* The first 401: this call refreshes for all.
Lead(c, r) ==
    /\ call[c] = [stage |-> "unauthorized", retried |-> FALSE]
    /\ ~tab[TabOf[c]].isRefreshing
    /\ purpose[r] = NoPurpose
    /\ AskRefresh(r)
    /\ Send(r, TabOf[c], "refresh")
    /\ call' = [call EXCEPT ![c] = [stage |-> "leading", retried |-> TRUE]]
    /\ tab' = [tab EXCEPT ![TabOf[c]].isRefreshing = TRUE]
    /\ UNCHANGED cookie

\* processQueue(null, token) and the retries.
Refreshed(t, r) ==
    /\ Awaits(r, t, "refresh")
    /\ Granted(r)
    /\ Used(r)
    /\ cookie' = CookieAfter(r)
    /\ tab' = [tab EXCEPT ![t].access = "fresh", ![t].isRefreshing = FALSE]
    /\ call' = [c \in Calls |->
          IF c \in Queued(t) \cup Leader(t) THEN [call[c] EXCEPT !.stage = Outcome("fresh")] ELSE call[c]]

\* Mutant: only the leader learns that the refresh failed.
RefreshRefusedQuietly(t, r) ==
    /\ Awaits(r, t, "refresh")
    /\ ~Granted(r)
    /\ Finish(r)
    /\ cookie' = CookieAfter(r)
    /\ IF tab[t].access # "none"
       THEN /\ tab' = [tab EXCEPT ![t] = Closed]
            /\ call' = CallsDropped(t)
            /\ purpose' = [Abandoned(t) EXCEPT ![r] = NoPurpose]
       ELSE /\ tab' = [tab EXCEPT ![t].isRefreshing = FALSE]
            /\ call' = [c \in Calls |-> IF c \in Leader(t) THEN NoCall ELSE call[c]]
            /\ purpose' = [purpose EXCEPT ![r] = NoPurpose]

\* processQueue(error): all of them fail, and a page that had a session goes to
\* the login page, which is a new page.
RefreshRefused(t, r) ==
    /\ Awaits(r, t, "refresh")
    /\ ~Granted(r)
    /\ Finish(r)
    /\ cookie' = CookieAfter(r)
    /\ IF tab[t].access # "none"
       THEN /\ tab' = [tab EXCEPT ![t] = Closed]
            /\ call' = CallsDropped(t)
            /\ purpose' = [Abandoned(t) EXCEPT ![r] = NoPurpose]
       ELSE /\ tab' = [tab EXCEPT ![t].isRefreshing = FALSE]
            /\ call' = [c \in Calls |-> IF c \in Queued(t) \cup Leader(t) THEN NoCall ELSE call[c]]
            /\ purpose' = [purpose EXCEPT ![r] = NoPurpose]

\* The access token's lifetime is over, for some calls before they arrive.
ExpireAccess(t) ==
    /\ tab[t].access = "fresh"
    /\ tab' = [tab EXCEPT ![t].access = "stale"]
    /\ \E late \in SUBSET {c \in CallsOf(t) : call[c].stage = "accepted"} :
          call' = [c \in Calls |-> IF c \in late THEN [call[c] EXCEPT !.stage = "unauthorized"] ELSE call[c]]
    /\ UNCHANGED <<vars, cookie, purpose>>
-----------------------------------------------------------------------------
(* Server and network.                                                     *)

\* A token no request and no cookie holds: nobody can tell it from a new one.
NewToken == CHOOSE t \in RefreshTokens : t # cookie /\ \A r \in Requests : request[r].row # t

ServerStep(r) ==
    /\ \/ ConsumeToken(r)
       \/ IssueSession(r, NewToken)
       \/ Fail(r)
    /\ UNCHANGED browserVars

\* The connection breaks: the tab sees an error, and no Set-Cookie.
LoseReply(r) ==
    /\ ~Untroubled
    /\ AtStage(r, "answered")
    /\ purpose[r] # Nobody
    /\ Answer(r, "error", None)
    /\ UNCHANGED <<accounts, password, refresh_tokens, password_reset_tokens, browserVars>>

\* The reply to a page that is gone.
DropReply(r) ==
    /\ purpose[r] = Nobody
    /\ Used(r)
    /\ UNCHANGED <<cookie, tab, call>>
-----------------------------------------------------------------------------
\* A browser that was signed in when its last page was closed.
BrowserInit ==
    /\ accounts = {User}
    /\ password = [u \in Users |-> 0]
    /\ cookie = CHOOSE t \in RefreshTokens : TRUE
    /\ refresh_tokens = [t \in RefreshTokens |->
          [Unissued EXCEPT !.state = IF t = cookie THEN "there" ELSE "gone", !.user = User]]
    /\ password_reset_tokens = [l \in ResetLinks |-> NoLink]
    /\ request = [r \in Requests |-> Idle]
    /\ tab = [t \in Tabs |-> Closed]
    /\ call = [c \in Calls |-> NoCall]
    /\ purpose = [r \in Requests |-> NoPurpose]

Deliver(r) ==
    \/ \E t \in Tabs : Restored(t, r) \/ SignedIn(t, r) \/ SignedOut(t, r) \/ Refreshed(t, r) \/ RefreshRefused(t, r)
    \/ DropReply(r)

React(c) ==
    \/ Succeed(c) \/ RejectForGood(c) \/ Enqueue(c)
    \/ \E r \in Requests : Lead(c, r)

BrowserNext ==
    \/ \E t \in Tabs :
          \/ \E r \in Requests : LoadPage(t, r) \/ SignIn(t, r) \/ SignOut(t, r)
          \/ ExpireAccess(t)
    \/ \E c \in Calls : SendCall(c) \/ React(c)
    \/ \E r \in Requests : ServerStep(r) \/ Deliver(r) \/ LoseReply(r)

BrowserSpec == BrowserInit /\ [][BrowserNext]_allVars

\* Handlers and replies get on, and so does the code that handles a reply.  An
\* access token lives much longer than a call takes, so a call that is made
\* again and again finds it expired on the way only some of the times.
BrowserFairSpec ==
    /\ BrowserSpec
    /\ \A r \in Requests : WF_allVars(ServerStep(r) \/ Deliver(r))
    /\ \A c \in Calls : WF_allVars(React(c)) /\ SF_allVars(Succeed(c))
-----------------------------------------------------------------------------
(* Properties.                                                             *)

\* api.ts: a queued call waits for a refresh that another call of its page
\* leads and whose reply is still to come, so that the queue can drain.
QueueHasLeader ==
    \A t \in Tabs :
        /\ Queued(t) # {} => Leader(t) # {}
        /\ Leader(t) # {} => tab[t].isRefreshing
        /\ Cardinality(Leader(t)) <= 1

\* Types; a refresh is in flight for a tab exactly while it says so; and a queue of
\* calls has its leader.
BrowserTypeOK ==
    /\ TypeOK
    /\ cookie \in RefreshTokens \cup {None}
    /\ tab \in [Tabs -> [page : {"closed", "restoring", "signed_out", "signed_in"},
                         access : {"none", "fresh", "stale"}, isRefreshing : BOOLEAN]]
    /\ call \in [Calls -> [stage : {"idle", "accepted", "unauthorized", "queued", "leading"}, retried : BOOLEAN]]
    /\ purpose \in [Requests -> [tab : Tabs \cup {None}, for : Purposes]]
    /\ \A t \in Tabs : tab[t].isRefreshing <=> \E r \in Requests : Awaits(r, t, "refresh")
    /\ QueueHasLeader

\* No call of a page hangs: it succeeds, fails, or its page goes.
EveryCallSettles == \A c \in Calls : call[c].stage # "idle" ~> call[c].stage = "idle"

\* api.ts:31-32: the refresh cookie silently restores the session on the next
\* load.  Here nobody signs out and no call fails.
CookieRestores == \A t \in Tabs : tab[t].page # "signed_out"
=============================================================================
