------------------------- MODULE TokenRefreshProofs -------------------------
(***************************************************************************)
(* A queue of calls always has the one call that refreshes for it, for any *)
(* number of tabs, calls and requests.                                     *)
(***************************************************************************)
EXTENDS TokenRefresh, SessionsProofs, FiniteSetTheorems

\* What the server does for a browser: its requests concern refresh tokens, and
\* one that is about to issue a session holds none.
ServerInv ==
    /\ SessionInv
    /\ \A r \in Requests :
          /\ request[r].row \in RefreshTokens \cup {None}
          /\ request[r].stage = "verified" => request[r].row = None

BrowserTypes ==
    /\ cookie \in RefreshTokens \cup {None}
    /\ tab \in [Tabs -> [page : {"closed", "restoring", "signed_out", "signed_in"},
                         access : {"none", "fresh", "stale"}, isRefreshing : BOOLEAN]]
    /\ call \in [Calls -> [stage : {"idle", "accepted", "unauthorized", "queued", "leading"}, retried : BOOLEAN]]
    /\ purpose \in [Requests -> [tab : Tabs \cup {None}, for : Purposes]]

\* A tab that says it refreshes has one request on its way for that and one
\* call that leads, and only then do calls wait.
TabIsSound(t) ==
    /\ tab[t].isRefreshing <=> \E r \in Requests : Awaits(r, t, "refresh")
    /\ tab[t].isRefreshing <=> Leader(t) # {}
    /\ Queued(t) # {} => Leader(t) # {}
    /\ \A r, q \in Requests : Awaits(r, t, "refresh") /\ Awaits(q, t, "refresh") => r = q
    /\ \A c, d \in Leader(t) : c = d

BrowserInv == ServerInv /\ BrowserTypes /\ \A t \in Tabs : TabIsSound(t)
-----------------------------------------------------------------------------
(* The server's side of the steps.                                         *)

\* A handler's answer.
LEMMA AnswerServer ==
    ASSUME ServerInv, SessionInv', NEW r \in Requests, NEW reply, NEW row \in RefreshTokens \cup {None},
           Answer(r, reply, row)
    PROVE  ServerInv'
<1>1. request'[r].row = row /\ request'[r].stage = "answered"
  BY DEF Answer, ServerInv, SessionInv, Types, Idle
<1>2. \A q \in Requests \ {r} : request'[q] = request[q]
  BY DEF Answer, ServerInv, SessionInv, Types
<1> QED BY <1>1, <1>2 DEF ServerInv

\* A handler that refuses.
LEMMA RefusalServer ==
    ASSUME ServerInv, NEW r \in Requests, NEW reply \in Replies, Answer(r, reply, None),
           UNCHANGED <<accounts, password, refresh_tokens, password_reset_tokens>>
    PROVE  ServerInv'
<1>1. SessionInv'
  BY RefusalStep DEF ServerInv
<1> QED BY <1>1, AnswerServer

\* A handler whose answer has been taken.
LEMMA FinishServer ==
    ASSUME ServerInv, NEW r \in Requests, Finish(r)
    PROVE  ServerInv'
<1>1. SessionInv'
  BY FinishStep DEF ServerInv
<1>2. request'[r] = Idle /\ \A q \in Requests \ {r} : request'[q] = request[q]
  BY DEF Finish, ServerInv, SessionInv, Types
<1> QED BY <1>1, <1>2 DEF ServerInv, Idle

\* /auth/refresh reads the row of the cookie.
LEMMA ReadTokenServer ==
    ASSUME ServerInv, NEW r \in Requests, NEW t \in RefreshTokens, ReadToken(r, t)
    PROVE  ServerInv'
<1>1. SessionInv'
  BY ReadTokenStep DEF ServerInv
<1>2. CASE Answer(r, "clear", None)
  BY <1>1, <1>2, AnswerServer
<1>3. CASE request' = [request EXCEPT ![r] =
                [Idle EXCEPT !.stage = "read", !.row = t, !.user = refresh_tokens[t].user,
                             !.proved = refresh_tokens[t].proved,
                             !.seen = password[refresh_tokens[t].user],
                             !.overtaken = refresh_tokens[t].overtaken]]
  <2>1. /\ request'[r].row = t /\ request'[r].stage = "read"
        /\ \A q \in Requests \ {r} : request'[q] = request[q]
    BY <1>3 DEF ServerInv, SessionInv, Types, Idle
  <2> QED BY <1>1, <2>1 DEF ServerInv
<1> QED
  BY <1>2, <1>3 DEF ReadToken

\* The browser asks for a refresh, with or without a cookie.
LEMMA AskRefreshServer ==
    ASSUME ServerInv, BrowserTypes, NEW r \in Requests, AskRefresh(r)
    PROVE  ServerInv'
<1>1. CASE cookie = None
  BY <1>1, RefusalServer DEF AskRefresh, Replies
<1>2. CASE cookie # None
  BY <1>2, ReadTokenServer DEF AskRefresh, BrowserTypes
<1> QED BY <1>1, <1>2

\* The browser signs in.
LEMMA LoginServer ==
    ASSUME ServerInv, NEW r \in Requests, Login(r, User)
    PROVE  ServerInv'
<1>1. SessionInv'
  BY RegisterStep, UserAssumption DEF ServerInv
<1>2. request'[r].row = None /\ \A q \in Requests \ {r} : request'[q] = request[q]
  BY DEF Login, Identify, ServerInv, SessionInv, Types, Idle
<1> QED BY <1>1, <1>2 DEF ServerInv

\* The browser signs out.
LEMMA LogoutServer ==
    ASSUME ServerInv, NEW r \in Requests, NEW t \in RefreshTokens, Logout(r, t)
    PROVE  ServerInv'
<1>1. SessionInv'
  BY LogoutStep DEF ServerInv
<1> QED BY <1>1, AnswerServer DEF Logout

\* There are more tokens than the cookie and the other requests can hold.
LEMMA NewTokenExists ==
    ASSUME ServerInv, NEW r \in Requests, request[r].stage = "verified"
    PROVE  NewToken \in RefreshTokens
<1> DEFINE f == [q \in Requests |-> IF q = r THEN cookie ELSE request[q].row]
           T == {f[q] : q \in Requests}
<1>1. f \in Surjection(Requests, T)
  BY DEF Surjection
<1>2. IsFiniteSet(T) /\ Cardinality(T) <= Cardinality(Requests)
  BY <1>1, TokensAssumption, FS_Surjection
<1>3. ~(RefreshTokens \subseteq T)
  <2>1. /\ Cardinality(T) \in Nat /\ Cardinality(Requests) \in Nat
        /\ Cardinality(RefreshTokens) \in Nat
    BY <1>2, TokensAssumption, FS_CardinalityType
  <2>2. Cardinality(RefreshTokens) > Cardinality(Requests)
    BY TokensAssumption
  <2>3. RefreshTokens \subseteq T => Cardinality(RefreshTokens) <= Cardinality(T)
    BY <1>2, FS_Subset
  <2> HIDE DEF T
  <2> QED BY <1>2, <2>1, <2>2, <2>3
<1>4. PICK t \in RefreshTokens : t \notin T
  BY <1>3
<1>5. t # cookie /\ \A q \in Requests : request[q].row # t
  <2>1. request[r].row = None /\ t # None
    BY NoneAssumption DEF ServerInv
  <2> QED BY <1>4, <2>1
<1> QED
  BY <1>4, <1>5 DEF NewToken

\* The handlers go on.
LEMMA ServerServer ==
    ASSUME ServerInv, NEW r \in Requests, ServerStep(r)
    PROVE  ServerInv'
<1>1. CASE ConsumeToken(r)
  <2>1. SessionInv'
    BY <1>1, ConsumeTokenStep DEF ServerInv
  <2>2. CASE Answer(r, "clear", None)
    BY <2>1, <2>2, AnswerServer
  <2>3. CASE request' = [request EXCEPT ![r].stage = "verified", ![r].row = None]
    <3>1. request'[r].row = None /\ \A q \in Requests \ {r} : request'[q] = request[q]
      BY <2>3 DEF ServerInv, SessionInv, Types, RequestRow
    <3> QED BY <2>1, <3>1 DEF ServerInv
  <2> QED BY <1>1, <2>2, <2>3 DEF ConsumeToken
<1>2. CASE IssueSession(r, NewToken)
  <2>1. NewToken \in RefreshTokens
    BY <1>2, NewTokenExists DEF IssueSession, AtStage
  <2>2. SessionInv'
    BY <1>2, <2>1, IssueSessionStep DEF ServerInv
  <2> QED BY <1>2, <2>1, <2>2, AnswerServer DEF IssueSession
<1>3. CASE Fail(r)
  BY <1>3, RefusalServer DEF Fail, Rollback, Replies
<1> QED
  BY <1>1, <1>2, <1>3 DEF ServerStep
-----------------------------------------------------------------------------
(* The tabs' side.                                                         *)

\* A step that neither starts nor ends a refresh of tab t.
LEMMA TabKept ==
    ASSUME NEW t \in Tabs, TabIsSound(t), tab'[t].isRefreshing = tab[t].isRefreshing,
           \A r \in Requests : Awaits(r, t, "refresh")' <=> Awaits(r, t, "refresh"),
           \A c \in CallsOf(t) : call'[c].stage = "leading" <=> call[c].stage = "leading",
           \A c \in CallsOf(t) :
               call'[c].stage = "queued" => call[c].stage = "queued" \/ tab[t].isRefreshing
    PROVE  TabIsSound(t)'
<1>1. Leader(t)' = Leader(t)
  BY DEF Leader, CallsOf
<1>2. Queued(t)' # {} => Queued(t) # {} \/ tab[t].isRefreshing
  BY DEF Queued, CallsOf
<1> QED BY <1>1, <1>2 DEF TabIsSound

\* A tab without a refresh and without calls that wait for one.
LEMMA TabAtRest ==
    ASSUME NEW t \in Tabs, ~tab'[t].isRefreshing,
           \A r \in Requests : ~Awaits(r, t, "refresh")',
           \A c \in CallsOf(t) : call'[c].stage \notin {"leading", "queued"}
    PROVE  TabIsSound(t)'
<1>1. Leader(t)' = {} /\ Queued(t)' = {}
  BY DEF Leader, Queued, CallsOf
<1> QED BY <1>1 DEF TabIsSound

\* A step of the server or of the network leaves the tabs alone.
LEMMA TabsLeftAlone ==
    ASSUME BrowserInv, ServerInv', UNCHANGED browserVars
    PROVE  BrowserInv'
<1>1. UNCHANGED <<cookie, tab, call, purpose>>
  BY DEF browserVars
<1>2. BrowserTypes'
  BY <1>1 DEF BrowserInv, BrowserTypes
<1>3. \A t \in Tabs : TabIsSound(t)'
  BY <1>1, TabKept DEF BrowserInv, Awaits
<1> QED BY <1>2, <1>3 DEF BrowserInv

\* The cookie a reply sets is a refresh token.
LEMMA CookieAfterType ==
    ASSUME BrowserInv, NEW r \in Requests
    PROVE  CookieAfter(r) \in RefreshTokens \cup {None}
  BY DEF CookieAfter, BrowserInv, BrowserTypes, ServerInv

\* A page load restores the session.
LEMMA LoadPageStep ==
    ASSUME BrowserInv, NEW t \in Tabs, NEW r \in Requests, LoadPage(t, r)
    PROVE  BrowserInv'
<1>1. /\ AskRefresh(r) /\ cookie' = cookie
      /\ purpose' = [Abandoned(t) EXCEPT ![r] = [tab |-> t, for |-> "restore"]]
      /\ tab' = [tab EXCEPT ![t] = [Closed EXCEPT !.page = "restoring"]]
      /\ call' = CallsDropped(t)
  BY DEF LoadPage
<1>2. ServerInv'
  BY <1>1, AskRefreshServer DEF BrowserInv
<1>3. Abandoned(t) \in [Requests -> [tab : Tabs \cup {None}, for : Purposes]]
  BY DEF BrowserInv, BrowserTypes, Abandoned, Nobody, Purposes
<1>4. BrowserTypes'
  BY <1>1, <1>3 DEF BrowserInv, BrowserTypes, Closed, CallsDropped, NoCall, Purposes
<1>5. \A s \in Tabs : TabIsSound(s)'
  <2>1. TAKE s \in Tabs
  <2>2. CASE s = t
    <3>1. ~tab'[t].isRefreshing
      BY <1>1 DEF BrowserInv, BrowserTypes, Closed
    <3>2. \A q \in Requests : ~Awaits(q, t, "refresh")'
      BY <1>1 DEF Abandoned, Awaits, Nobody
    <3>3. \A c \in CallsOf(t) : call'[c].stage \notin {"leading", "queued"}
      BY <1>1 DEF CallsOf, CallsDropped, NoCall
    <3> QED BY <2>2, <3>1, <3>2, <3>3, TabAtRest
  <2>3. CASE s # t
    <3>1. tab'[s] = tab[s]
      BY <1>1, <2>3 DEF BrowserInv, BrowserTypes
    <3>2. \A q \in Requests : Awaits(q, s, "refresh")' <=> Awaits(q, s, "refresh")
      <4>1. purpose[r] = NoPurpose
        BY DEF LoadPage
      <4> QED BY <1>1, <2>3, <4>1 DEF Abandoned, Awaits, Nobody, NoPurpose
    <3>3. \A c \in CallsOf(s) : call'[c] = call[c]
      BY <1>1, <2>3 DEF CallsOf, CallsDropped
    <3> QED BY <3>1, <3>2, <3>3, TabKept DEF BrowserInv
  <2> QED BY <2>2, <2>3
<1> QED BY <1>2, <1>4, <1>5 DEF BrowserInv

\* A reply to a request of AuthContext: of the tabs it changes the page and the
\* access token of one.
LEMMA AuthReplyStep ==
    ASSUME BrowserInv, NEW t \in Tabs, NEW r \in Requests, NEW for \in Purposes, for # "refresh",
           Awaits(r, t, for), Used(r), cookie' = CookieAfter(r), UNCHANGED call,
           NEW page \in {"signed_out", "signed_in"} \cup {tab[t].page},
           NEW access \in {"none", "fresh"} \cup {tab[t].access},
           tab' = [tab EXCEPT ![t].page = page, ![t].access = access]
    PROVE  BrowserInv'
<1>1. Finish(r) /\ purpose' = [purpose EXCEPT ![r] = NoPurpose]
  BY DEF Used
<1>2. ServerInv'
  BY <1>1, FinishServer DEF BrowserInv
<1>3. tab[t] \in [page : {"closed", "restoring", "signed_out", "signed_in"},
                  access : {"none", "fresh", "stale"}, isRefreshing : BOOLEAN]
  BY DEF BrowserInv, BrowserTypes
<1>4. BrowserTypes'
  <2>1. cookie' \in RefreshTokens \cup {None}
    BY CookieAfterType
  <2>2. purpose' \in [Requests -> [tab : Tabs \cup {None}, for : Purposes]]
    BY <1>1 DEF BrowserInv, BrowserTypes, NoPurpose, Purposes
  <2>3. tab' \in [Tabs -> [page : {"closed", "restoring", "signed_out", "signed_in"},
                           access : {"none", "fresh", "stale"}, isRefreshing : BOOLEAN]]
    BY <1>3 DEF BrowserInv, BrowserTypes
  <2> QED BY <2>1, <2>2, <2>3 DEF BrowserInv, BrowserTypes
<1>5. \A s \in Tabs : TabIsSound(s)'
  <2>1. TAKE s \in Tabs
  <2>2. tab'[s].isRefreshing = tab[s].isRefreshing
    BY <1>3 DEF BrowserInv, BrowserTypes
  <2>3. \A q \in Requests : Awaits(q, s, "refresh")' <=> Awaits(q, s, "refresh")
    BY <1>1 DEF Awaits, NoPurpose, BrowserInv, BrowserTypes
  <2> QED BY <2>2, <2>3, TabKept DEF BrowserInv
<1> QED BY <1>2, <1>4, <1>5 DEF BrowserInv

\* The answer of that refresh.
LEMMA RestoredStep ==
    ASSUME BrowserInv, NEW t \in Tabs, NEW r \in Requests, Restored(t, r)
    PROVE  BrowserInv'
<1> DEFINE page == IF Granted(r) THEN "signed_in" ELSE "signed_out"
           access == IF Granted(r) THEN "fresh" ELSE tab[t].access
<1>1. /\ Awaits(r, t, "restore") /\ Used(r) /\ cookie' = CookieAfter(r) /\ UNCHANGED call
      /\ tab' = [tab EXCEPT ![t].page = page, ![t].access = access]
  BY DEF Restored
<1>2. page \in {"signed_out", "signed_in"} \cup {tab[t].page} /\ access \in {"none", "fresh"} \cup {tab[t].access}
  OBVIOUS
<1>3. "restore" \in Purposes
  BY DEF Purposes
<1> HIDE DEF page, access
<1> QED BY <1>1, <1>2, <1>3, AuthReplyStep

\* The answer of a sign-in.
LEMMA SignedInStep ==
    ASSUME BrowserInv, NEW t \in Tabs, NEW r \in Requests, SignedIn(t, r)
    PROVE  BrowserInv'
<1> DEFINE page == IF Granted(r) THEN "signed_in" ELSE tab[t].page
           access == IF Granted(r) THEN "fresh" ELSE tab[t].access
<1>1. /\ Awaits(r, t, "login") /\ Used(r) /\ cookie' = CookieAfter(r) /\ UNCHANGED call
      /\ tab' = [tab EXCEPT ![t].page = page, ![t].access = access]
  BY DEF SignedIn
<1>2. page \in {"signed_out", "signed_in"} \cup {tab[t].page} /\ access \in {"none", "fresh"} \cup {tab[t].access}
  OBVIOUS
<1>3. "login" \in Purposes
  BY DEF Purposes
<1> HIDE DEF page, access
<1> QED BY <1>1, <1>2, <1>3, AuthReplyStep

\* The answer of a sign-out.
LEMMA SignedOutStep ==
    ASSUME BrowserInv, NEW t \in Tabs, NEW r \in Requests, SignedOut(t, r)
    PROVE  BrowserInv'
<1> DEFINE page == "signed_out"
           access == IF request[r].reply = "clear" THEN "none" ELSE tab[t].access
<1>1. /\ Awaits(r, t, "logout") /\ Used(r) /\ cookie' = CookieAfter(r) /\ UNCHANGED call
      /\ tab' = [tab EXCEPT ![t].page = page, ![t].access = access]
  BY DEF SignedOut
<1>2. page \in {"signed_out", "signed_in"} \cup {tab[t].page} /\ access \in {"none", "fresh"} \cup {tab[t].access}
  OBVIOUS
<1>3. "logout" \in Purposes
  BY DEF Purposes
<1> HIDE DEF page, access
<1> QED BY <1>1, <1>2, <1>3, AuthReplyStep

\* A request of AuthContext that is sent.
LEMMA AuthRequestStep ==
    ASSUME BrowserInv, ServerInv', NEW t \in Tabs, NEW r \in Requests, NEW for \in Purposes,
           for # "refresh", purpose[r] = NoPurpose, Send(r, t, for), UNCHANGED <<cookie, tab, call>>
    PROVE  BrowserInv'
<1>1. BrowserTypes'
  BY DEF BrowserInv, BrowserTypes, Send
<1>2. \A s \in Tabs : TabIsSound(s)'
  <2>1. TAKE s \in Tabs
  <2>2. \A q \in Requests : Awaits(q, s, "refresh")' <=> Awaits(q, s, "refresh")
    BY DEF Awaits, Send, NoPurpose, BrowserInv, BrowserTypes
  <2> QED BY <2>2, TabKept DEF BrowserInv
<1> QED BY <1>1, <1>2 DEF BrowserInv

\* The form of the sign-in page is sent.
LEMMA SignInStep ==
    ASSUME BrowserInv, NEW t \in Tabs, NEW r \in Requests, SignIn(t, r)
    PROVE  BrowserInv'
<1>1. ServerInv'
  BY LoginServer DEF SignIn, BrowserInv
<1> QED BY <1>1, AuthRequestStep DEF SignIn, Purposes

\* "Sign out" is clicked.
LEMMA SignOutStep ==
    ASSUME BrowserInv, NEW t \in Tabs, NEW r \in Requests, SignOut(t, r)
    PROVE  BrowserInv'
<1>1. cookie \in RefreshTokens /\ Logout(r, cookie)
  BY DEF SignOut, BrowserInv, BrowserTypes
<1>2. ServerInv'
  BY <1>1, LogoutServer DEF BrowserInv
<1> QED BY <1>2, AuthRequestStep DEF SignOut, Purposes
-----------------------------------------------------------------------------
(* The interceptors.                                                       *)

CallRow == [stage : {"idle", "accepted", "unauthorized", "queued", "leading"}, retried : BOOLEAN]

\* Steps the server has no part in.
LEMMA ServerAtRest ==
    ASSUME ServerInv, UNCHANGED vars PROVE ServerInv'
  BY DEF vars, ServerInv, SessionInv, Types, TokenIsSound, LinkIsSound, RequestIsSound, LinkThere

\* One call goes on without leading a refresh, and waits only while there is one.
LEMMA CallStep ==
    ASSUME BrowserInv, NEW c \in Calls, NEW new \in CallRow, call' = [call EXCEPT ![c] = new],
           call[c].stage # "leading", new.stage # "leading",
           new.stage = "queued" => tab[TabOf[c]].isRefreshing,
           UNCHANGED <<vars, cookie, tab, purpose>>
    PROVE  BrowserInv'
<1>1. ServerInv'
  BY ServerAtRest DEF BrowserInv
<1>2. BrowserTypes'
  BY DEF BrowserInv, BrowserTypes, CallRow
<1>3. \A t \in Tabs : TabIsSound(t)'
  <2>1. TAKE t \in Tabs
  <2>2. \A r \in Requests : Awaits(r, t, "refresh")' <=> Awaits(r, t, "refresh")
    BY DEF Awaits
  <2>3. \A d \in CallsOf(t) :
           /\ call'[d].stage = "leading" <=> call[d].stage = "leading"
           /\ call'[d].stage = "queued" => call[d].stage = "queued" \/ tab[t].isRefreshing
    BY DEF BrowserInv, BrowserTypes, CallsOf
  <2> QED BY <2>2, <2>3, TabKept DEF BrowserInv
<1> QED BY <1>1, <1>2, <1>3 DEF BrowserInv

\* Steps of one call that leave the refresh of its tab alone.
LEMMA PlainCallStep ==
    ASSUME BrowserInv, NEW c \in Calls, SendCall(c) \/ Succeed(c) \/ RejectForGood(c) \/ Enqueue(c)
    PROVE  BrowserInv'
<1>1. call[c] \in CallRow /\ NoCall \in CallRow /\ NoCall.stage = "idle"
  BY DEF BrowserInv, BrowserTypes, CallRow, NoCall
<1>2. CASE SendCall(c)
  <2> DEFINE new == [call[c] EXCEPT !.stage = Outcome(tab[TabOf[c]].access)]
  <2>1. new \in CallRow /\ new.stage \in {"accepted", "unauthorized"}
    BY <1>1 DEF CallRow, Outcome
  <2>2. /\ call' = [call EXCEPT ![c] = new] /\ call[c].stage = "idle"
        /\ UNCHANGED <<vars, cookie, tab, purpose>>
    BY <1>1, <1>2 DEF SendCall, BrowserInv, BrowserTypes
  <2> HIDE DEF new
  <2> QED BY <2>1, <2>2, CallStep
<1>3. CASE Succeed(c) \/ RejectForGood(c)
  <2>1. /\ call' = [call EXCEPT ![c] = NoCall] /\ call[c].stage # "leading"
        /\ UNCHANGED <<vars, cookie, tab, purpose>>
    BY <1>3 DEF Succeed, RejectForGood
  <2> QED BY <1>1, <2>1, CallStep
<1>4. CASE Enqueue(c)
  <2> DEFINE new == [call[c] EXCEPT !.stage = "queued"]
  <2>1. new \in CallRow /\ new.stage = "queued"
    BY <1>1 DEF CallRow
  <2>2. /\ call' = [call EXCEPT ![c] = new] /\ call[c].stage = "unauthorized"
        /\ tab[TabOf[c]].isRefreshing /\ UNCHANGED <<vars, cookie, tab, purpose>>
    BY <1>4 DEF Enqueue, BrowserInv, BrowserTypes
  <2> HIDE DEF new
  <2> QED BY <2>1, <2>2, CallStep
<1> QED
  BY <1>2, <1>3, <1>4

\* The call that finds no refresh under way becomes the one that leads.
LEMMA LeadStep ==
    ASSUME BrowserInv, NEW c \in Calls, NEW r \in Requests, Lead(c, r)
    PROVE  BrowserInv'
<1> DEFINE t == TabOf[c]
<1>1. /\ call[c].stage = "unauthorized" /\ ~tab[t].isRefreshing /\ purpose[r] = NoPurpose
      /\ AskRefresh(r) /\ cookie' = cookie
      /\ purpose' = [purpose EXCEPT ![r] = [tab |-> t, for |-> "refresh"]]
      /\ call' = [call EXCEPT ![c] = [stage |-> "leading", retried |-> TRUE]]
      /\ tab' = [tab EXCEPT ![t].isRefreshing = TRUE]
  BY DEF Lead, Send
<1>2. ServerInv'
  BY <1>1, AskRefreshServer DEF BrowserInv
<1>3. t \in Tabs
  BY TabOfAssumption
<1>4. /\ tab'[t] = [tab[t] EXCEPT !.isRefreshing = TRUE]
      /\ \A s \in Tabs \ {t} : tab'[s] = tab[s]
      /\ call'[c].stage = "leading" /\ \A d \in Calls \ {c} : call'[d] = call[d]
      /\ purpose'[r] = [tab |-> t, for |-> "refresh"]
      /\ \A q \in Requests \ {r} : purpose'[q] = purpose[q]
  BY <1>1, <1>3 DEF BrowserInv, BrowserTypes
<1>5. BrowserTypes'
  <2>1. tab[t] \in [page : {"closed", "restoring", "signed_out", "signed_in"},
                    access : {"none", "fresh", "stale"}, isRefreshing : BOOLEAN]
    BY <1>3 DEF BrowserInv, BrowserTypes
  <2>2. tab' \in [Tabs -> [page : {"closed", "restoring", "signed_out", "signed_in"},
                           access : {"none", "fresh", "stale"}, isRefreshing : BOOLEAN]]
    BY <1>1, <2>1 DEF BrowserInv, BrowserTypes
  <2>3. purpose' \in [Requests -> [tab : Tabs \cup {None}, for : Purposes]]
    BY <1>1, <1>3 DEF BrowserInv, BrowserTypes, Purposes
  <2> QED BY <1>1, <2>2, <2>3 DEF BrowserInv, BrowserTypes
<1> HIDE DEF t
<1>6. \A s \in Tabs : TabIsSound(s)'
  <2>1. TAKE s \in Tabs
  <2>2. CASE s = t
    <3>1. Leader(t) = {} /\ \A q \in Requests : ~Awaits(q, t, "refresh")
      BY <1>1, <1>3 DEF BrowserInv, TabIsSound
    <3>2. tab'[s].isRefreshing
      BY <1>3, <1>4, <2>2 DEF BrowserInv, BrowserTypes
    <3>3. Leader(s)' = {c}
      BY <1>4, <2>2, <3>1 DEF Leader, CallsOf, t
    <3>4. \A q \in Requests : Awaits(q, s, "refresh")' <=> q = r
      BY <1>4, <2>2, <3>1 DEF Awaits
    <3> QED BY <3>2, <3>3, <3>4 DEF TabIsSound
  <2>3. CASE s # t
    <3>1. \A q \in Requests : Awaits(q, s, "refresh")' <=> Awaits(q, s, "refresh")
      BY <1>1, <1>4, <2>3 DEF Awaits, NoPurpose
    <3>2. \A d \in CallsOf(s) : call'[d] = call[d]
      BY <1>4, <2>3 DEF CallsOf, t
    <3> QED BY <1>4, <2>3, <3>1, <3>2, TabKept DEF BrowserInv
  <2> QED BY <2>2, <2>3
<1> QED BY <1>2, <1>5, <1>6 DEF BrowserInv

\* The end of a refresh: every call that led or waited is let go.
LEMMA RefreshEnds ==
    ASSUME BrowserInv, ServerInv', BrowserTypes', NEW t \in Tabs, NEW r \in Requests,
           Awaits(r, t, "refresh"), ~tab'[t].isRefreshing,
           \A s \in Tabs \ {t} : tab'[s] = tab[s],
           \A c \in CallsOf(t) : call'[c].stage \notin {"leading", "queued"},
           \A c \in Calls \ CallsOf(t) : call'[c] = call[c],
           purpose'[r] = NoPurpose,
           \A q \in Requests \ {r} : purpose'[q] = purpose[q] \/ (purpose[q].tab = t /\ purpose'[q] = Nobody)
    PROVE  BrowserInv'
<1>1. ASSUME NEW s \in Tabs PROVE TabIsSound(s)'
  <2>1. CASE s = t
    <3>1. \A q \in Requests : Awaits(q, t, "refresh") => q = r
      BY DEF BrowserInv, TabIsSound
    <3>2. \A q \in Requests : ~Awaits(q, t, "refresh")'
      BY <3>1 DEF Awaits, NoPurpose, Nobody
    <3> QED BY <2>1, <3>2, TabAtRest
  <2>2. CASE s # t
    <3>1. \A q \in Requests : Awaits(q, s, "refresh")' <=> Awaits(q, s, "refresh")
      BY <2>2 DEF Awaits, NoPurpose, Nobody
    <3>2. \A c \in CallsOf(s) : call'[c] = call[c]
      BY <2>2 DEF CallsOf
    <3> QED BY <2>2, <3>1, <3>2, TabKept DEF BrowserInv
  <2> QED BY <2>1, <2>2
<1> QED BY <1>1 DEF BrowserInv

\* The refresh is granted: the queue and its leader go on.
LEMMA RefreshedStep ==
    ASSUME BrowserInv, NEW t \in Tabs, NEW r \in Requests, Refreshed(t, r)
    PROVE  BrowserInv'
<1>1. /\ Awaits(r, t, "refresh") /\ Finish(r) /\ purpose' = [purpose EXCEPT ![r] = NoPurpose]
      /\ cookie' = CookieAfter(r)
      /\ tab' = [tab EXCEPT ![t].access = "fresh", ![t].isRefreshing = FALSE]
      /\ call' = [c \in Calls |->
            IF c \in Queued(t) \cup Leader(t) THEN [call[c] EXCEPT !.stage = Outcome("fresh")] ELSE call[c]]
  BY DEF Refreshed, Used
<1>2. ServerInv'
  BY <1>1, FinishServer DEF BrowserInv
<1>3. \A c \in Calls : call[c] \in CallRow
  BY DEF BrowserInv, BrowserTypes, CallRow
<1>4. tab[t] \in [page : {"closed", "restoring", "signed_out", "signed_in"},
                  access : {"none", "fresh", "stale"}, isRefreshing : BOOLEAN]
  BY DEF BrowserInv, BrowserTypes
<1>5. BrowserTypes'
  <2>1. cookie' \in RefreshTokens \cup {None}
    BY <1>1, CookieAfterType
  <2>2. call' \in [Calls -> CallRow]
    BY <1>1, <1>3 DEF CallRow, Outcome
  <2>3. tab' \in [Tabs -> [page : {"closed", "restoring", "signed_out", "signed_in"},
                           access : {"none", "fresh", "stale"}, isRefreshing : BOOLEAN]]
    BY <1>1, <1>4 DEF BrowserInv, BrowserTypes
  <2>4. purpose' \in [Requests -> [tab : Tabs \cup {None}, for : Purposes]]
    BY <1>1 DEF BrowserInv, BrowserTypes, NoPurpose, Purposes
  <2> QED BY <2>1, <2>2, <2>3, <2>4 DEF BrowserTypes, CallRow
<1>6. ~tab'[t].isRefreshing /\ \A s \in Tabs \ {t} : tab'[s] = tab[s]
  BY <1>1, <1>4 DEF BrowserInv, BrowserTypes
<1>7. /\ \A c \in CallsOf(t) : call'[c].stage \notin {"leading", "queued"}
      /\ \A c \in Calls \ CallsOf(t) : call'[c] = call[c]
  <2>1. Queued(t) \cup Leader(t) = {c \in CallsOf(t) : call[c].stage \in {"leading", "queued"}}
    BY DEF Queued, Leader
  <2>2. CallsOf(t) \subseteq Calls
    BY DEF CallsOf
  <2> QED BY <1>1, <1>3, <2>1, <2>2 DEF CallRow, Outcome
<1>8. /\ purpose'[r] = NoPurpose
      /\ \A q \in Requests \ {r} : purpose'[q] = purpose[q]
  BY <1>1 DEF BrowserInv, BrowserTypes
<1> QED
  BY <1>1, <1>2, <1>5, <1>6, <1>7, <1>8, RefreshEnds

\* The refresh is refused: the queue and its leader give up.
LEMMA RefreshRefusedStep ==
    ASSUME BrowserInv, NEW t \in Tabs, NEW r \in Requests, RefreshRefused(t, r)
    PROVE  BrowserInv'
<1>1. Awaits(r, t, "refresh") /\ Finish(r) /\ cookie' = CookieAfter(r)
  BY DEF RefreshRefused
<1>2. ServerInv'
  BY <1>1, FinishServer DEF BrowserInv
<1>3. cookie' \in RefreshTokens \cup {None}
  BY <1>1, CookieAfterType
<1>4. \A c \in Calls : call[c] \in CallRow
  BY DEF BrowserInv, BrowserTypes, CallRow
<1>5. CASE /\ tab' = [tab EXCEPT ![t] = Closed] /\ call' = CallsDropped(t)
           /\ purpose' = [Abandoned(t) EXCEPT ![r] = NoPurpose]
  <2>1. Abandoned(t) \in [Requests -> [tab : Tabs \cup {None}, for : Purposes]]
    BY DEF BrowserInv, BrowserTypes, Abandoned, Nobody, Purposes
  <2>2. BrowserTypes'
    BY <1>3, <1>5, <2>1 DEF BrowserInv, BrowserTypes, Closed, CallsDropped, NoCall, NoPurpose, Purposes
  <2>3. ~tab'[t].isRefreshing /\ \A s \in Tabs \ {t} : tab'[s] = tab[s]
    BY <1>5 DEF BrowserInv, BrowserTypes, Closed
  <2>4. /\ \A c \in CallsOf(t) : call'[c].stage \notin {"leading", "queued"}
        /\ \A c \in Calls \ CallsOf(t) : call'[c] = call[c]
    BY <1>5 DEF CallsOf, CallsDropped, NoCall
  <2>5. /\ purpose'[r] = NoPurpose
        /\ \A q \in Requests \ {r} : purpose'[q] = purpose[q] \/ (purpose[q].tab = t /\ purpose'[q] = Nobody)
    BY <1>5 DEF Abandoned
  <2> QED BY <1>1, <1>2, <2>2, <2>3, <2>4, <2>5, RefreshEnds
<1>6. CASE /\ tab' = [tab EXCEPT ![t].isRefreshing = FALSE]
           /\ call' = [c \in Calls |-> IF c \in Queued(t) \cup Leader(t) THEN NoCall ELSE call[c]]
           /\ purpose' = [purpose EXCEPT ![r] = NoPurpose]
  <2>1. tab[t] \in [page : {"closed", "restoring", "signed_out", "signed_in"},
                    access : {"none", "fresh", "stale"}, isRefreshing : BOOLEAN]
    BY DEF BrowserInv, BrowserTypes
  <2>2. BrowserTypes'
    <3>1. call' \in [Calls -> CallRow]
      BY <1>4, <1>6 DEF CallRow, NoCall
    <3>2. tab' \in [Tabs -> [page : {"closed", "restoring", "signed_out", "signed_in"},
                             access : {"none", "fresh", "stale"}, isRefreshing : BOOLEAN]]
      BY <1>6, <2>1 DEF BrowserInv, BrowserTypes
    <3>3. purpose' \in [Requests -> [tab : Tabs \cup {None}, for : Purposes]]
      BY <1>6 DEF BrowserInv, BrowserTypes, NoPurpose, Purposes
    <3> QED BY <1>3, <3>1, <3>2, <3>3 DEF BrowserTypes, CallRow
  <2>3. ~tab'[t].isRefreshing /\ \A s \in Tabs \ {t} : tab'[s] = tab[s]
    BY <1>6, <2>1 DEF BrowserInv, BrowserTypes
  <2>4. /\ \A c \in CallsOf(t) : call'[c].stage \notin {"leading", "queued"}
        /\ \A c \in Calls \ CallsOf(t) : call'[c] = call[c]
    BY <1>6 DEF Queued, Leader, CallsOf, NoCall
  <2>5. /\ purpose'[r] = NoPurpose
        /\ \A q \in Requests \ {r} : purpose'[q] = purpose[q]
    BY <1>6 DEF BrowserInv, BrowserTypes
  <2> QED BY <1>1, <1>2, <2>2, <2>3, <2>4, <2>5, RefreshEnds
<1> QED
  BY <1>5, <1>6 DEF RefreshRefused

\* An access token expires.
LEMMA ExpireAccessStep ==
    ASSUME BrowserInv, NEW t \in Tabs, ExpireAccess(t)
    PROVE  BrowserInv'
<1>1. /\ tab' = [tab EXCEPT ![t].access = "stale"] /\ UNCHANGED <<vars, cookie, purpose>>
  BY DEF ExpireAccess
<1>2. PICK late \in SUBSET {c \in CallsOf(t) : call[c].stage = "accepted"} :
         call' = [c \in Calls |-> IF c \in late THEN [call[c] EXCEPT !.stage = "unauthorized"] ELSE call[c]]
  BY DEF ExpireAccess
<1>3. ServerInv'
  BY <1>1, ServerAtRest DEF BrowserInv
<1>4. tab[t] \in [page : {"closed", "restoring", "signed_out", "signed_in"},
                  access : {"none", "fresh", "stale"}, isRefreshing : BOOLEAN]
  BY DEF BrowserInv, BrowserTypes
<1>5. \A c \in Calls : call[c] \in CallRow
  BY DEF BrowserInv, BrowserTypes, CallRow
<1>6. BrowserTypes'
  <2>1. call' \in [Calls -> CallRow]
    BY <1>2, <1>5 DEF CallRow
  <2>2. tab' \in [Tabs -> [page : {"closed", "restoring", "signed_out", "signed_in"},
                           access : {"none", "fresh", "stale"}, isRefreshing : BOOLEAN]]
    BY <1>1, <1>4 DEF BrowserInv, BrowserTypes
  <2> QED BY <1>1, <2>1, <2>2 DEF BrowserInv, BrowserTypes, CallRow
<1>7. \A s \in Tabs : TabIsSound(s)'
  <2>1. TAKE s \in Tabs
  <2>2. tab'[s].isRefreshing = tab[s].isRefreshing
    BY <1>1, <1>4 DEF BrowserInv, BrowserTypes
  <2>3. \A c \in Calls : /\ call'[c].stage = "leading" <=> call[c].stage = "leading"
                         /\ call'[c].stage = "queued" <=> call[c].stage = "queued"
    BY <1>2, <1>5 DEF CallRow
  <2>4. \A q \in Requests : Awaits(q, s, "refresh")' <=> Awaits(q, s, "refresh")
    BY <1>1 DEF Awaits
  <2> QED BY <2>2, <2>3, <2>4, TabKept DEF BrowserInv, CallsOf
<1> QED BY <1>3, <1>6, <1>7 DEF BrowserInv

\* An answer nobody waits for any more.
LEMMA DropReplyStep ==
    ASSUME BrowserInv, NEW r \in Requests, DropReply(r)
    PROVE  BrowserInv'
<1>1. /\ purpose[r] = Nobody /\ Finish(r) /\ purpose' = [purpose EXCEPT ![r] = NoPurpose]
      /\ UNCHANGED <<cookie, tab, call>>
  BY DEF DropReply, Used
<1>2. ServerInv'
  BY <1>1, FinishServer DEF BrowserInv
<1>3. BrowserTypes'
  BY <1>1 DEF BrowserInv, BrowserTypes, NoPurpose, Purposes
<1>4. \A s \in Tabs : TabIsSound(s)'
  <2>1. TAKE s \in Tabs
  <2>2. \A q \in Requests : Awaits(q, s, "refresh")' <=> Awaits(q, s, "refresh")
    BY <1>1 DEF Awaits, NoPurpose, Nobody, BrowserInv, BrowserTypes
  <2> QED BY <1>1, <2>2, TabKept DEF BrowserInv
<1> QED BY <1>2, <1>3, <1>4 DEF BrowserInv

\* The server works, or an answer is lost on its way.
LEMMA ServerOrNetworkStep ==
    ASSUME BrowserInv, NEW r \in Requests, ServerStep(r) \/ LoseReply(r)
    PROVE  BrowserInv'
<1>1. CASE ServerStep(r)
  BY <1>1, ServerServer, TabsLeftAlone DEF ServerStep, BrowserInv
<1>2. CASE LoseReply(r)
  <2>1. ServerInv'
    BY <1>2, RefusalServer DEF LoseReply, BrowserInv, Replies
  <2> QED BY <1>2, <2>1, TabsLeftAlone DEF LoseReply
<1> QED BY <1>1, <1>2
-----------------------------------------------------------------------------
(* The theorem.                                                            *)

\* No tab yet, and the cookie of an earlier session.
LEMMA BrowserInvInit == BrowserInit => BrowserInv
<1> SUFFICES ASSUME BrowserInit PROVE BrowserInv
  OBVIOUS
<1>1. cookie \in RefreshTokens
  <2>1. RefreshTokens # {}
    <3>1. Cardinality(Requests) \in Nat
      BY TokensAssumption, FS_CardinalityType
    <3>2. Cardinality({}) = 0
      BY FS_EmptySet
    <3> QED BY <3>1, <3>2, TokensAssumption
  <2> QED BY <2>1 DEF BrowserInit
<1>2. SessionInv
  <2>1. NoLink \in ResetRow
    BY DEF NoLink, ResetRow
  <2> DEFINE row(t) == [Unissued EXCEPT !.state = IF t = cookie THEN "there" ELSE "gone", !.user = User]
  <2>2. ASSUME NEW t \in RefreshTokens PROVE row(t) \in RefreshRow
    BY UserAssumption DEF Unissued, RefreshRow
  <2>3. \A t \in RefreshTokens : /\ row(t).user = User /\ row(t).proved = 0
    BY DEF Unissued
  <2>4. refresh_tokens = [t \in RefreshTokens |-> row(t)]
    BY DEF BrowserInit
  <2> HIDE DEF row
  <2>5. Types
    BY <2>1, <2>2, <2>4, IdleRow, UserAssumption DEF BrowserInit, Types
  <2>6. ASSUME NEW t \in RefreshTokens PROVE TokenIsSound(refresh_tokens[t])
    <3>1. refresh_tokens[t].user = User /\ refresh_tokens[t].proved = 0
      BY <2>3, <2>4
    <3>2. password[User] = 0
      BY UserAssumption DEF BrowserInit
    <3> QED BY <3>1, <3>2, UserAssumption DEF TokenIsSound
  <2> QED BY <2>5, <2>6, IdleRow DEF BrowserInit, SessionInv, LinkIsSound, NoLink
<1>3. ServerInv
  BY <1>2 DEF BrowserInit, ServerInv, Idle
<1>4. BrowserTypes
  BY <1>1 DEF BrowserInit, BrowserTypes, Closed, NoCall, NoPurpose, Purposes
<1>5. \A t \in Tabs : TabIsSound(t)
  BY DEF BrowserInit, TabIsSound, Awaits, Leader, Queued, CallsOf, Closed, NoCall, NoPurpose
<1> QED BY <1>3, <1>4, <1>5 DEF BrowserInv

\* Every step of tabs, calls and server keeps the invariant.
LEMMA BrowserInvNext == BrowserInv /\ [BrowserNext]_allVars => BrowserInv'
<1> SUFFICES ASSUME BrowserInv, [BrowserNext]_allVars PROVE BrowserInv'
  OBVIOUS
<1>1. ASSUME NEW t \in Tabs, NEW r \in Requests, LoadPage(t, r) \/ SignIn(t, r) \/ SignOut(t, r)
      PROVE  BrowserInv'
  BY <1>1, LoadPageStep, SignInStep, SignOutStep
<1>2. ASSUME NEW t \in Tabs, ExpireAccess(t) PROVE BrowserInv'
  BY <1>2, ExpireAccessStep
<1>3. ASSUME NEW c \in Calls, SendCall(c) \/ React(c) PROVE BrowserInv'
  BY <1>3, PlainCallStep, LeadStep DEF React
<1>4. ASSUME NEW r \in Requests, ServerStep(r) \/ LoseReply(r) PROVE BrowserInv'
  BY <1>4, ServerOrNetworkStep
<1>5. ASSUME NEW r \in Requests, Deliver(r) PROVE BrowserInv'
  BY <1>5, RestoredStep, SignedInStep, SignedOutStep, RefreshedStep, RefreshRefusedStep, DropReplyStep
     DEF Deliver
<1>6. CASE UNCHANGED allVars
  BY <1>6, ServerAtRest, TabsLeftAlone DEF allVars, BrowserInv
<1> QED
  BY <1>1, <1>2, <1>3, <1>4, <1>5, <1>6 DEF BrowserNext

\* The invariant has the types, and a leader for every queue.
LEMMA BrowserTypesAndQueue == BrowserInv => BrowserTypeOK
<1> SUFFICES ASSUME BrowserInv PROVE BrowserTypeOK
  OBVIOUS
<1>1. TypeOK
  BY SessionTypes DEF BrowserInv, ServerInv
<1>2. ASSUME NEW t \in Tabs PROVE Cardinality(Leader(t)) <= 1
  <2>1. CASE Leader(t) = {}
    BY <2>1, FS_EmptySet
  <2>2. CASE Leader(t) # {}
    <3>1. PICK c : Leader(t) = {c}
      BY <2>2 DEF BrowserInv, TabIsSound
    <3>2. Cardinality({c}) = 1
      BY FS_Singleton
    <3> QED BY <3>1, <3>2
  <2> QED BY <2>1, <2>2
<1>3. QueueHasLeader
  BY <1>2 DEF BrowserInv, TabIsSound, QueueHasLeader
<1> QED
  BY <1>1, <1>3 DEF BrowserInv, BrowserTypes, TabIsSound, BrowserTypeOK

\* The interceptors of api.ts never leave a call in the queue without the one
\* call that refreshes for it, and isRefreshing is set exactly while a refresh
\* of the tab is on its way, however replies, reloads, sign-outs and lost
\* connections interleave; and a server with more tokens than requests always
\* has one to issue.
THEOREM QueueKeepsLeader == BrowserSpec => []BrowserTypeOK
  BY BrowserInvInit, BrowserInvNext, BrowserTypesAndQueue, PTL DEF BrowserSpec
=============================================================================
