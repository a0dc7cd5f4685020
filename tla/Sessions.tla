------------------------------- MODULE Sessions -----------------------------
(***************************************************************************)
(* Accounts, refresh tokens and password resets: the handlers of           *)
(* auth_handlers.go, each cut at its database statements, and              *)
(* ConsumePasswordReset with the row locks of its transaction.             *)
(*                                                                         *)
(* Passwords are told apart by their number: password[u] counts the resets *)
(* of u.  A guest account is one whose password nobody knows, so no Login  *)
(* concerns it.  Requests that end with an error before they change        *)
(* anything are not steps, except a refused refresh: it clears the cookie. *)
(***************************************************************************)
EXTENDS Integers, FiniteSets

CONSTANTS
    Users,
    RefreshTokens,  \* refresh tokens; each is issued once
    ResetLinks,     \* password-reset tokens; each is issued once
    Requests,       \* requests that may run at once
    None,           \* no token, no user
    MayFail         \* whether a database call may fail

ASSUME NoneAssumption == None \notin Users \cup RefreshTokens \cup ResetLinks
ASSUME FailAssumption == MayFail \in BOOLEAN

VARIABLES
    accounts,               \* the users of the users table
    password,               \* password[u]: the number of u's password
    refresh_tokens,         \* refresh_tokens[t]: what became of token t
    password_reset_tokens,  \* password_reset_tokens[l]: what became of link l
    request                 \* request[r]: the stage of a handler and what it holds

vars == <<accounts, password, refresh_tokens, password_reset_tokens, request>>

\* A row goes from "unissued" to "there" to "gone".  Two fields are not in the
\* table: the password its holder has proved, and whether a reset overtook one
\* of the requests that led to the row.
RefreshRow == [state : {"unissued", "there", "gone"}, expired : BOOLEAN,
               user : Users \cup {None}, proved : Nat, overtaken : BOOLEAN]
ResetRow == [state : {"unissued", "there", "gone"}, expired : BOOLEAN,
             user : Users \cup {None}, since : Nat]

Unissued == [state |-> "unissued", expired |-> FALSE, user |-> None, proved |-> 0, overtaken |-> FALSE]
NoLink == [state |-> "unissued", expired |-> FALSE, user |-> None, since |-> 0]

Stages == {"idle", "read", "verified", "locked", "written", "answered"}
Replies == {"error", "session", "clear"}     \* what a reply does to the cookie
Idle == [stage |-> "idle", user |-> None, row |-> None, proved |-> 0, seen |-> 0,
         overtaken |-> FALSE, reply |-> "error"]

There(t) == refresh_tokens[t].state = "there"
LinkThere(l) == password_reset_tokens[l].state = "there"

AtStage(r, stage) == request[r].stage = stage
Goto(r, stage) == request' = [request EXCEPT ![r].stage = stage]
Answer(r, reply, row) ==
    request' = [request EXCEPT ![r] = [Idle EXCEPT !.stage = "answered", !.reply = reply, !.row = row]]

\* The request has found out who the user is.
Identify(r, u, proved, overtaken) ==
    request' = [request EXCEPT ![r] = [Idle EXCEPT !.stage = "verified", !.user = u, !.proved = proved,
                                                   !.seen = password[u], !.overtaken = overtaken]]
-----------------------------------------------------------------------------
(* Sessions.                                                               *)

\* CreateUser, for an account or a guest; the unique email decides a race.
Register(r, u) ==
    /\ AtStage(r, "idle")
    /\ u \notin accounts
    /\ accounts' = accounts \cup {u}
    /\ Identify(r, u, password[u], FALSE)
    /\ UNCHANGED <<password, refresh_tokens, password_reset_tokens>>

\* GetUserByEmail and CheckPassword, with the right password.
Login(r, u) ==
    /\ AtStage(r, "idle")
    /\ u \in accounts
    /\ Identify(r, u, password[u], FALSE)
    /\ UNCHANGED <<accounts, password, refresh_tokens, password_reset_tokens>>

\* issueSession: a row for the new token t, which is set as the cookie.
IssueSession(r, t) ==
    LET req == request[r] IN
    /\ AtStage(r, "verified")
    /\ refresh_tokens' = [refresh_tokens EXCEPT ![t] =
          [state |-> "there", expired |-> FALSE, user |-> req.user, proved |-> req.proved,
           overtaken |-> req.overtaken \/ req.seen # password[req.user]]]
    /\ Answer(r, "session", t)
    /\ UNCHANGED <<accounts, password, password_reset_tokens>>

\* GetRefreshToken.  A cookie without a row is refused and cleared.
ReadToken(r, t) ==
    LET row == refresh_tokens[t] IN
    /\ AtStage(r, "idle")
    /\ row.state # "unissued"
    /\ \/ /\ There(t)
          /\ request' = [request EXCEPT ![r] =
                [Idle EXCEPT !.stage = "read", !.row = t, !.user = row.user, !.proved = row.proved,
                             !.seen = password[row.user], !.overtaken = row.overtaken]]
       \/ (~There(t) \/ MayFail) /\ Answer(r, "clear", None)
    /\ UNCHANGED <<accounts, password, refresh_tokens, password_reset_tokens>>

\* DeleteRefreshToken, whose error is ignored, the expiry check and GetUserByID.
ConsumeToken(r) ==
    LET t == request[r].row IN
    /\ AtStage(r, "read")
    /\ \/ refresh_tokens' = [refresh_tokens EXCEPT ![t].state = "gone"]
       \/ MayFail /\ UNCHANGED refresh_tokens
    /\ \/ (refresh_tokens[t].expired \/ MayFail) /\ Answer(r, "clear", None)
       \/ /\ ~refresh_tokens[t].expired
          /\ request' = [request EXCEPT ![r].stage = "verified", ![r].row = None]
    /\ UNCHANGED <<accounts, password, password_reset_tokens>>

\* handleLogout: the error of the delete is ignored, the cookie cleared anyhow.
Logout(r, t) ==
    /\ AtStage(r, "idle")
    /\ refresh_tokens[t].state # "unissued"
    /\ \/ refresh_tokens' = [refresh_tokens EXCEPT ![t].state = "gone"]
       \/ MayFail /\ UNCHANGED refresh_tokens
    /\ Answer(r, "clear", None)
    /\ UNCHANGED <<accounts, password, password_reset_tokens>>

\* Seven days are over, for a row or for a handler that has read it.
ExpireToken(t) ==
    /\ There(t) \/ \E r \in Requests : AtStage(r, "read") /\ request[r].row = t
    /\ refresh_tokens' = [refresh_tokens EXCEPT ![t].expired = TRUE]
    /\ UNCHANGED <<accounts, password, password_reset_tokens, request>>
-----------------------------------------------------------------------------
(* Password resets.                                                        *)

\* handlePasswordResetRequest: lookup and insert; users are never deleted.
RequestReset(l, u) ==
    /\ u \in accounts
    /\ password_reset_tokens[l].state = "unissued"
    /\ password_reset_tokens' = [password_reset_tokens EXCEPT ![l] =
          [state |-> "there", expired |-> FALSE, user |-> u, since |-> password[u]]]
    /\ UNCHANGED <<accounts, password, refresh_tokens, request>>

ExpireLink(l) ==
    /\ LinkThere(l)
    /\ password_reset_tokens' = [password_reset_tokens EXCEPT ![l].expired = TRUE]
    /\ UNCHANGED <<accounts, password, refresh_tokens, request>>

\* Mutant: the lookup without FOR UPDATE.
LocksNoLink(r, l) == FALSE

\* The transaction holds a lock on the link's row, and on the user's row once
\* that is written.
LocksLink(r, l) == request[r].stage \in {"locked", "written"} /\ request[r].row = l
LocksUser(r, u) == AtStage(r, "written") /\ request[r].user = u

\* SELECT ... FOR UPDATE and the expiry check.  A request that waits for the
\* lock has changed nothing yet: it is a request that has not begun.
LockLink(r, l) ==
    /\ AtStage(r, "idle")
    /\ LinkThere(l)
    /\ ~password_reset_tokens[l].expired
    /\ \A q \in Requests : ~LocksLink(q, l)
    /\ request' = [request EXCEPT ![r] =
          [Idle EXCEPT !.stage = "locked", !.row = l, !.user = password_reset_tokens[l].user]]
    /\ UNCHANGED <<accounts, password, refresh_tokens, password_reset_tokens>>

\* UPDATE users; nobody sees the new password before the commit.
WriteUser(r) ==
    /\ AtStage(r, "locked")
    /\ \A q \in Requests : ~LocksUser(q, request[r].user)
    /\ Goto(r, "written")
    /\ UNCHANGED <<accounts, password, refresh_tokens, password_reset_tokens>>

\* The user's other links, which the delete must lock too, are free.
LinksAreFree(r) ==
    \A q \in Requests \ {r}, l \in ResetLinks :
        LinkThere(l) /\ password_reset_tokens[l].user = request[r].user => ~LocksLink(q, l)

\* Mutant: the refresh tokens of the user stay.
CommitKeepingSessions(r) ==
    LET u == request[r].user IN
    /\ AtStage(r, "written")
    /\ LinksAreFree(r)
    /\ password' = [password EXCEPT ![u] = @ + 1]
    /\ password_reset_tokens' = [l \in ResetLinks |->
          IF password_reset_tokens[l].user = u THEN [password_reset_tokens[l] EXCEPT !.state = "gone"]
          ELSE password_reset_tokens[l]]
    /\ Answer(r, "error", None)
    /\ UNCHANGED <<accounts, refresh_tokens>>

\* The two deletes and the commit.  A row inserted after its delete began is as
\* good as inserted after the commit.  The reply leaves the cookie alone.
Commit(r) ==
    LET u == request[r].user IN
    /\ AtStage(r, "written")
    /\ LinksAreFree(r)
    /\ password' = [password EXCEPT ![u] = @ + 1]
    /\ password_reset_tokens' = [l \in ResetLinks |->
          IF password_reset_tokens[l].user = u THEN [password_reset_tokens[l] EXCEPT !.state = "gone"]
          ELSE password_reset_tokens[l]]
    /\ refresh_tokens' = [t \in RefreshTokens |->
          IF refresh_tokens[t].user = u THEN [refresh_tokens[t] EXCEPT !.state = "gone"]
          ELSE refresh_tokens[t]]
    /\ Answer(r, "error", None)
    /\ UNCHANGED accounts

\* Two resets of one user wait for each other: one has written the user, the
\* other holds a link the first must delete.
Deadlocked(r, q) ==
    /\ {request[r].stage, request[q].stage} = {"locked", "written"}
    /\ request[r].user = request[q].user

\* Mutant: the failing handler forgets its transaction.
RollbackForgotten(r) == UNCHANGED request

Rollback(r) == Answer(r, "error", None)

\* The database breaks a deadlock by failing a statement of either side.
BreakDeadlock(r) ==
    /\ \E q \in Requests : Deadlocked(r, q)
    /\ Rollback(r)
    /\ UNCHANGED <<accounts, password, refresh_tokens, password_reset_tokens>>

\* A database call fails: 500.
Fail(r) ==
    /\ MayFail
    /\ request[r].stage \in {"verified", "locked", "written"}
    /\ Rollback(r)
    /\ UNCHANGED <<accounts, password, refresh_tokens, password_reset_tokens>>
-----------------------------------------------------------------------------
Init ==
    /\ accounts = {}
    /\ password = [u \in Users |-> 0]
    /\ refresh_tokens = [t \in RefreshTokens |-> Unissued]
    /\ password_reset_tokens = [l \in ResetLinks |-> NoLink]
    /\ request = [r \in Requests |-> Idle]

\* The reply has left.
Finish(r) ==
    /\ AtStage(r, "answered")
    /\ request' = [request EXCEPT ![r] = Idle]
    /\ UNCHANGED <<accounts, password, refresh_tokens, password_reset_tokens>>

SessionStep(r) ==
    \/ ConsumeToken(r)
    \/ \E t \in RefreshTokens : refresh_tokens[t].state = "unissued" /\ IssueSession(r, t)

ResetStep(r) == WriteUser(r) \/ Commit(r)

Next ==
    \/ \E r \in Requests :
          \/ \E u \in Users : Register(r, u) \/ Login(r, u)
          \/ \E t \in RefreshTokens : ReadToken(r, t) \/ Logout(r, t)
          \/ SessionStep(r)
          \/ \E l \in ResetLinks : LockLink(r, l)
          \/ ResetStep(r) \/ BreakDeadlock(r) \/ Fail(r) \/ Finish(r)
    \/ \E t \in RefreshTokens : ExpireToken(t)
    \/ \E l \in ResetLinks : ExpireLink(l) \/ \E u \in Users : RequestReset(l, u)

Spec == Init /\ [][Next]_vars

\* A transaction runs on; the database grants a row lock in the order of the
\* requests for it and breaks every deadlock.
FairSpec ==
    /\ Spec
    /\ \A r \in Requests : SF_vars(WriteUser(r)) /\ SF_vars(Commit(r)) /\ WF_vars(BreakDeadlock(r))
-----------------------------------------------------------------------------
(* Properties.                                                             *)

\* Types, and what a reset's transaction holds: a link of its user that stays
\* there until the transaction ends.
TypeOK ==
    /\ accounts \subseteq Users
    /\ password \in [Users -> Nat]
    /\ refresh_tokens \in [RefreshTokens -> RefreshRow]
    /\ password_reset_tokens \in [ResetLinks -> ResetRow]
    /\ request \in [Requests -> [stage : Stages, user : Users \cup {None},
                                 row : RefreshTokens \cup ResetLinks \cup {None},
                                 proved : Nat, seen : Nat, overtaken : BOOLEAN, reply : Replies]]
    /\ \A r \in Requests : request[r].stage \in {"locked", "written"} =>
          /\ request[r].row \in ResetLinks /\ LinkThere(request[r].row)
          /\ password_reset_tokens[request[r].row].user = request[r].user

\* password_reset.go: "a password change ends every session", with an exception
\* that the comment does not make.  A session whose holder proved an older
\* password descends from a request that was already under way when the password
\* changed, through any number of refreshes.
ResetEndsSessions ==
    \A t \in RefreshTokens :
        LET row == refresh_tokens[t] IN
        There(t) /\ row.proved # password[row.user] => row.overtaken

\* Every change of a password spends a link that was there until then and was
\* asked for under the password it replaces: no link works twice, and none
\* works after another has, however the transactions overlap.
LinksWorkOnce ==
    [][\A u \in Users : password'[u] # password[u] =>
          /\ password'[u] = password[u] + 1
          /\ \E l \in ResetLinks :
                /\ LinkThere(l) /\ password_reset_tokens'[l].state = "gone"
                /\ password_reset_tokens[l].user = u
                /\ password_reset_tokens[l].since = password[u]]_vars

\* Resets that meet do not wait for each other for ever.
ResetsFinish ==
    \A r \in Requests : request[r].stage \in {"locked", "written"}
                            ~> request[r].stage \notin {"locked", "written"}
=============================================================================
