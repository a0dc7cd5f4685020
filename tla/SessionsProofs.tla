--------------------------- MODULE SessionsProofs ---------------------------
(***************************************************************************)
(* A password reset ends every link of its user, and every session but     *)
(* those of requests under way, for any number of users, tokens, links and *)
(* requests at once.                                                       *)
(***************************************************************************)
EXTENDS Sessions, TLAPS

RequestRow == [stage : Stages, user : Users \cup {None}, row : RefreshTokens \cup ResetLinks \cup {None},
               proved : Nat, seen : Nat, overtaken : BOOLEAN, reply : Replies]

\* A row that is there is a known user's, and its holder has proved the
\* password the user has, unless a reset came in between.
TokenIsSound(row) ==
    row.state = "there" =>
        row.user \in Users /\ (~row.overtaken => row.proved = password[row.user])

\* A link that is there was asked for under the password the user has.
LinkIsSound(row) == row.state = "there" => row.user \in Users /\ row.since = password[row.user]

\* A handler that is under way knows its user.  What it has read of a session
\* agreed with the password it saw, and the link it has locked is still there.
RequestIsSound(req) ==
    /\ req.stage \in {"read", "verified", "locked", "written"} => req.user \in Users
    /\ req.stage = "read" => req.row \in RefreshTokens
    /\ req.stage \in {"read", "verified"} /\ ~req.overtaken => req.proved = req.seen
    /\ req.stage \in {"locked", "written"} =>
          /\ req.row \in ResetLinks /\ LinkThere(req.row)
          /\ password_reset_tokens[req.row].user = req.user

Types ==
    /\ accounts \subseteq Users
    /\ password \in [Users -> Nat]
    /\ refresh_tokens \in [RefreshTokens -> RefreshRow]
    /\ password_reset_tokens \in [ResetLinks -> ResetRow]
    /\ request \in [Requests -> RequestRow]

SessionInv ==
    /\ Types
    /\ \A t \in RefreshTokens : TokenIsSound(refresh_tokens[t])
    /\ \A l \in ResetLinks : LinkIsSound(password_reset_tokens[l])
    /\ \A r \in Requests : RequestIsSound(request[r])
-----------------------------------------------------------------------------
(* Steps of one handler that leave links and passwords alone.              *)

\* A free slot is a sound request.
LEMMA IdleRow == Idle \in RequestRow /\ RequestIsSound(Idle)
  BY DEF Idle, RequestRow, Stages, Replies, RequestIsSound

\* A handler that has been answered holds nothing.
LEMMA AnswerRow ==
    ASSUME NEW reply \in Replies, NEW row \in RefreshTokens \cup {None}
    PROVE  LET new == [Idle EXCEPT !.stage = "answered", !.reply = reply, !.row = row]
           IN  new \in RequestRow /\ RequestIsSound(new)
  BY DEF Idle, RequestRow, Stages, Replies, RequestIsSound

\* A step of handler r is sound when its new record and the rows of the
\* refresh tokens are.
LEMMA HandlerStep ==
    ASSUME SessionInv, NEW r \in Requests, NEW new \in RequestRow, RequestIsSound(new),
           request' = [request EXCEPT ![r] = new],
           accounts' \subseteq Users, UNCHANGED <<password, password_reset_tokens>>,
           refresh_tokens' \in [RefreshTokens -> RefreshRow],
           \A t \in RefreshTokens : TokenIsSound(refresh_tokens'[t])
    PROVE  SessionInv'
<1>1. Types'
  BY DEF SessionInv, Types
<1>2. \A t \in RefreshTokens : TokenIsSound(refresh_tokens[t])'
  BY DEF TokenIsSound
<1>3. \A l \in ResetLinks : LinkIsSound(password_reset_tokens[l])'
  BY DEF SessionInv, LinkIsSound
<1>4. ASSUME NEW q \in Requests PROVE RequestIsSound(request[q])'
  <2>1. request'[q] = request[q] \/ request'[q] = new
    BY DEF SessionInv, Types
  <2>2. RequestIsSound(request'[q])
    BY <2>1 DEF SessionInv
  <2> QED BY <2>2 DEF RequestIsSound, LinkThere
<1> QED
  BY <1>1, <1>2, <1>3, <1>4 DEF SessionInv

\* The tables stay as they are.
LEMMA ReadingStep ==
    ASSUME SessionInv, NEW r \in Requests, NEW new \in RequestRow, RequestIsSound(new),
           request' = [request EXCEPT ![r] = new],
           UNCHANGED <<accounts, password, refresh_tokens, password_reset_tokens>>
    PROVE  SessionInv'
  BY HandlerStep DEF SessionInv, Types

\* A deleted row is sound.
LEMMA TokenDeleted ==
    ASSUME SessionInv, NEW t,
           refresh_tokens' = [refresh_tokens EXCEPT ![t].state = "gone"] \/ UNCHANGED refresh_tokens
    PROVE  /\ refresh_tokens' \in [RefreshTokens -> RefreshRow]
           /\ \A s \in RefreshTokens : TokenIsSound(refresh_tokens'[s])
<1>1. refresh_tokens \in [RefreshTokens -> RefreshRow]
  BY DEF SessionInv, Types
<1>2. CASE UNCHANGED refresh_tokens
  BY <1>1, <1>2 DEF SessionInv
<1>3. CASE refresh_tokens' = [refresh_tokens EXCEPT ![t].state = "gone"]
  <2>1. ASSUME NEW s \in RefreshTokens
        PROVE  refresh_tokens'[s] \in RefreshRow /\ TokenIsSound(refresh_tokens'[s])
    <3>1. CASE s = t
      BY <1>1, <1>3, <3>1 DEF RefreshRow, TokenIsSound
    <3>2. CASE s # t
      BY <1>1, <1>3, <3>2 DEF SessionInv
    <3> QED BY <3>1, <3>2
  <2>2. refresh_tokens' = [s \in RefreshTokens |-> refresh_tokens'[s]]
    BY <1>1, <1>3
  <2> QED BY <2>1, <2>2
<1> QED
  BY <1>2, <1>3

\* A handler that has made out its user.
LEMMA IdentifyStep ==
    ASSUME SessionInv, NEW r \in Requests, NEW u \in Users, Identify(r, u, password[u], FALSE),
           accounts' \subseteq Users, UNCHANGED <<password, refresh_tokens, password_reset_tokens>>
    PROVE  SessionInv'
<1> DEFINE new == [Idle EXCEPT !.stage = "verified", !.user = u, !.proved = password[u],
                               !.seen = password[u], !.overtaken = FALSE]
<1>1. new \in RequestRow /\ RequestIsSound(new)
  BY DEF SessionInv, Types, Idle, RequestRow, Stages, Replies, RequestIsSound
<1>2. request' = [request EXCEPT ![r] = new]
  BY DEF Identify
<1> HIDE DEF new
<1>3. /\ refresh_tokens' \in [RefreshTokens -> RefreshRow]
      /\ \A t \in RefreshTokens : TokenIsSound(refresh_tokens'[t])
  BY DEF SessionInv, Types
<1> QED
  BY <1>1, <1>2, <1>3, HandlerStep

\* Registration and sign-in.
LEMMA RegisterStep ==
    ASSUME SessionInv, NEW r \in Requests, NEW u \in Users, Register(r, u) \/ Login(r, u)
    PROVE  SessionInv'
<1>1. accounts' \subseteq Users
  BY DEF Register, Login, SessionInv, Types
<1> QED
  BY <1>1, IdentifyStep DEF Register, Login

\* The new row says whether the password it proves is still the user's.
LEMMA IssueSessionStep ==
    ASSUME SessionInv, NEW r \in Requests, NEW t \in RefreshTokens, IssueSession(r, t)
    PROVE  SessionInv'
<1> DEFINE req == request[r]
           row == [state |-> "there", expired |-> FALSE, user |-> req.user, proved |-> req.proved,
                   overtaken |-> req.overtaken \/ req.seen # password[req.user]]
           new == [Idle EXCEPT !.stage = "answered", !.reply = "session", !.row = t]
<1>1. /\ req.stage = "verified" /\ request' = [request EXCEPT ![r] = new]
      /\ refresh_tokens' = [refresh_tokens EXCEPT ![t] = row]
      /\ UNCHANGED <<accounts, password, password_reset_tokens>>
  BY DEF IssueSession, AtStage, Answer
<1>2. new \in RequestRow /\ RequestIsSound(new)
  BY AnswerRow DEF Replies
<1>3. req \in RequestRow /\ RequestIsSound(req)
  BY DEF SessionInv, Types
<1>4. row \in RefreshRow
  <2>1. req.user \in Users \cup {None} /\ req.proved \in Nat /\ req.overtaken \in BOOLEAN
    BY <1>3 DEF RequestRow
  <2>2. (req.overtaken \/ req.seen # password[req.user]) \in BOOLEAN
    OBVIOUS
  <2> QED BY <2>1, <2>2 DEF RefreshRow
<1>5. TokenIsSound(row)
  BY <1>1, <1>3 DEF RequestIsSound, TokenIsSound
<1> HIDE DEF row, new
<1>6. /\ refresh_tokens' \in [RefreshTokens -> RefreshRow]
      /\ \A s \in RefreshTokens : TokenIsSound(refresh_tokens'[s])
  BY <1>1, <1>4, <1>5 DEF SessionInv, Types
<1>7. accounts' \subseteq Users
  BY <1>1 DEF SessionInv, Types
<1> QED
  BY <1>1, <1>2, <1>6, <1>7, HandlerStep

\* A handler that is answered without a session, whatever it has deleted.
LEMMA RefusalStep ==
    ASSUME SessionInv, NEW r \in Requests, NEW reply \in Replies, Answer(r, reply, None), NEW t,
           refresh_tokens' = [refresh_tokens EXCEPT ![t].state = "gone"] \/ UNCHANGED refresh_tokens,
           UNCHANGED <<accounts, password, password_reset_tokens>>
    PROVE  SessionInv'
<1> DEFINE new == [Idle EXCEPT !.stage = "answered", !.reply = reply, !.row = None]
<1>1. new \in RequestRow /\ RequestIsSound(new) /\ request' = [request EXCEPT ![r] = new]
  BY AnswerRow DEF Answer
<1>2. accounts' \subseteq Users
  BY DEF SessionInv, Types
<1> HIDE DEF new
<1> QED
  BY <1>1, <1>2, TokenDeleted, HandlerStep

\* What a handler reads of a sound row is sound.
LEMMA ReadTokenStep ==
    ASSUME SessionInv, NEW r \in Requests, NEW t \in RefreshTokens, ReadToken(r, t)
    PROVE  SessionInv'
<1> DEFINE row == refresh_tokens[t]
           new == [Idle EXCEPT !.stage = "read", !.row = t, !.user = row.user, !.proved = row.proved,
                               !.seen = password[row.user], !.overtaken = row.overtaken]
<1>1. UNCHANGED <<accounts, password, refresh_tokens, password_reset_tokens>>
  BY DEF ReadToken
<1>2. CASE Answer(r, "clear", None)
  BY <1>1, <1>2, RefusalStep DEF Replies
<1>3. CASE There(t) /\ request' = [request EXCEPT ![r] = new]
  <2>1. row \in RefreshRow /\ TokenIsSound(row) /\ row.state = "there"
    BY <1>3 DEF SessionInv, Types, There
  <2>2. row.user \in Users /\ row.proved \in Nat /\ row.overtaken \in BOOLEAN
    BY <2>1 DEF RefreshRow, TokenIsSound
  <2>3. password[row.user] \in Nat
    BY <2>2 DEF SessionInv, Types
  <2>4. ~row.overtaken => row.proved = password[row.user]
    BY <2>1 DEF TokenIsSound
  <2> HIDE DEF row
  <2>5. new \in RequestRow /\ RequestIsSound(new)
    BY <2>2, <2>3, <2>4 DEF Idle, RequestRow, Stages, Replies, RequestIsSound
  <2> HIDE DEF new
  <2> QED BY <1>1, <1>3, <2>5, ReadingStep
<1> QED
  BY <1>2, <1>3 DEF ReadToken

\* ConsumeRefreshToken: the row is deleted once.
LEMMA ConsumeTokenStep ==
    ASSUME SessionInv, NEW r \in Requests, ConsumeToken(r)
    PROVE  SessionInv'
<1> DEFINE t == request[r].row
           new == [request[r] EXCEPT !.stage = "verified", !.row = None]
<1>1. /\ request[r].stage = "read" /\ UNCHANGED <<accounts, password, password_reset_tokens>>
      /\ refresh_tokens' = [refresh_tokens EXCEPT ![t].state = "gone"] \/ UNCHANGED refresh_tokens
  BY DEF ConsumeToken, AtStage
<1>2. CASE Answer(r, "clear", None)
  BY <1>1, <1>2, RefusalStep DEF Replies
<1>3. CASE request' = [request EXCEPT ![r].stage = "verified", ![r].row = None]
  <2>1. request[r] \in RequestRow /\ RequestIsSound(request[r])
    BY DEF SessionInv, Types
  <2>2. new \in RequestRow /\ RequestIsSound(new)
    BY <1>1, <2>1 DEF RequestRow, Stages, RequestIsSound
  <2>3. request' = [request EXCEPT ![r] = new]
    BY <1>3 DEF SessionInv, Types
  <2>4. accounts' \subseteq Users
    BY <1>1 DEF SessionInv, Types
  <2> HIDE DEF new
  <2> QED BY <1>1, <2>2, <2>3, <2>4, TokenDeleted, HandlerStep
<1> QED
  BY <1>2, <1>3 DEF ConsumeToken

\* Logout deletes the row it is sent, or none.
LEMMA LogoutStep ==
    ASSUME SessionInv, NEW r \in Requests, NEW t \in RefreshTokens, Logout(r, t)
    PROVE  SessionInv'
  BY RefusalStep DEF Logout, Replies

\* SELECT FOR UPDATE of the link.
LEMMA LockLinkStep ==
    ASSUME SessionInv, NEW r \in Requests, NEW l \in ResetLinks, LockLink(r, l)
    PROVE  SessionInv'
<1> DEFINE new == [Idle EXCEPT !.stage = "locked", !.row = l, !.user = password_reset_tokens[l].user]
<1>1. /\ LinkThere(l) /\ request' = [request EXCEPT ![r] = new]
      /\ UNCHANGED <<accounts, password, refresh_tokens, password_reset_tokens>>
  BY DEF LockLink
<1>2. password_reset_tokens[l].user \in Users
  BY <1>1 DEF SessionInv, LinkIsSound, LinkThere
<1>3. new \in RequestRow /\ RequestIsSound(new)
  BY <1>1, <1>2 DEF Idle, RequestRow, Stages, Replies, RequestIsSound
<1> HIDE DEF new
<1> QED
  BY <1>1, <1>3, ReadingStep

\* UPDATE users, before the commit.
LEMMA WriteUserStep ==
    ASSUME SessionInv, NEW r \in Requests, WriteUser(r)
    PROVE  SessionInv'
<1> DEFINE new == [request[r] EXCEPT !.stage = "written"]
<1>1. /\ request[r].stage = "locked" /\ request' = [request EXCEPT ![r].stage = "written"]
      /\ UNCHANGED <<accounts, password, refresh_tokens, password_reset_tokens>>
  BY DEF WriteUser, AtStage, Goto
<1>2. request[r] \in RequestRow /\ RequestIsSound(request[r])
  BY DEF SessionInv, Types
<1>3. new \in RequestRow /\ RequestIsSound(new)
  BY <1>1, <1>2 DEF RequestRow, Stages, RequestIsSound
<1>4. request' = [request EXCEPT ![r] = new]
  BY <1>1 DEF SessionInv, Types
<1> HIDE DEF new
<1> QED
  BY <1>1, <1>3, <1>4, ReadingStep

\* A failed call and a broken deadlock roll back.
LEMMA RollbackStep ==
    ASSUME SessionInv, NEW r \in Requests, BreakDeadlock(r) \/ Fail(r)
    PROVE  SessionInv'
  BY RefusalStep DEF BreakDeadlock, Fail, Rollback, Replies

\* The answer reaches its caller.
LEMMA FinishStep ==
    ASSUME SessionInv, NEW r \in Requests, Finish(r)
    PROVE  SessionInv'
  BY IdleRow, ReadingStep DEF Finish
-----------------------------------------------------------------------------
(* Time and links.                                                         *)

\* A refresh token expires.
LEMMA ExpireTokenStep ==
    ASSUME SessionInv, NEW t \in RefreshTokens, ExpireToken(t)
    PROVE  SessionInv'
<1>1. /\ refresh_tokens' = [refresh_tokens EXCEPT ![t].expired = TRUE]
      /\ UNCHANGED <<accounts, password, password_reset_tokens, request>>
  BY DEF ExpireToken
<1>2. /\ refresh_tokens' \in [RefreshTokens -> RefreshRow]
      /\ \A s \in RefreshTokens : TokenIsSound(refresh_tokens'[s])
  <2>1. refresh_tokens \in [RefreshTokens -> RefreshRow]
    BY DEF SessionInv, Types
  <2>2. refresh_tokens'[t] = [refresh_tokens[t] EXCEPT !.expired = TRUE]
    BY <1>1, <2>1
  <2>3. refresh_tokens'[t] \in RefreshRow /\ TokenIsSound(refresh_tokens'[t])
    BY <2>1, <2>2 DEF RefreshRow, SessionInv, TokenIsSound
  <2>4. \A s \in RefreshTokens \ {t} : refresh_tokens'[s] = refresh_tokens[s]
    BY <1>1, <2>1
  <2> QED BY <1>1, <2>1, <2>3, <2>4 DEF SessionInv
<1>3. Types'
  BY <1>1, <1>2 DEF SessionInv, Types
<1> QED
  BY <1>1, <1>2, <1>3 DEF SessionInv, TokenIsSound, LinkIsSound, RequestIsSound, LinkThere

\* A step that changes one link, and none that a reset has locked.
LEMMA LinkStep ==
    ASSUME SessionInv, NEW l \in ResetLinks, NEW new \in ResetRow, LinkIsSound(new),
           LinkThere(l) => new.state = "there" /\ new.user = password_reset_tokens[l].user,
           password_reset_tokens' = [password_reset_tokens EXCEPT ![l] = new],
           UNCHANGED <<accounts, password, refresh_tokens, request>>
    PROVE  SessionInv'
<1>1. /\ password_reset_tokens'[l] = new
      /\ \A m \in ResetLinks \ {l} : password_reset_tokens'[m] = password_reset_tokens[m]
      /\ password_reset_tokens' \in [ResetLinks -> ResetRow]
  BY DEF SessionInv, Types
<1>2. Types'
  BY <1>1 DEF SessionInv, Types
<1>3. \A m \in ResetLinks : LinkIsSound(password_reset_tokens[m])'
  BY <1>1 DEF SessionInv, LinkIsSound
<1>4. \A t \in RefreshTokens : TokenIsSound(refresh_tokens[t])'
  BY DEF SessionInv, TokenIsSound
<1>5. \A r \in Requests : RequestIsSound(request[r])'
  BY <1>1 DEF SessionInv, RequestIsSound, LinkThere
<1> QED
  BY <1>2, <1>3, <1>4, <1>5 DEF SessionInv

\* A reset link is stored for the password of that moment.
LEMMA RequestResetStep ==
    ASSUME SessionInv, NEW l \in ResetLinks, NEW u \in Users, RequestReset(l, u)
    PROVE  SessionInv'
<1> DEFINE new == [state |-> "there", expired |-> FALSE, user |-> u, since |-> password[u]]
<1>1. /\ password_reset_tokens' = [password_reset_tokens EXCEPT ![l] = new]
      /\ ~LinkThere(l) /\ UNCHANGED <<accounts, password, refresh_tokens, request>>
  BY DEF RequestReset, LinkThere
<1>2. new \in ResetRow /\ LinkIsSound(new)
  BY DEF SessionInv, Types, ResetRow, LinkIsSound
<1> HIDE DEF new
<1> QED
  BY <1>1, <1>2, LinkStep

\* A reset link expires.
LEMMA ExpireLinkStep ==
    ASSUME SessionInv, NEW l \in ResetLinks, ExpireLink(l)
    PROVE  SessionInv'
<1> DEFINE new == [password_reset_tokens[l] EXCEPT !.expired = TRUE]
<1>1. /\ LinkThere(l) /\ password_reset_tokens' = [password_reset_tokens EXCEPT ![l].expired = TRUE]
      /\ UNCHANGED <<accounts, password, refresh_tokens, request>>
  BY DEF ExpireLink
<1>2. password_reset_tokens[l] \in ResetRow /\ LinkIsSound(password_reset_tokens[l])
  BY DEF SessionInv, Types
<1>3. /\ new \in ResetRow /\ LinkIsSound(new)
      /\ LinkThere(l) => new.state = "there" /\ new.user = password_reset_tokens[l].user
  BY <1>2 DEF ResetRow, LinkIsSound, LinkThere
<1>4. password_reset_tokens' = [password_reset_tokens EXCEPT ![l] = new]
  BY <1>1 DEF SessionInv, Types
<1> HIDE DEF new
<1> QED
  BY <1>1, <1>3, <1>4, LinkStep

\* The commit of a reset takes every row of its user with it, and no link that
\* another reset holds.
LEMMA CommitStep ==
    ASSUME SessionInv, NEW r \in Requests, Commit(r)
    PROVE  SessionInv'
<1> DEFINE u == request[r].user
           new == [Idle EXCEPT !.stage = "answered", !.reply = "error", !.row = None]
<1>1. /\ request[r].stage = "written" /\ LinksAreFree(r)
      /\ password' = [password EXCEPT ![u] = @ + 1]
      /\ password_reset_tokens' = [l \in ResetLinks |->
            IF password_reset_tokens[l].user = u THEN [password_reset_tokens[l] EXCEPT !.state = "gone"]
            ELSE password_reset_tokens[l]]
      /\ refresh_tokens' = [t \in RefreshTokens |->
            IF refresh_tokens[t].user = u THEN [refresh_tokens[t] EXCEPT !.state = "gone"]
            ELSE refresh_tokens[t]]
      /\ request' = [request EXCEPT ![r] = new] /\ UNCHANGED accounts
  BY DEF Commit, AtStage, Answer
<1>2. new \in RequestRow /\ new.stage = "answered"
  <2>1. new \in RequestRow
    BY AnswerRow DEF Replies
  <2>2. new.stage = "answered"
    BY DEF Idle
  <2> QED BY <2>1, <2>2
<1> HIDE DEF new
<1>3. u \in Users
  BY <1>1 DEF SessionInv, RequestIsSound
<1>4. password' \in [Users -> Nat] /\ \A v \in Users \ {u} : password'[v] = password[v]
  BY <1>1, <1>3 DEF SessionInv, Types
<1>5. ASSUME NEW t \in RefreshTokens
      PROVE  /\ refresh_tokens'[t] \in RefreshRow
             /\ \/ refresh_tokens'[t].state = "gone"
                \/ refresh_tokens'[t] = refresh_tokens[t] /\ refresh_tokens[t].user # u
  <2>1. refresh_tokens[t] \in RefreshRow
    BY DEF SessionInv, Types
  <2> QED BY <1>1, <2>1 DEF RefreshRow
<1>6. ASSUME NEW l \in ResetLinks
      PROVE  /\ password_reset_tokens'[l] \in ResetRow
             /\ \/ password_reset_tokens[l].user = u /\ password_reset_tokens'[l].state = "gone"
                \/ password_reset_tokens'[l] = password_reset_tokens[l] /\ password_reset_tokens[l].user # u
  <2>1. password_reset_tokens[l] \in ResetRow
    BY DEF SessionInv, Types
  <2> QED BY <1>1, <2>1 DEF ResetRow
<1>7. Types'
  <2>1. request' \in [Requests -> RequestRow]
    BY <1>1, <1>2 DEF SessionInv, Types
  <2>2. refresh_tokens' \in [RefreshTokens -> RefreshRow]
    BY <1>1, <1>5
  <2>3. password_reset_tokens' \in [ResetLinks -> ResetRow]
    BY <1>1, <1>6
  <2> QED BY <1>1, <1>4, <2>1, <2>2, <2>3 DEF SessionInv, Types
<1>8. \A t \in RefreshTokens : TokenIsSound(refresh_tokens[t])'
  BY <1>4, <1>5 DEF SessionInv, TokenIsSound
<1>9. \A l \in ResetLinks : LinkIsSound(password_reset_tokens[l])'
  BY <1>4, <1>6 DEF SessionInv, LinkIsSound
<1>10. ASSUME NEW q \in Requests PROVE RequestIsSound(request[q])'
  <2>1. CASE q = r
    BY <1>1, <1>2, <2>1 DEF SessionInv, Types, RequestIsSound
  <2>2. CASE q # r
    <3>1. request'[q] = request[q] /\ RequestIsSound(request[q])
      BY <1>1, <2>2 DEF SessionInv, Types
    <3>2. request[q].stage \in {"locked", "written"} =>
             LET l == request[q].row IN
             l \in ResetLinks /\ LinkThere(l) /\ password_reset_tokens[l].user = request[q].user
             /\ password_reset_tokens[l].user # u
      BY <1>1, <2>2, <3>1 DEF RequestIsSound, LinksAreFree, LocksLink
    <3> QED BY <1>6, <3>1, <3>2 DEF RequestIsSound, LinkThere
  <2> QED BY <2>1, <2>2
<1> QED
  BY <1>7, <1>8, <1>9, <1>10 DEF SessionInv
-----------------------------------------------------------------------------
(* The theorems.                                                           *)

\* No accounts, no sessions and no links.
LEMMA SessionInvInit == Init => SessionInv
<1> SUFFICES ASSUME Init PROVE SessionInv
  OBVIOUS
<1>1. Unissued \in RefreshRow /\ NoLink \in ResetRow
  BY DEF Unissued, NoLink, RefreshRow, ResetRow
<1>2. Types
  BY <1>1, IdleRow DEF Init, Types
<1> QED
  BY <1>2, IdleRow DEF Init, SessionInv, TokenIsSound, LinkIsSound, Unissued, NoLink

\* Every step of the handlers and of time keeps the invariant.
LEMMA SessionInvNext == SessionInv /\ [Next]_vars => SessionInv'
<1> SUFFICES ASSUME SessionInv, [Next]_vars PROVE SessionInv'
  OBVIOUS
<1>1. ASSUME NEW r \in Requests, \E u \in Users : Register(r, u) \/ Login(r, u) PROVE SessionInv'
  BY <1>1, RegisterStep
<1>2. ASSUME NEW r \in Requests, \E t \in RefreshTokens : ReadToken(r, t) \/ Logout(r, t) PROVE SessionInv'
  BY <1>2, ReadTokenStep, LogoutStep
<1>3. ASSUME NEW r \in Requests, SessionStep(r) PROVE SessionInv'
  BY <1>3, ConsumeTokenStep, IssueSessionStep DEF SessionStep
<1>4. ASSUME NEW r \in Requests, \E l \in ResetLinks : LockLink(r, l) PROVE SessionInv'
  BY <1>4, LockLinkStep
<1>5. ASSUME NEW r \in Requests, ResetStep(r) PROVE SessionInv'
  BY <1>5, WriteUserStep, CommitStep DEF ResetStep
<1>6. ASSUME NEW r \in Requests, BreakDeadlock(r) \/ Fail(r) \/ Finish(r) PROVE SessionInv'
  BY <1>6, RollbackStep, FinishStep
<1>7. ASSUME NEW t \in RefreshTokens, ExpireToken(t) PROVE SessionInv'
  BY <1>7, ExpireTokenStep
<1>8. ASSUME NEW l \in ResetLinks, ExpireLink(l) \/ \E u \in Users : RequestReset(l, u) PROVE SessionInv'
  BY <1>8, ExpireLinkStep, RequestResetStep
<1>9. CASE UNCHANGED vars
  BY <1>9 DEF vars, SessionInv, Types, TokenIsSound, LinkIsSound, RequestIsSound, LinkThere
<1> QED
  BY <1>1, <1>2, <1>3, <1>4, <1>5, <1>6, <1>7, <1>8, <1>9 DEF Next

\* Tokens, links and handlers stay in order.
LEMMA SessionInvHolds == Spec => []SessionInv
  BY SessionInvInit, SessionInvNext, PTL DEF Spec

\* The invariant has the types.
LEMMA SessionTypes == SessionInv => TypeOK
  BY DEF SessionInv, Types, RequestRow, RequestIsSound, TypeOK

\* The tables of accounts, refresh tokens and links keep their types, and a
\* reset under way holds a link of its user that stays there until it ends.
THEOREM SessionTypeCorrect == Spec => []TypeOK
  BY SessionInvHolds, SessionTypes, PTL

\* What a password change leaves of the sessions: whoever proved an older password
\* is still signed in only through a request that was already under way when
\* ConsumePasswordReset committed.
THEOREM ResetsEndSessions == Spec => []ResetEndsSessions
<1>1. SessionInv => ResetEndsSessions
  BY DEF SessionInv, TokenIsSound, ResetEndsSessions, There
<1> QED BY <1>1, SessionInvHolds, PTL

\* No link of handlePasswordResetRequest changes a password twice, and none
\* does after another has, whichever way the transactions overlap.
THEOREM EveryLinkWorksOnce == Spec => LinksWorkOnce
<1> DEFINE Spends ==
      \A u \in Users : password'[u] # password[u] =>
          /\ password'[u] = password[u] + 1
          /\ \E l \in ResetLinks :
                /\ LinkThere(l) /\ password_reset_tokens'[l].state = "gone"
                /\ password_reset_tokens[l].user = u
                /\ password_reset_tokens[l].since = password[u]
<1>1. ASSUME SessionInv, Next PROVE Spends
  <2>1. CASE password' = password
    BY <2>1
  <2>2. CASE \E r \in Requests : Commit(r)
    <3>1. PICK r \in Requests : Commit(r)
      BY <2>2
    <3> DEFINE v == request[r].user
               l == request[r].row
    <3>2. /\ request[r].stage = "written" /\ password' = [password EXCEPT ![v] = @ + 1]
          /\ password_reset_tokens' = [m \in ResetLinks |->
                IF password_reset_tokens[m].user = v THEN [password_reset_tokens[m] EXCEPT !.state = "gone"]
                ELSE password_reset_tokens[m]]
      BY <3>1 DEF Commit, AtStage
    <3>3. v \in Users /\ l \in ResetLinks /\ LinkThere(l) /\ password_reset_tokens[l].user = v
      BY <1>1, <3>2 DEF SessionInv, RequestIsSound
    <3>4. password_reset_tokens[l].since = password[v] /\ password_reset_tokens[l] \in ResetRow
      BY <1>1, <3>3 DEF SessionInv, LinkIsSound, LinkThere, Types
    <3>5. password_reset_tokens'[l].state = "gone"
      BY <3>2, <3>3, <3>4 DEF ResetRow
    <3>6. password'[v] = password[v] + 1 /\ \A u \in Users \ {v} : password'[u] = password[u]
      BY <1>1, <3>2, <3>3 DEF SessionInv, Types
    <3> HIDE DEF v, l
    <3> QED BY <3>3, <3>4, <3>5, <3>6
  <2>3. password' = password \/ \E r \in Requests : Commit(r)
    BY <1>1 DEF Next, Register, Login, ReadToken, Logout, SessionStep, ConsumeToken, IssueSession,
       LockLink, ResetStep, WriteUser, BreakDeadlock, Fail, Finish, ExpireToken, ExpireLink, RequestReset
  <2> QED BY <2>1, <2>2, <2>3
<1>2. ASSUME SessionInv, UNCHANGED vars PROVE Spends
  BY <1>2 DEF vars
<1>3. SessionInv /\ [Next]_vars => [Spends]_vars
  BY <1>1, <1>2
<1> QED BY <1>3, SessionInvHolds, PTL DEF Spec, LinksWorkOnce
=============================================================================
