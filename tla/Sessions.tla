------------------------------ MODULE Sessions ------------------------------
(***************************************************************************)
(* Accounts and refresh tokens: register, login, refresh and logout        *)
(* (app/services/auth_service.py) as concurrent requests on one PostgreSQL *)
(* database at READ COMMITTED, the isolation db/session.py leaves in place.*)
(*                                                                         *)
(* A request is a process that runs once.  It is split where the code      *)
(* awaits the database: the SELECT that decides what to do, each UPDATE or *)
(* INSERT that has to take a lock, and the COMMIT.  A SELECT sees what is  *)
(* committed; an UPDATE waits for the lock of its row and holds it until   *)
(* the COMMIT, which publishes every pending write of the request at once. *)
(* The token that request r issues is called r.                            *)
(***************************************************************************)
CONSTANTS
    Request,   \* the requests; each is served once and issues at most one token
    User,      \* accounts, named by their normalised e-mail address
    None       \* no user, no token

ASSUME NoneAssumption == None \notin Request /\ None \notin User

VARIABLES
    registered,   \* committed rows of users
    owner,        \* committed rows of refresh_tokens: owner[t] is t's user
    revoked,      \* committed tokens whose revoked_at is set
    expired,      \* committed tokens whose expires_at has passed
    held,         \* held[r]: rows r has set revoked_at of and not committed
    todo,         \* todo[r]: rows r's bulk UPDATE has yet to visit
    call,         \* call[r]: the operation r asks for and its arguments
    pc,           \* pc[r]: how far r has come, at the end the answer it got
    seen          \* history: the requests already answered when r's deciding
                  \* statement took its snapshot

store == <<registered, owner, revoked>>
vars == <<registered, owner, revoked, expired, held, todo, call, pc, seen>>

Answers == {"tokens", "unauthorized", "conflict", "reuse", "expired", "ok", "error"}
Working == {"insertUser", "rotate", "expire", "logout", "issue",
            "commitExpired", "commitLogout", "sweep", "sweeping"}
Operations == {"none", "register", "login", "refresh", "logout"}

NoCall == [op |-> "none", usr |-> None, tok |-> None]

TypeOK ==
    /\ registered \subseteq User
    /\ owner \in [Request -> User \cup {None}]
    /\ revoked \subseteq Request
    /\ expired \subseteq Request
    /\ held \in [Request -> SUBSET Request]
    /\ todo \in [Request -> SUBSET Request]
    /\ call \in [Request -> [op : Operations, usr : User \cup {None},
                             tok : Request \cup {None}]]
    /\ pc \in [Request -> Answers \cup Working \cup {"idle"}]
    /\ seen \in [Request -> SUBSET Request]

Init ==
    /\ registered = {}
    /\ owner = [t \in Request |-> None]
    /\ revoked = {}
    /\ expired = {}
    /\ held = [r \in Request |-> {}]
    /\ todo = [r \in Request |-> {}]
    /\ call = [r \in Request |-> NoCall]
    /\ pc = [r \in Request |-> "idle"]
    /\ seen = [r \in Request |-> {}]

-----------------------------------------------------------------------------
Issued(t) == owner[t] # None
Answered == {r \in Request : pc[r] \in Answers}
Goto(r, l) == pc' = [pc EXCEPT ![r] = l]
Receive(r, op, u, t) == call' = [call EXCEPT ![r] = [op |-> op, usr |-> u, tok |-> t]]

\* PostgreSQL's row locks: t may be locked when no request has a pending write to it.
Free(t) == \A r \in Request : t \notin held[r]

\* The INSERT of u is pending in another transaction.
Claimed(u) == \E r \in Request : pc[r] = "issue" /\ call[r].op = "register" /\ call[r].usr = u

(* register_user ***********************************************************)

\* The SELECT by e-mail; an existing account is refused.
Register(r, u) ==
    /\ pc[r] = "idle"
    /\ Receive(r, "register", u, None)
    /\ Goto(r, IF u \in registered THEN "conflict" ELSE "insertUser")
    /\ UNCHANGED <<store, expired, held, todo, seen>>

\* Bug: no unique index on email.
InsertUser_Bug(r) ==
    /\ pc[r] = "insertUser"
    /\ Goto(r, "issue")
    /\ UNCHANGED <<store, expired, held, todo, call, seen>>

\* The flush of the new User.  The unique index on email makes it wait for a
\* pending INSERT of the same address and fail once one is committed; the
\* IntegrityError is caught nowhere in the service, so the answer is a 500.
InsertUser(r) ==
    LET u == call[r].usr IN
    /\ pc[r] = "insertUser"
    /\ ~ Claimed(u)
    /\ Goto(r, IF u \in registered THEN "error" ELSE "issue")
    /\ UNCHANGED <<store, expired, held, todo, call, seen>>

(* login_user **************************************************************)

\* The SELECT by e-mail and the password check.
Login(r, u, passwordOk) ==
    /\ pc[r] = "idle"
    /\ Receive(r, "login", u, None)
    /\ Goto(r, IF u \in registered /\ passwordOk THEN "issue" ELSE "unauthorized")
    /\ UNCHANGED <<store, expired, held, todo, seen>>

(* rotate_refresh **********************************************************)

\* Bug: revoked_at is not looked at.
Verdict_Bug(t) ==
    IF ~ Issued(t) THEN "unauthorized" ELSE IF t \in expired THEN "expire" ELSE "rotate"

\* What rotate_refresh does with the row its SELECT returns.
Verdict(t) ==
    CASE ~ Issued(t)                   -> "unauthorized"
      [] Issued(t) /\ t \in revoked    -> "sweep"
      [] Issued(t) /\ t \notin revoked -> IF t \in expired THEN "expire" ELSE "rotate"

\* Bug: row.id is taken for row.user_id.
Refresh_Bug(r, t) ==
    /\ pc[r] = "idle"
    /\ Receive(r, "refresh", IF Issued(t) THEN t ELSE None, t)
    /\ Goto(r, Verdict(t))
    /\ seen' = [seen EXCEPT ![r] = Answered]
    /\ UNCHANGED <<store, expired, held, todo>>

\* The SELECT by token hash and the checks on the row it returns.
Refresh(r, t) ==
    /\ pc[r] = "idle"
    /\ Receive(r, "refresh", owner[t], t)
    /\ Goto(r, Verdict(t))
    /\ seen' = [seen EXCEPT ![r] = Answered]
    /\ UNCHANGED <<store, expired, held, todo>>

\* The flush of row.revoked_at = now in rotate_refresh and logout_user: an UPDATE by
\* primary key, which waits for the lock of the row and then writes whatever the
\* row has become in the meantime.
AfterRevoke == [rotate |-> "issue", expire |-> "commitExpired", logout |-> "commitLogout"]

\* Bug: the UPDATE is committed on its own.
RevokeRow_Bug(r) ==
    /\ pc[r] \in {"rotate", "expire", "logout"}
    /\ Free(call[r].tok)
    /\ revoked' = revoked \cup {call[r].tok}
    /\ Goto(r, AfterRevoke[pc[r]])
    /\ UNCHANGED <<registered, owner, expired, held, todo, call, seen>>

RevokeRow(r) ==
    /\ pc[r] \in {"rotate", "expire", "logout"}
    /\ Free(call[r].tok)
    /\ held' = [held EXCEPT ![r] = {call[r].tok}]
    /\ Goto(r, AfterRevoke[pc[r]])
    /\ UNCHANGED <<store, expired, todo, call, seen>>

\* Reuse of a revoked token: UPDATE ... WHERE user_id = ... AND revoked_at IS NULL.
\* The statement visits the rows its snapshot holds, in no promised order.
SweepStart(r) ==
    /\ pc[r] = "sweep"
    /\ todo' = [todo EXCEPT ![r] = {t \in Request : owner[t] = call[r].usr /\ t \notin revoked}]
    /\ Goto(r, "sweeping")
    /\ seen' = [seen EXCEPT ![r] = Answered]
    /\ UNCHANGED <<store, expired, held, call>>

\* Bug: locked rows are skipped.
SweepRow_Bug(r, t) ==
    /\ pc[r] = "sweeping"
    /\ t \in todo[r]
    /\ todo' = [todo EXCEPT ![r] = @ \ {t}]
    /\ held' = [held EXCEPT ![r] = @ \cup (IF Free(t) THEN {t} \ revoked ELSE {})]
    /\ UNCHANGED <<store, expired, call, pc, seen>>

\* One row of it: wait for its lock, then evaluate the WHERE clause again.
SweepRow(r, t) ==
    /\ pc[r] = "sweeping"
    /\ t \in todo[r]
    /\ Free(t)
    /\ todo' = [todo EXCEPT ![r] = @ \ {t}]
    /\ held' = [held EXCEPT ![r] = @ \cup ({t} \ revoked)]
    /\ UNCHANGED <<store, expired, call, pc, seen>>

(* logout_user *************************************************************)

\* The SELECT by token hash and user id, for the user the access token names.
Logout(r, u, t) ==
    /\ pc[r] = "idle"
    /\ u \in registered
    /\ Receive(r, "logout", u, t)
    /\ Goto(r, IF owner[t] = u /\ t \notin revoked THEN "logout" ELSE "ok")
    /\ UNCHANGED <<store, expired, held, todo, seen>>

(* COMMIT and ROLLBACK *****************************************************)

\* Bug: the old token is not marked revoked.
CommitIssue_Bug(r) ==
    LET u == call[r].usr IN
    /\ pc[r] = "issue"
    /\ registered' = registered \cup (IF call[r].op = "register" THEN {u} ELSE {})
    /\ owner' = [owner EXCEPT ![r] = u]
    /\ held' = [held EXCEPT ![r] = {}]
    /\ Goto(r, "tokens")
    /\ UNCHANGED <<revoked, expired, todo, call, seen>>

\* The commit of register_user, login_user and rotate_refresh: the new account, the
\* revocation of the old token and the new token become visible together.
CommitIssue(r) ==
    LET u == call[r].usr IN
    /\ pc[r] = "issue"
    /\ registered' = registered \cup (IF call[r].op = "register" THEN {u} ELSE {})
    /\ owner' = [owner EXCEPT ![r] = u]
    /\ revoked' = revoked \cup held[r]
    /\ held' = [held EXCEPT ![r] = {}]
    /\ Goto(r, "tokens")
    /\ UNCHANGED <<expired, todo, call, seen>>

\* The commit of an expiry, a logout or a finished bulk revocation.
Commits(r) ==
    \/ pc[r] = "commitExpired" /\ Goto(r, "expired")
    \/ pc[r] = "commitLogout" /\ Goto(r, "ok")
    \/ pc[r] = "sweeping" /\ todo[r] = {} /\ Goto(r, "reuse")

CommitRevocation(r) ==
    /\ Commits(r)
    /\ revoked' = revoked \cup held[r]
    /\ held' = [held EXCEPT ![r] = {}]
    /\ UNCHANGED <<registered, owner, expired, todo, call, seen>>

\* Bug: the session is never closed and its transaction stays open.
Rollback_Bug(r) ==
    /\ Goto(r, "error")
    /\ UNCHANGED <<store, expired, held, todo, call, seen>>

\* A failure before the commit (the process, the connection, the statement): the
\* session is closed, its transaction rolled back, its locks released.
Rollback(r) ==
    /\ Goto(r, "error")
    /\ held' = [held EXCEPT ![r] = {}]
    /\ todo' = [todo EXCEPT ![r] = {}]
    /\ UNCHANGED <<store, expired, call, seen>>

Fail(r) == pc[r] \in Working /\ Rollback(r)

\* r and s may each be waiting for a row the other one has locked.
MayWaitFor(r, s) == todo[r] \cap held[s] # {}

\* PostgreSQL's deadlock detector aborts one of the transactions of a cycle.
DeadlockVictim(r) ==
    /\ \E D \in SUBSET {s \in Request : pc[s] = "sweeping" /\ held[s] # {}} :
          /\ r \in D
          /\ \A s \in D : /\ \E w \in D : MayWaitFor(s, w)
                          /\ \E w \in D : MayWaitFor(w, s)
    /\ Rollback(r)

\* The clock passes expires_at of a token.  Expiry of a revoked token is not
\* tracked: rotate_refresh looks at revoked_at first.
Expire(t) ==
    /\ Issued(t)
    /\ t \notin revoked \cup expired
    /\ expired' = expired \cup {t}
    /\ UNCHANGED <<store, held, todo, call, pc, seen>>

\* Every request has been answered.
Served ==
    /\ Answered = Request
    /\ UNCHANGED vars

-----------------------------------------------------------------------------
\* What the server does for r once it has accepted it.
Serve(r) ==
    \/ InsertUser(r)
    \/ RevokeRow(r)
    \/ SweepStart(r)
    \/ \E t \in Request : SweepRow(r, t)
    \/ CommitIssue(r)
    \/ CommitRevocation(r)
    \/ DeadlockVictim(r)

\* What a client may ask for.
Arrive(r) ==
    \/ \E u \in User : Register(r, u)
    \/ \E u \in User, passwordOk \in BOOLEAN : Login(r, u, passwordOk)
    \/ \E t \in Request : Refresh(r, t)
    \/ \E u \in User, t \in Request : Logout(r, u, t)

Next ==
    \/ \E r \in Request : Arrive(r) \/ Serve(r) \/ Fail(r)
    \/ \E t \in Request : Expire(t)
    \/ Served

Spec == Init /\ [][Next]_vars

\* The event loop resumes every coroutine whose statement has returned and
\* PostgreSQL grants a free lock; nobody has to send a request or crash.
FairSpec == Spec /\ \A r \in Request : WF_vars(Serve(r))

-----------------------------------------------------------------------------
(* Properties **************************************************************)

\* r was answered with a successor of token t.
Exchanged(r, t) == call[r].op = "refresh" /\ call[r].tok = t /\ pc[r] = "tokens"

\* r has read its token as live and goes on to exchange it, or has exchanged it.
Exchanging(r) == call[r].op = "refresh" /\ pc[r] \in {"rotate", "issue", "tokens"}

\* Refreshing twice with the same token is noticed, except when neither request
\* was answered before the other one read the token: of two requests that were
\* both given a successor of it, each was still in flight when the other read.
ReuseDetectedUnlessConcurrent ==
    \A r, s \in Request :
        (\E t \in Request : Exchanged(r, t) /\ Exchanged(s, t)) => s \notin seen[r]

\* Some request explains why t is revoked: it was given a successor of t, logged
\* t out as t's user, found t expired, or replayed a revoked token of t's user.
Explains(r, t) ==
    \/ Exchanged(r, t) /\ owner[r] = owner[t]
    \/ pc[r] = "ok" /\ call[r].op = "logout" /\ call[r].tok = t /\ call[r].usr = owner[t]
    \/ pc[r] = "expired" /\ call[r].tok = t /\ t \in expired
    \/ pc[r] = "reuse" /\ call[r].tok \in revoked /\ owner[call[r].tok] = owner[t]

\* No token is revoked without such a request, whatever fails in between: a
\* rotation never ends the old session without leaving its successor, and the
\* answer to a reused token ends no other user's session.
RevocationIsExplained == \A t \in revoked : \E r \in Request : Explains(r, t)

\* After the answer "All sessions have been revoked" every token of that user
\* whose own request had been answered before the bulk UPDATE began is revoked,
\* whatever rotations, logouts and other bulk UPDATEs it had to wait for.
SweepCoversEarlierSessions ==
    \A r \in Request : pc[r] = "reuse" =>
        \A t \in seen[r] : owner[t] = call[r].usr => t \in revoked

\* The unique e-mail: of all the registrations of an address at most one is ever
\* given tokens, however they interleave, and no other request gets a token for
\* an account that no registration has created.
OneRegistrationPerAccount ==
    \A u \in User :
        LET created == {r \in Request : call[r].op = "register" /\ call[r].usr = u
                                        /\ pc[r] = "tokens"}
        IN  /\ \A r, s \in created : r = s
            /\ (\E r \in Request : owner[r] = u) => created # {}

\* The tables implement the ledger of tokens.
parent == [r \in Request |-> IF call[r].op = "refresh" /\ pc[r] = "tokens"
                             THEN call[r].tok ELSE None]
Ledger == INSTANCE SessionLedger WITH Token <- Request, ended <- revoked
RefinesLedger == Ledger!Spec

\* Every request the server has accepted is answered, whatever locks it waits for.
EveryRequestAnswered ==
    \A r \in Request : pc[r] \in Working ~> pc[r] \in Answers

\* A refresh token is exchanged for one successor: app/core/openapi.py says that
\* tokens are rotated on every use, the previous one being revoked immediately,
\* and that reusing a revoked token ends every session.  The code does not do
\* this for two refreshes that both read the token before either commits.
ExchangedAtMostOnce ==
    \A r, s, t \in Request : Exchanged(r, t) /\ Exchanged(s, t) => r = s

\* "All sessions have been revoked" (rotate_refresh): no session that was open when the
\* bulk UPDATE began is still alive in the token it is rotated into.  The code
\* does not do this for a rotation that commits while the UPDATE is running.
SweptSessionsEnd ==
    \A r, s \in Request :
        pc[r] = "reuse" /\ Exchanged(s, call[s].tok) /\ call[s].tok \in seen[r]
            /\ owner[s] = call[r].usr
        => s \in revoked
=============================================================================
