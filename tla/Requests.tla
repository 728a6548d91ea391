------------------------------ MODULE Requests ------------------------------
(***************************************************************************)
(* The life of HTTP requests in one process of the service: the checks     *)
(* each route makes and their order (app/routers, app/dependencies.py),    *)
(* the database connection a request borrows from the pool of              *)
(* app/db/session.py, and the status that the exception handlers make of   *)
(* the outcome (app/core/errors.py, app/main.py).                          *)
(*                                                                         *)
(* A route is a sequence of steps: checks, statements that need a          *)
(* connection, and calls to Redis and to the boards.  A session takes a    *)
(* connection for its first statement and gives it back with a commit or   *)
(* when it is closed; in between the request keeps it, also while it waits *)
(* for Redis or for the boards.  What the statements read and write is the *)
(* subject of the other modules: here a SELECT may find anything.          *)
(***************************************************************************)
EXTENDS Naturals, Sequences, FiniteSets

CONSTANTS
    Request,    \* the requests; each is served once
    PoolSize    \* connections of the engine: pool_size and max_overflow

ASSUME PoolAssumption == PoolSize \in Nat \ {0}

VARIABLES
    settings,   \* what the environment says
    up,         \* the application has started and serves
    phase,      \* phase[r]: where r is, from "idle" to "closed"
    route,      \* route[r]: what r asks for
    left,       \* left[r]: the steps r has yet to make
    conn,       \* conn[r]: r's session has a connection
    cred,       \* cred[r]: what r shows for itself
    answer,     \* answer[r]: the status of the answer
    admitted,   \* admitted[r]: the limiter has let r through
    wrote       \* history: what r has committed, the last use of its key or data

process == <<settings, up>>
request == <<route, cred>>
vars == <<settings, up, phase, route, cred, left, conn, answer, admitted, wrote>>

Settings == [production : BOOLEAN, placeholders : BOOLEAN, redisUrl : BOOLEAN]
Credentials == {"anonymous", "bearer", "key"}
Routes == {"list", "listKeys", "register", "login", "refresh", "createKey", "revoke",
           "logout", "ingest", "probe", "unrouted", "preflight"}
Answers == {"ok", "noContent", "refused", "invalid", "limited", "unavailable", "error"}

Borrowed == {r \in Request : conn[r]}

TypeOK ==
    /\ settings \in Settings
    /\ up \in BOOLEAN
    /\ phase \in [Request -> {"idle", "serving", "answered", "closed", "lost"}]
    /\ route \in [Request -> Routes \cup {"none"}]
    /\ cred \in [Request -> Credentials \cup {"none"}]
    /\ conn \in [Request -> BOOLEAN]
    /\ answer \in [Request -> Answers \cup {"none"}]
    /\ admitted \in [Request -> BOOLEAN]
    /\ wrote \in [Request -> SUBSET {"usage", "data"}]
    /\ Cardinality(Borrowed) <= PoolSize
    /\ \A r \in Borrowed : up /\ phase[r] \in {"serving", "answered"}

Init ==
    /\ settings \in Settings
    /\ up = FALSE
    /\ phase = [r \in Request |-> "idle"]
    /\ route = [r \in Request |-> "none"]
    /\ cred = [r \in Request |-> "none"]
    /\ left = [r \in Request |-> <<>>]
    /\ conn = [r \in Request |-> FALSE]
    /\ answer = [r \in Request |-> "none"]
    /\ admitted = [r \in Request |-> FALSE]
    /\ wrote = [r \in Request |-> {}]

-----------------------------------------------------------------------------
(* The routes **************************************************************)

\* resolve_principal: a token is decoded and its user looked up, or a key is looked up
\* by its hash, its last_used_at committed and the row read again.
Principal(cr) ==
    CASE cr = "anonymous" -> <<>>
      [] cr = "bearer"    -> <<"decode", "identify">>
      [] cr = "key"       -> <<"identify", "touch", "read">>

\* require_jwt_user, which comes after the limiter.
JwtUser(cr) == IF cr = "bearer" THEN <<>> ELSE <<"refuse">>

\* Bug: the refusal comes after the work.
ManageKeys_Bug(cr, work) == Principal(cr) \o <<"limit", "validate">> \o work \o JwtUser(cr)

\* Dependencies run before the parameters of the route are validated.
ManageKeys(cr, work) == Principal(cr) \o <<"limit">> \o JwtUser(cr) \o <<"validate">> \o work

\* The handlers of register, login and refresh, which call the limiter themselves;
\* their bodies have been validated before.
Authenticate(cr, work) == <<"validate">> \o Principal(cr) \o <<"limit">> \o work

\* A body that is no JSON is found before anything else.  The seed file stands for
\* two companies.
Program(rt, cr) ==
    CASE rt = "list"      -> Principal(cr) \o <<"limit", "validate", "find">>
      [] rt = "listKeys"  -> ManageKeys(cr, <<"read">>)
      [] rt = "createKey" -> <<"validate">> \o ManageKeys(cr, <<"commit", "read">>)
      [] rt = "revoke"    -> ManageKeys(cr, <<"find", "commitIfChanged">>)
      [] rt = "logout"    -> <<"validate">> \o ManageKeys(cr, <<"read", "commitIfChanged">>)
      [] rt = "register"  -> Authenticate(cr, <<"find", "commit", "read">>)
      [] rt = "login"     -> Authenticate(cr, <<"find", "commit">>)
      [] rt = "refresh"   -> Authenticate(cr, <<"findToken", "commit">>)
      [] rt = "ingest"    -> <<"secret", "read", "commitIfChanged", "read", "fetch",
                              "commitIfChanged", "commitIfChanged">>
      [] rt = "unrouted"  -> <<"refuse">>
      [] rt \in {"probe", "preflight"} -> <<>>

-----------------------------------------------------------------------------
(* The answer **************************************************************)

Reply(r, status) ==
    /\ answer' = [answer EXCEPT ![r] = status]
    /\ phase' = [phase EXCEPT ![r] = "answered"]
    /\ left' = [left EXCEPT ![r] = <<>>]
    /\ UNCHANGED <<process, request, admitted>>

\* The step is done.
GoOn(r) ==
    /\ left' = [left EXCEPT ![r] = Tail(@)]
    /\ UNCHANGED <<process, phase, request, answer>>

At(r, steps) == phase[r] = "serving" /\ left[r] # <<>> /\ Head(left[r]) \in steps

\* Bug: the service has a session of its own beside the one of resolve_principal.
Connected_Bug(r) == IF At(r, {"find", "findToken", "commit", "commitIfChanged"})
                    THEN Cardinality(Borrowed) < PoolSize
                    ELSE conn[r] \/ Cardinality(Borrowed) < PoolSize

\* The session has a connection, or there is one to take.
Connected(r) == conn[r] \/ Cardinality(Borrowed) < PoolSize
Keep(r) == conn' = [conn EXCEPT ![r] = TRUE]
Return(r) == conn' = [conn EXCEPT ![r] = FALSE]

-----------------------------------------------------------------------------
(* The steps ***************************************************************)

Arrive(r, rt, cr) ==
    /\ up
    /\ phase[r] = "idle"
    /\ phase' = [phase EXCEPT ![r] = "serving"]
    /\ route' = [route EXCEPT ![r] = rt]
    /\ cred' = [cred EXCEPT ![r] = cr]
    /\ left' = [left EXCEPT ![r] = Program(rt, cr)]
    /\ UNCHANGED <<process, conn, answer, admitted, wrote>>

\* A check of the body, the parameters, the access token or the internal secret.
Check(r) ==
    /\ At(r, {"validate", "decode", "secret"})
    /\ \/ GoOn(r) /\ UNCHANGED admitted
       \/ Reply(r, IF Head(left[r]) = "validate" THEN "invalid" ELSE "refused")
    /\ UNCHANGED <<conn, wrote>>

\* The application raises an AppError, or no route matches.
Refuse(r) ==
    /\ At(r, {"refuse"})
    /\ Reply(r, "refused")
    /\ UNCHANGED <<conn, wrote>>

\* A SELECT; some lead to a refusal: an unknown key or user, an existing account, a
\* wrong password, an unknown posting or key.
Select(r) ==
    /\ At(r, {"read", "identify", "find", "findToken"})
    /\ Connected(r)
    /\ Keep(r)
    /\ \/ GoOn(r) /\ UNCHANGED admitted
       \/ Head(left[r]) # "read" /\ Reply(r, "refused")
    /\ UNCHANGED wrote

\* rotate_refresh finds a revoked or expired token: it commits, then refuses.
FindSpent(r) ==
    /\ At(r, {"findToken"})
    /\ Connected(r)
    /\ Keep(r)
    /\ left' = [left EXCEPT ![r] = <<"commit", "refuse">>]
    /\ UNCHANGED <<process, phase, request, answer, admitted, wrote>>

\* apply_rate_limit; the limiter is off without REDIS_URL, and a failed call lets the
\* request through outside production.
Limit(r) ==
    /\ At(r, {"limit"})
    /\ \/ GoOn(r) /\ admitted' = [admitted EXCEPT ![r] = TRUE]
       \/ settings.redisUrl /\ Reply(r, "limited")
       \/ settings.redisUrl /\ settings.production /\ Reply(r, "unavailable")
    /\ UNCHANGED <<conn, wrote>>

\* The boards are fetched; a failing board is not an error.
Fetch(r) ==
    /\ At(r, {"fetch"})
    /\ GoOn(r)
    /\ UNCHANGED <<conn, admitted, wrote>>

\* What a COMMIT leaves behind: last_used_at of the caller's key, or data.
Written(r) ==
    LET what == IF Head(left[r]) = "touch" THEN "usage" ELSE "data"
    IN  wrote' = [wrote EXCEPT ![r] = @ \cup {what}]

\* Flush and COMMIT: the connection goes back to the pool.
Commit(r) ==
    /\ At(r, {"touch", "commit", "commitIfChanged"})
    /\ Connected(r)
    /\ Return(r)
    /\ GoOn(r)
    /\ Written(r)
    /\ UNCHANGED admitted

\* The companies are there, a board could not be read, a key or a token is revoked
\* already.
NothingToCommit(r) ==
    /\ At(r, {"commitIfChanged"})
    /\ GoOn(r)
    /\ UNCHANGED <<conn, admitted, wrote>>

\* The handler returns.
Finish(r) ==
    /\ phase[r] = "serving"
    /\ left[r] = <<>>
    /\ Reply(r, IF route[r] \in {"revoke", "logout"} THEN "noContent" ELSE "ok")
    /\ UNCHANGED <<conn, wrote>>

\* Bug: the session is not closed.
Close_Bug(r) ==
    /\ phase[r] = "answered"
    /\ phase' = [phase EXCEPT ![r] = "closed"]
    /\ UNCHANGED <<process, request, left, conn, answer, admitted, wrote>>

\* get_db closes the session, before or after the answer is sent.
Close(r) ==
    /\ phase[r] = "answered"
    /\ phase' = [phase EXCEPT ![r] = "closed"]
    /\ Return(r)
    /\ UNCHANGED <<process, request, left, answer, admitted, wrote>>

\* The pool gave no connection within its timeout: an exception nobody handles.
PoolTimeout(r) ==
    /\ At(r, {"read", "identify", "find", "findToken", "touch", "commit", "commitIfChanged"})
    /\ ~ Connected(r)
    /\ Reply(r, "error")
    /\ UNCHANGED <<conn, wrote>>

\* Any other exception that nobody handles; a COMMIT whose acknowledgement is lost
\* may have been done.
Fail(r) ==
    /\ phase[r] = "serving"
    /\ left[r] # <<>>
    /\ Reply(r, "error")
    /\ \/ UNCHANGED wrote
       \/ At(r, {"touch", "commit", "commitIfChanged"}) /\ Connected(r) /\ Written(r)
    /\ UNCHANGED conn

\* lifespan: placeholder secrets stop a production process, a missing REDIS_URL does not.
Boot ==
    /\ ~ up
    /\ ~ (settings.production /\ settings.placeholders)
    /\ up' = TRUE
    /\ UNCHANGED <<settings, phase, request, left, conn, answer, admitted, wrote>>

\* The process dies; PostgreSQL rolls back what its connections had begun.
Crash ==
    /\ up
    /\ up' = FALSE
    /\ phase' = [r \in Request |-> IF phase[r] = "serving" THEN "lost"
                                   ELSE IF phase[r] = "answered" THEN "closed" ELSE phase[r]]
    /\ left' = [r \in Request |-> <<>>]
    /\ conn' = [r \in Request |-> FALSE]
    /\ UNCHANGED <<settings, request, answer, admitted, wrote>>

-----------------------------------------------------------------------------
Serve(r) ==
    \/ Check(r)
    \/ Refuse(r)
    \/ Select(r)
    \/ FindSpent(r)
    \/ Limit(r)
    \/ Fetch(r)
    \/ Commit(r)
    \/ NothingToCommit(r)
    \/ Finish(r)
    \/ Close(r)

Next ==
    \/ Boot
    \/ Crash
    \/ \E r \in Request :
          \/ \E rt \in Routes, cr \in Credentials : Arrive(r, rt, cr)
          \/ Serve(r)
          \/ PoolTimeout(r)
          \/ Fail(r)

Spec == Init /\ [][Next]_vars

\* The event loop resumes every handler; the boards (httpx) and PostgreSQL answer or
\* time out, and so, by assumption, does Redis: its client has no timeout of its own
\* (rate_limit.py:53).  Nothing has to fail, and the timeout of the pool is not
\* counted on.
FairSpec == Spec /\ \A r \in Request : WF_vars(Serve(r))

-----------------------------------------------------------------------------
(* Properties **************************************************************)

\* What the answer says is what happened.  A route that creates something and answers
\* with success has committed it.  Data is only changed for a request that the limiter
\* has let through, and never by one that is refused, invalid, limited or told to come
\* back, except that a refresh with a spent token ends sessions and says so.  The
\* last use of an API key (api_key_service.py:41-42) is no such data: it is committed
\* before the limiter is asked, for every request with a key that gets so far, and
\* stays whatever is answered; no other request leaves one.  A 500 may follow a commit.
AnswersTellWhatHappened ==
    \A r \in Request : phase[r] \in {"answered", "closed"} =>
        /\ answer[r] = "ok" /\ route[r] \in {"register", "login", "refresh", "createKey"}
              => "data" \in wrote[r]
        /\ "data" \in wrote[r] /\ route[r] # "ingest" => admitted[r]
        /\ "data" \in wrote[r] /\ answer[r] \notin {"ok", "noContent", "error"}
              => route[r] = "refresh" /\ answer[r] = "refused"
        /\ "usage" \in wrote[r] => cred[r] = "key"
        /\ cred[r] = "key" /\ (admitted[r] \/ answer[r] \in {"limited", "unavailable"})
              => "usage" \in wrote[r]

\* Every request is answered and gives its connection back, unless the process dies,
\* however few connections there are and without relying on the timeout of the
\* pool: no handler waits for a second connection while it holds one.
EveryRequestEnds == \A r \in Request : phase[r] = "serving" ~> phase[r] \in {"closed", "lost"}
=============================================================================
