# A specification of the Job Board Aggregator API

TLA+ modules that model the stateful parts of this repository (a FastAPI
service on PostgreSQL and Redis), TLC configurations that check them on small
instances, and TLAPS proofs of what those instances show for every number of
requests, runs, postings, limits and connections. Paths below are relative to the
repository (`src/`).

## 1. The system

| Part | Code | State | Operations | What makes it correct |
|---|---|---|---|---|
| Accounts and refresh tokens | `app/services/auth_service.py`, `routers/v1/auth.py`, `db/session.py` | tables `users`, `refresh_tokens` | register, login, rotate, logout | a token is exchanged once, reuse is noticed and ends the user's sessions, every revocation has a cause, one account per address |
| API keys, principals | `services/api_key_service.py`, `resolve_principal`, `dependencies.py` | table `api_keys` | create, list, revoke, resolve | a revoked key is not served; key before bearer before anonymous |
| Rate limiter | `core/rate_limit.py`, `apply_rate_limit` | Redis keys `rl:tier:id:window`, script cache | count and decide, fail open or closed | no more than the limit per window, a bounded burst at the boundary, `Remaining` is kept |
| Job listing | `list_jobs` in `services/jobs_service.py` | none (the cursor is the client's) | one page | a walk returns every posting that stays, once, and ends |
| Ingestion | `services/ingestion.py`, `greenhouse_client.py`, `routers/internal.py`, `ingest.yml` | tables `companies`, `jobs` | seed, fetch, upsert, close | the open postings of a company are its feed; failures change nothing |
| Request pipeline, pool, start | `main.py`, `config.py`, `dependencies.py`, `db/session.py`, `routers/` | the connections of the engine, the settings | one route's checks, statements and calls in order; boot | an answer tells what was committed, connections come back, nobody waits for ever |
| Errors, request id | `core/errors.py`, `middleware/request_id.py` | none | exception to status and headers | each exception has its status |
| Normalisation | `services/normalize.py` | none | text to fields | pure functions |
| Credentials, OpenAPI text, schemas, migrations | `core/`, `schemas/`, `alembic/` | none | | |

How they interact: a request first resolves its principal (database), then
passes the limiter (Redis), then runs its service on the *same* database
session, whose transaction begins with the first statement and ends with the
service's commit or when `get_db` closes the session. Requests share nothing
but the two stores. The only long-running request is `/internal/ingest`, called
by a six-hourly schedule or by hand; it writes the table that the listing reads.

Where the difficulty is:

* The service awaits the database between reading a row and writing it, at
  PostgreSQL's default READ COMMITTED. Requests are `async`, workers may be
  several, so any two handlers interleave at every `await`.
* Bulk UPDATEs see the rows of their snapshot and wait for locked ones.
* The limiter reads its clock before the call, answers overtake each other, keys
  expire, and the call may fail after it has taken effect.
* A session borrows a database connection with its first statement and keeps it
  while the request waits for Redis or for the boards; after a commit it has to
  get one again.
* Ingestion runs may overlap, fail between two companies, and change the table
  under a client that is walking through it.

## 2. The modules

| Module | What it is |
|---|---|
| `SessionLedger` | abstract: what the token store promises |
| `Sessions` | accounts and refresh tokens as concurrent requests; implements `SessionLedger` |
| `SessionsProofs` | theorems about `Sessions`, for every set of requests and accounts |
| `RateLimiter` | the Lua script, the Redis keys and the requests of one client |
| `Pagination` | a client's walk through `GET /v1/jobs` while the table changes |
| `Ingestion` | concurrent runs of `POST /internal/ingest` |
| `Gateway` | what every request passes before its service, and the API keys managed behind it |
| `Requests` | every route as the sequence of its checks, statements and calls; the connection pool, the answer, the death and start of the process |
| `RateLimiterProofs`, `PaginationProofs`, `IngestionProofs`, `GatewayProofs`, `RequestsProofs` | theorems about the modules they are named after |
| `MCSessions`, `MCRateLimiter`, `MCPagination`, `MCIngestion`, `MCGateway`, `MCRequests` | instances for TLC |

Operators whose names carry a suffix such as `_Bug` or `_Fixed` stand before a
definition of the same name. They are not part of the system: each is a
plausible mistake in that piece of code, and `PROJECT.json` lists, under
`mutants`, which property notices when it takes the definition's place.

### 2.1 Sessions

A *request* is a process that is served once; the token it issues is named
after it, so `owner[r]` is both "r was given a token" and whose it is. The split
into actions follows the statements that reach the database:

| Action | Code |
|---|---|
| `Register`, `Login`, `Refresh`, `Logout` | arrival and the deciding SELECT (lines 57, 70, 80, 107) |
| `InsertUser` | the flush of the new user; waits for a pending INSERT of the same address, fails with a 500 once one is committed |
| `RevokeRow` | the UPDATE by primary key of a rotation, expiry or logout; waits for the row's lock, does *not* look at `revoked_at` again |
| `SweepStart`, `SweepRow` | the bulk UPDATE: its snapshot, then row by row, waiting for locks and testing `revoked_at IS NULL` again |
| `CommitIssue`, `CommitRevocation` | the COMMITs; everything the request wrote becomes visible at once |
| `Fail`, `DeadlockVictim` | the session is closed before the commit, by a failure or by PostgreSQL's deadlock detector |
| `Expire` | the clock passes `expires_at` |

`held[r]` is the set of rows r has written and not committed, which is also the
set of locks it holds. `seen[r]` is a history variable: the requests already
answered when r's deciding statement took its snapshot. It is what "concurrent"
means in the properties. An answer in `pc` is what the server did: `"tokens"` says
that the commit happened, also if the client never gets to see it (a broken
connection, or the 500 of a register whose row could not be read again). A token
that is committed may be presented by anybody, so this only adds behaviours. The
User row that rotation looks up by id always
exists, as no code deletes users.

`SessionLedger` has no requests, transactions or locks: tokens are granted by a
sign-in or in exchange for another token of the same user, which ends in the
same step; tokens end in batches of one user; nothing comes back. It starts new or
from any state these rules allow, so that a database with sessions in it
implements it too. The refinement maps `ended` to `revoked` and reads `parent` off the calls.

### 2.2 RateLimiter

One bucket: the requests of one tier and identifier. `Send` reads the clock
(line 86), `Check` is the script run by Redis (atomic) together with the answer,
`RedisFails` is the `except` branch, with the script executed or not; in
production it answers 503, elsewhere it lets the request through. `Tick` is the
clock and the expiry of keys. The count `current + previous * weight` is kept
as an integer by multiplying it by `Window`, so the comparison with the limit is
exact; the script's floating point is outside the model. `admitted`, `prompt`,
`late`, `promise`, `notBefore` and `streak` are history variables for the
properties and no guard reads them. `prompt[n]` and `late[n]` are the requests let
through in the last n seconds: those that Redis counted in the window of their
stamp, and those that crossed a window boundary on the way.

### 2.3 Pagination

One client walks; a page is one SELECT, hence one step. Between the pages `Ingest`
is the commit of an `ingest_company`: any number of postings at once are stored
(inserted, or updated and thereby opened, possibly with another date) or closed.
The table of the model is what the walk's filters let through: an update may
change texts the filters look at, so a stored posting may come in or drop out. A
posting is its id, because the order of ids breaks ties; a comparison with NULL
does not hold. `stable` remembers which postings have been listed since the walk
began without a change of date. `Undated` says whether boards may give no date.

### 2.4 Ingestion

A *run* is one call of `/internal/ingest`. `Start` and `Seed` are
`ensure_seed_companies`; `FetchBoards` is the gathered fetch: a board lists any
subset of its postings or cannot be read; then, company by company, `Begin`,
`Select` and `Flush` for each posting of the feed (the flush happens before the
next statement, which is where another run can come between), `CloseScan`,
`CloseRow`, `Commit`. `Duplicate` is the IntegrityError of an INSERT that came
second, `Fail` every other uncaught exception, among them a board that answers
200 with something that is not JSON. A 200 without a list of jobs is an empty
feed. `write[r]` is the uncommitted state of rows, hence also the locks;
`rivals[r]` is a history variable: the runs that were persisting the same company
at some time while r was. Of a row only `closed_at` is kept.

### 2.5 Gateway

`Arrive` is the SELECT of `resolve_principal` and its verdict on the credential;
`Touch` the commit of `last_used_at`, which waits for a revocation that holds
the row; `Count` and `CountFails` the limiter's call, which needs Redis to be up
and, since the application calls the script by its digest (`sha`), to have it
cached; then the service: `Mint` and `Reread`, or `FindKey`, `RevokeRow`, `Commit`.
`Mint` is the COMMIT of a new key (line 16) and `Reread` the separate SELECT behind it
(line 17), which may fail and leave a key behind a 500. The acknowledgement of
either COMMIT may be lost (`acknowledged`): the request answers 500, the change
stays. `Fail` and `Restart` between two steps roll back only what is not committed.
A client knows a key from the answer that gave it away, so `Presented` has only keys
whose `pc` is `"created"`. Redis may
become unreachable with or without losing the script, and the application may be
restarted, which loses its requests and runs `init_redis` again. How much a bucket
admits is `RateLimiter`'s subject: `Count` may let through or refuse.
`counted`, `ended` and `foundUp` are history variables. `Gateway` is a process with a
`REDIS_URL`; one without it, in production too, is a setting of `Requests`.

### 2.6 Requests

The other modules look at one store each; this one at what a request goes through
in the process. `Program` gives for each route, and for each kind of credential,
the steps in the order the code makes them: FastAPI parses the body, then runs
the dependencies (`get_principal`, the limiter, `require_jwt_user`), then
validates the route's own parameters; register, login and refresh are validated
first and resolve the principal and call the limiter themselves. A key costs a
commit and a second read before the limiter.

| Step | Action |
|---|---|
| `"validate"`, `"decode"`, `"secret"` | `Check`: goes on, or 422, or 401 |
| `"identify"`, `"find"`, `"findToken"`, `"read"` | `Select`: a statement that needs a connection; all but `"read"` may refuse. `FindSpent` is the refresh that finds a revoked or expired token, commits and then refuses |
| `"limit"` | `Limit`: on, 429, or in production 503; without `REDIS_URL` always on |
| `"fetch"` | `Fetch`: the boards, during which the session keeps its connection |
| `"touch"`, `"commit"`, `"commitIfChanged"` | `Commit`, which gives the connection back, and `NothingToCommit` |
| `"refuse"` | `Refuse`: an `AppError`, or no such route |

`conn[r]` says that r's session has a connection. `Reply` sets the status that the
exception handlers make of the outcome; headers are not modelled. `Close` is the end
of `get_db`; FastAPI versions differ in whether it comes before or after the answer
is sent, and the model does not say. `PoolTimeout` and `Fail` are the exceptions
nobody handles; a COMMIT that fails may have been done, only its acknowledgement is
lost. `Boot` is `lifespan`, `Crash` the death of the process. `cred[r]` is the kind of
credential r shows. `wrote[r]` is a history variable: what r has committed, `"usage"`
for the `last_used_at` of its key (`"touch"`), `"data"` for anything else.

## 3. What is checked

| Run | Instance | Properties |
|---|---|---|
| `sessions` | 2 accounts; 3 requests on an empty database, and 2 on a user with two live sessions and a rotated token; with fairness | `TypeOK`, `ReuseDetectedUnlessConcurrent`, `RevocationIsExplained`, `SweepCoversEarlierSessions`, `OneRegistrationPerAccount`, `RefinesLedger`, `EveryRequestAnswered` |
| `requests` | 2 requests, 1 connection, 3 settings, with fairness | `TypeOK`, `AnswersTellWhatHappened`, `EveryRequestEnds` |
| `gateway` | 3 requests, 2 users, production | `TypeOK`, `RevocationIsImmediate`, `KeysAreManagedBySessions`, `ServedIsCounted` |
| `limiter` | 3 requests in flight, limit 2, window 3 s, lag 1 s, 14 s | `TypeOK`, `CountersCoverAdmissions`, `WindowCap`, `SlidingBound`, `BurstBound`, `LateBurstBound`, `RemainingIsHonoured`, `ObedientClientIsAdmitted` |
| `pagination` | 3 postings, 2 dates, pages of 1 and 2, with fairness | `TypeOK`, `StableReturnedOnce`, `CursorMovesOn`, `WalkEnds` |
| `ingestion` | 2 runs, 2 companies, 3 postings, one without a URL, with fairness | `TypeOK`, `ChangesComeFromFeeds`, `FeedDecidesUnlessContested`, `EveryRunEnds` |

What they show:

* **Sessions.** Of two refreshes that both got a successor of one token, each was
  in flight when the other read it: any later use of the old token is noticed.
  Each revoked token is accounted for by an answered request of its own user,
  whatever fails in between. After "All sessions have been revoked" every token
  answered before the bulk UPDATE began is revoked. One registration per address
  succeeds. Nobody waits for a lock for ever.
* **Limiter.** Redis still counts every admitted request as long as it may be
  weighed; no window admits more than the limit; each admission is covered by
  the sliding bound at the moment Redis runs the script, also for a request that
  comes late. Of the requests that reach Redis in the window of their stamp, at most
  `Limit + Limit*(n-2)/Window` get through in any n seconds. Requests that cross the
  boundary on the way are neither weighed against the new window nor it against
  them, so a double burst *is* possible, within a single second even: `2*Limit` is
  the bound then (`LateBurstBound`), and the instance reaches it. `Remaining` is honoured when the answers are not overtaken; a client that waits as told is
  let in after at most two more refusals (for a limit above 1).
* **Pagination.** With dated postings a walk returns each posting that stays in its
  query, with the same date, exactly once, always moves on, and ends, whatever is
  committed between its pages.
* **Ingestion.** A posting opens or closes only in the commit of a run whose feed
  says so; a run leaves exactly what its feed says of each posting, unless an
  overlapping run of the same company says the opposite; every run ends.
* **Gateway.** A key whose revocation was answered serves no request that arrives
  later; that the lookup reads `revoked_at` every time is all it takes, and a request
  that is past the lookup is served. What is answered about a key is true: a key
  given away exists, a revocation answered is committed. The other way around there is
  doubt: behind every key and revocation stands a request of the user's own session,
  which may have failed at or after its commit, so that a key can exist which nobody
  has been told. With a `REDIS_URL`, in production, whatever gets past the limiter
  was counted by Redis, through restarts of either.
* **Requests.** A success of a route that creates something has committed it; data is
  changed only for a request the limiter has let through, and by no refusal (401,
  404, 409, 422, 429, 503) but that of a spent refresh token, which ends sessions and
  says so. The last use of an API key is another matter: it is committed before the
  limiter is asked, for every key that gets so far, and stays when the request is
  then refused. A 500 may follow a commit: the account or key then exists although the
  client has not seen it. No handler needs a second connection while it holds one,
  so with a single connection everybody is served.

Six runs are expected to fail. Each states something the documentation says and
shows the code doing something else (`findings` in `PROJECT.json`):

| Run | Property | What happens |
|---|---|---|
| `sessions_double_exchange` | `ExchangedAtMostOnce` | two refreshes read the token before either commits: both are given a successor |
| `sessions_sweep_escape` | `SweptSessionsEnd` | a rotation commits while the bulk UPDATE runs: the session lives on in its successor |
| `limiter_retry_after` | `RetryAfterIsEnough` | refused requests weigh on the next window: the client that waited is refused again |
| `pagination_undated` | `StableReturnedOnce` | after an undated posting the walk starts again at the dated ones |
| `ingestion_overlap` | `OpenSetIsAFeed` | neither of two runs sees what the other inserts: the union stays open |
| `gateway_restart` | `UnavailableOnlyWhileDown` | Redis restarts without the script: requests are refused as unavailable while it is up |

Three more statements are not quite what the code does. They get no run and no
property: which layer makes the answer decides them, no interleaving does, and the
models have no headers.

* `app/core/openapi.py:127`, "`X-Request-ID` is set on every response": not on the
  answer to an unhandled exception, the one that would need it most, as its
  handler is outside `RequestIdMiddleware`, nor on preflights, which
  `CORSMiddleware` answers.
* `app/core/openapi.py:71`, "Successful and limited responses include
  `X-RateLimit-Limit`": the 204 of logout and of a key's revocation do not, because
  these handlers return a `Response` of their own and FastAPI then drops the
  headers set on the injected one; nor does `/health`, which has no limiter.
* `app/core/rate_limit.py:50` says that limiting is disabled without `REDIS_URL`;
  a production process starts that way too, with a line in the log.

### Bounds

All safety properties of the passing runs are also proved, without these bounds
(section 4); the bounds matter for liveness and for the runs that are expected to
fail.

* *Sessions.* Violations of the safety properties need a sign-in, a rotation, a
  reuse and one more request that interferes; two accounts let one be confused
  with the other. Two bulk revocations that lock each other out need two live
  tokens and a rotated one before they begin. That state is `WarmInit`, which
  `Spec` reaches with three requests served one after the other; two more
  requests follow it. `ColdInit` has three requests on an empty database, for
  registrations that race.
* *Limiter.* `MaxLag` bounds the seconds between clock reading and script,
  `MaxHits` the requests counted in one window (three above the limit, so that
  refused requests weigh), `MaxTime` the clock (four windows: a window, its
  successor, the expiry of the first key after `2 * Window`, and one more).
  `Send` and `Tick` name them in their guards. Three requests in flight and a limit
  of two let `2*Limit` through in the second after a boundary, and three refusals
  in a row of a client that waits. A lag of more than a window is not modelled.
* *Pagination.* Three postings on two dates give ties, a tie across a page boundary
  and a last page; pages of one and two rows are mixed within a walk. The table is
  not followed once the walk is over.
* *Ingestion.* Two runs are the smallest overlap. Two usable postings of one company
  let runs lock each other out and insert or close different rows; the second
  company's posting has no URL, so that its feed may have entries of which none is
  usable. The instance starts from new tables, or with one posting closed and the
  others open (`FewInit`), which gives inserts, reopenings and plain updates;
  `ingestion_overlap` starts from every state of `Init`.
* *Gateway.* Mint, revoke and use take three requests; credentials are enumerated as
  a minted key, a valid bearer token, none, or one that means nothing. Each COMMIT may
  be acknowledged or not.
* *Requests.* One connection is the tightest pool and two requests are enough for one
  to hold it and one to want it; each may take any of the twelve routes with any
  credential. `FewInit` keeps production with Redis, whose limiter has every answer,
  neither of the two, and placeholder secrets, which stop a production process.
  The engine has fifteen connections, which changes when requests
  wait, not for what. `ingest` stands for two companies.

Symmetry is used for requests and users, in runs that check no liveness.

### Fairness

`Sessions`, `Ingestion` and `Requests` assume weak fairness of what the server does for a
request it has accepted (in `Requests` until the process dies): the event loop resumes each coroutine whose statement
has returned, PostgreSQL grants a free lock and breaks a cycle of waiting
transactions, `httpx` calls end by their timeout. That Redis answers or fails is an
assumption: its client is built without a socket timeout (`rate_limit.py:53`), so a
connection that hangs would hang the request with it. Arrivals, failures, expiry and the
timeout of the pool are not fair: `EveryRequestEnds` does not rely on it. `Pagination` assumes that the client asks for the next page as long
as `has_more` is true; ingestion goes on for ever if it likes. The limiter has no
fairness and no liveness property: "after at most n refusals" is a safety property.

## 4. What is proved

TLAPS checks the theorems below for *every* value of the constants that meets
the assumptions of the modules; sets need not be finite unless an assumption
says so. The assumptions are typing (`CompanyOf` is a function, `Limit` and
`Window` are positive numbers, ids are numbers, `None` is nobody) and the bound
of a model's clock and counters (`BoundAssumption`: the clock covers at least
one window). Each module has an inductive invariant `IInv`, which TLC checked on
small instances before it was proved, one lemma per conjunct and one step per
action; the theorems follow from `Spec => []IInv`, or, for action properties,
from `IInv /\ [Next]_vars => [A]_vars`.

The properties of the runs that are expected to fail are false of `Spec`. Where
one condition explains the failure, a theorem says that it is the *only* one: under
`[]Condition` the property holds. The condition is about what happens, not a
restriction of the constants, and it is met by executions in which everything
else goes on: other requests, other runs, failures and crashes.

### 4.1 Sessions

| Theorem | Statement |
|---|---|
| `TypeCorrect` | `Spec => []TypeOK` |
| `ReuseDetected` | `Spec => []ReuseDetectedUnlessConcurrent` |
| `SweepCovers` | `Spec => []SweepCoversEarlierSessions` |
| `Explained` | `Spec => []RevocationIsExplained` |
| `OneRegistration` | `Spec => []OneRegistrationPerAccount` |
| `ImplementsLedger` | `Spec => RefinesLedger` |
| `ExchangedOnceUnlessDoubleSubmit` | `Spec /\ []NoDoubleSubmit => []ExchangedAtMostOnce` |
| `SweptUnlessRotating` | `Spec /\ []NoRotationDuringSweep => []SweptSessionsEnd` |

`IInv` consists of

* `TypeOK`;
* `CallOK`: what `pc`, `call` and `owner` say of each other (a request that is
  rotating has read an issued token of the user it acts for, the answered
  requests with tokens are exactly the issued tokens, ...);
* `LocksOK`: which rows a request holds at which point, and that a bulk revocation
  only holds and visits its user's tokens. It is needed because a commit revokes
  *what is held*;
* `ReadOK`: a request that is exchanging a token read it live, so a request that
  has exchanged it before was not answered when it read. This is what makes
  reuse detection inductive. It also says of a running bulk UPDATE that each token
  its answer will cover is revoked, held or still to be visited, from which
* `SweepCoversEarlierSessions` follows when it commits;
* `RevokedOK`: the explanations of revocations, `AccountsOK`: accounts come from
  registrations and pending registrations exclude each other.

For `ImplementsLedger` each action is mapped: `CommitIssue` to `SignIn` or
`Exchange`, `CommitRevocation` to `End` of the rows held, all others to a
stutter; the empty tables are a ledger.

The last two are the other side of two findings. `NoDoubleSubmit`: no token is
presented while a rotation of it is between its SELECT and its commit; then
there is one exchange at most (`OneExchange`), because a second SELECT finds the
row revoked. `NoRotationDuringSweep`: no token of a user is between the two while
a bulk revocation of that user runs; then every successor of a covered token was
itself in the snapshot (`NoEscape`) and is covered, too.

### 4.2 RateLimiter

| Theorem | Statement |
|---|---|
| `TypeCorrect` | `Spec => []TypeOK` |
| `ObedientAdmitted` | `Spec => []ObedientClientIsAdmitted` |
| `CountersCover` | in production, `Spec => []CountersCoverAdmissions` |
| `Capped` | in production, `Spec => []WindowCap` |
| `Sliding` | in production, `Spec => SlidingBound` |
| `Burst` | in production, `Spec => []BurstBound`: of the requests that reach Redis in the window of their stamp, at most `Limit + Limit*(n-2)/Window` get through in n seconds |
| `LateBurst` | in production, `Spec => []LateBurstBound`: of all requests, at most `2*Limit`, while n and the lag fit into a window |
| `RemainingHonoured` | in production, `Spec => []RemainingIsHonoured` |

Six theorems assume `Production`: elsewhere `check_rate_limit` lets a request
through when Redis fails, uncounted, and none of the six is true. `IInv` says
when a request in flight was stamped (`StampOK`), that a key lives until the window
after its own is over (`ExpiryOK`: `EXPIRE` is set late enough even by the first
request of a window that comes late), that nothing is counted in a window that has
not begun (`FutureOK`), and what the windows around `notBefore` may hold after
one, two and three refusals (`StreakOK`): a client that waits leaves ever emptier
windows behind it, hence is let in. In production `PromiseOK` adds that `Remaining`
is covered for every stamp a request may still carry, and two conjuncts say where the
admissions of the last n seconds are counted. `PromptOK`: those of requests that
reached Redis in time are among the admissions of the current window, as far as
it has elapsed, and the others among those of the window before. With
`SlidingBound`'s step this gives `BurstBound`: when e seconds of the window have
elapsed, n > e + 1 seconds reach into the window before, whose admissions weigh
`Window - e` of `Window`, so at most `Limit * e`, hence `Limit * (n - 2)`, of them
exceed the limit; a second that passes only makes n larger. `LateOK`: a late request
was stamped at most `MaxLag` seconds ago, so all that n seconds let through is
among the admissions of the current window if n + `MaxLag` seconds of it have elapsed,
and of this window and the one before if n + `MaxLag` is at most `Window`; each
of them has at most `Limit` (`WindowCap`), which gives `LateBurstBound`. The lemmas of
the first part say all that is used of `\div`, `%` and products; that a later stamp
in the same or the next window weighs less is the one that matters.

The proof of `TypeCorrect` needs `MaxTime >= Window`: `Init` has the first window
in the range of the counters.

### 4.3 Pagination

| Theorem | Statement |
|---|---|
| `TypeCorrect` | `Spec => []TypeOK` |
| `PageIsFull` | a page is the first n postings behind the cursor, or all of them |
| `ReturnedOnce` | if boards date their postings, `Spec => []StableReturnedOnce` |
| `MovesOn` | if boards date their postings, `Spec => CursorMovesOn` |

The hypothesis is `Undated = FALSE`; with undated postings both fail, which is the
finding of `pagination_undated`. The argument: `Before` is a strict total order
(`BeforeIsTotal`), so the rows of a page are those of rank below n, the last of
them is unique, and a dated cursor selects exactly what comes after it
(`PageMovesCursor`). `WalkOK` then says that a posting which stays has been
returned once if its place is not behind the cursor, and not at all otherwise;
no commit between the pages can disturb that, as it does not move the places of the
postings that stay.

### 4.4 Ingestion

| Theorem | Statement |
|---|---|
| `TypeCorrect` | `Spec => []TypeOK` |
| `FeedsDecide` | `Spec => ChangesComeFromFeeds` |
| `FeedDecides` | `Spec => FeedDecidesUnlessContested` |
| `OpenSetWithoutOverlap` | `Spec /\ []NoOverlap => []OpenSetIsAFeed` |

The properties speak of a COMMIT, but what makes them true is spread over the
transaction before it: `IInv` says for each posting of the company in progress how
far it has come (`OpensSoFar`: unread, changed in memory, written, or read as open;
`ClosesSoFar` likewise) and that once it has been read, the committed row is still
what was read, or a rival is to blame whose feed says the opposite. That rivals
are known to each other (`RivalsAreKnown`) and that no run reads or writes rows
of another company than its own (`LeftOK`, `PendingOK`, `WritesOK`) carries the
argument over the steps of other runs.

`NoOverlap`: no two runs are persisting the same company at once; they may work on
different companies, and one may fetch before another persists. It is the
only thing missing for `OpenSetIsAFeed`; `Run # {}` is assumed, as somebody has to
have brought the feed.

### 4.5 Gateway

| Theorem | Statement |
|---|---|
| `TypeCorrect` | `Spec => []TypeOK` |
| `Immediate` | `Spec => []RevocationIsImmediate` |
| `Managed` | `Spec => []KeysAreManagedBySessions` |
| `Counted` | `Spec => []ServedIsCounted` |
| `UnavailableOnlyByTheScript` | `Spec /\ [][KeepsTheScript]_vars => []UnavailableOnlyWhileDown` |

`IInv` adds the credential and the row a request works with at each of its steps
((`CallOK`), at which steps it has been counted (`CountedOK`), that a revocation
that was answered is committed (`RevokedOK`), which a request that arrives later
reads, and that a key or a revocation which is committed was asked for by a request
of the key's user that has come at least as far as its commit (`AskedOK`). `Managed`
therefore does not say that keys exist if and only if somebody was told so: it says
that answers are true, and who may be behind a key after a failure. `KeepsTheScript`: no step takes the script out of Redis; Redis may still
become unreachable and come back, and the application may be restarted.

### 4.6 Requests

| Theorem | Statement |
|---|---|
| `TypeCorrect` | `Spec => []TypeOK`, which includes that the pool is never overdrawn |
| `AnswersHonest` | `Spec => []AnswersTellWhatHappened` |

What an answer says is settled by the order of a route's steps. `Careful` says of
what is *left* of a program that whatever changes data comes behind the limiter,
whatever may refuse comes before the first commit (but for a spent refresh token),
and success is not reached without the commit. Every program of `Program` is careful
to begin with (`ProgramsAreCareful`), and stays careful without its first step
(`FirstStepDone`). `Noting` says the same of the last use of a key: it comes before
the limiter in what is left, or has been committed, and only a request with a key
has such a step (`ProgramsNoteKeys`, `NotingGoesOn`).

### 4.7 Only model-checked

* Liveness: `EveryRequestAnswered`, `EveryRunEnds`, `WalkEnds`, `EveryRequestEnds`.
  TLAPS does not reason about fairness.
* That a client which waits is let in at once, `RetryAfterIsEnough`, is refuted by its
  run; `ObedientAdmitted` is what holds instead.

## 5. What is not modelled

* Which address stands for an anonymous client; the tier that `/v1/auth/refresh`
  charges.
* `normalize.py`: pure functions on text, regular expressions for the most part,
  without state or order of their own. The models keep the two results that
  matter, "no URL" and "no date". Ids that are missing in a feed and all become
  the text "None" are not distinguished.
* Cryptography and JWT: library calls, taken as outcomes.
* Error codes and messages, OpenAPI text, schemas, migrations, and the settings that
  are mere numbers or addresses: no state. That a schema rejects an input is the
  422 of `Requests`.
* The headers of answers: `X-RateLimit-*`, `Retry-After`, `X-Request-ID`. `RateLimiter`
  has the values of `Remaining` and `Retry-After`, no model has their delivery.
* A production process without `REDIS_URL` is a setting of `Requests`, where its limiter
  lets everything through; it is not an instance of `Gateway` or `RateLimiter`.
* The size of the pool's overflow, its pre-ping and the time it waits; closing the
  Redis client when the application stops.
* Isolation levels other than READ COMMITTED; SQLite, which only the tests use,
  serialises writers and would hide the interleavings.

## 6. Plan

Written in the order of importance: sessions first, then the limiter, the listing,
ingestion, the gateway and the request pipeline; then the proofs, in the order of
section 4. What could still be added:

1. An abstract specification of the keys (`Gateway`), in the style of `SessionLedger`:
   keys are minted once, end once, and are used only in between.
2. Exclusive row locks as a theorem of their own for `Sessions` and `Ingestion`:
   the proofs do not need them, the deadlock analysis relies on them.
