------------------------------ MODULE Gateway ------------------------------
(***************************************************************************)
(* What every request passes before its service, and the API keys that are *)
(* managed behind it: resolve_principal (app/services/jobs_service.py),    *)
(* api_key_service.py, and the call of the limiter's script with the       *)
(* script cache of Redis in the picture (app/core/rate_limit.py).          *)
(*                                                                         *)
(* A request is a process that is served once.  A key is named after the   *)
(* request that mints it.  The application is one process; Redis may stop, *)
(* and comes back without the script that was loaded when the application  *)
(* started.  How many requests a bucket allows is RateLimiter's subject:   *)
(* here a counted request may be let through or refused.                   *)
(***************************************************************************)
CONSTANTS
    Request,     \* the requests; each mints at most one key
    User,        \* registered users; a bearer token names one of them
    Production,  \* settings.is_production
    None         \* no user, no key

ASSUME NoneAssumption == None \notin Request /\ None \notin User
ASSUME ModeAssumption == Production \in BOOLEAN

VARIABLES
    owner,     \* committed rows of api_keys: owner[k] is k's user
    revoked,   \* committed keys whose revoked_at is set
    held,      \* held[r]: the row r has set revoked_at of and not committed
    call,      \* call[r]: operation, credentials and the key to be revoked
    pc,        \* pc[r]: how far r has come, at the end its answer
    sha,       \* the application knows the digest of the loaded script
    redisUp,   \* Redis answers
    cached,    \* Redis has the script
    counted,   \* history: the requests Redis has counted
    ended,     \* history: ended[r], keys whose revocation had been answered when
               \* the key of r was read
    foundUp    \* history: requests whose call failed although Redis was up

keys == <<owner, revoked, held>>
limiter == <<sha, redisUp, cached, counted>>
vars == <<owner, revoked, held, call, pc, sha, redisUp, cached, counted, ended, foundUp>>

Answers == {"served", "created", "revokedOk", "unauthorized", "notFound",
            "limited", "unavailable", "error"}
Working == {"touch", "limit", "mint", "reread", "findKey", "revoke", "commit"}
Operations == {"none", "visit", "mint", "revoke"}
\* Credentials: a minted key, a valid bearer token, none, or one that means nothing.
Credential == [kind : {"key"}, of : Request] \cup [kind : {"bearer"}, of : User]
                  \cup [kind : {"none", "unknown"}, of : {None}]
NoCall == [op |-> "none", cred |-> [kind |-> "none", of |-> None], target |-> None]

TypeOK ==
    /\ owner \in [Request -> User \cup {None}]
    /\ revoked \subseteq Request
    /\ held \in [Request -> SUBSET Request]
    /\ call \in [Request -> [op : Operations, cred : Credential, target : Request \cup {None}]]
    /\ pc \in [Request -> Answers \cup Working \cup {"idle"}]
    /\ sha \in BOOLEAN /\ redisUp \in BOOLEAN /\ cached \in BOOLEAN
    /\ counted \subseteq Request
    /\ ended \in [Request -> SUBSET Request]
    /\ foundUp \subseteq Request
    /\ \A r \in Request : held[r] # {} => pc[r] = "commit" /\ held[r] = {call[r].target}

\* init_redis has loaded the script, or has found Redis down and will send it with
\* every call.
Init ==
    /\ owner = [k \in Request |-> None]
    /\ revoked = {}
    /\ held = [r \in Request |-> {}]
    /\ call = [r \in Request |-> NoCall]
    /\ pc = [r \in Request |-> "idle"]
    /\ redisUp \in BOOLEAN
    /\ sha = redisUp
    /\ cached = redisUp
    /\ counted = {}
    /\ ended = [r \in Request |-> {}]
    /\ foundUp = {}

-----------------------------------------------------------------------------
Revocations == {r \in Request : call[r].op = "revoke" /\ pc[r] = "revokedOk"}
Goto(r, l) == pc' = [pc EXCEPT ![r] = l]
Live(k) == owner[k] # None /\ k \notin revoked
Free(k) == \A r \in Request : k \notin held[r]

(* resolve_principal *******************************************************)

\* Bug: revoked_at is not looked at.
Resolve_Bug(c) ==
    CASE c.kind = "unknown"           -> "unauthorized"
      [] c.kind = "key"               -> IF owner[c.of] # None THEN "touch" ELSE "unauthorized"
      [] c.kind \in {"bearer", "none"} -> "limit"

\* What becomes of a request.  A key is looked up by its hash; a bearer token is
\* only considered when there is no key; without either the caller is anonymous.
Resolve(c) ==
    CASE c.kind = "unknown"           -> "unauthorized"
      [] c.kind = "key"               -> IF Live(c.of) THEN "touch" ELSE "unauthorized"
      [] c.kind \in {"bearer", "none"} -> "limit"

\* A request arrives and its credential is read.
Arrive(r, op, c, target) ==
    /\ pc[r] = "idle"
    /\ call' = [call EXCEPT ![r] = [op |-> op, cred |-> c, target |-> target]]
    /\ Goto(r, Resolve(c))
    /\ ended' = [ended EXCEPT ![r] = {call[s].target : s \in Revocations}]
    /\ UNCHANGED <<keys, limiter, foundUp>>

\* resolve_api_key commits last_used_at: an UPDATE that waits for a revocation in
\* progress.  The row is read again, but revoked_at is not looked at any more.
Touch(r) ==
    /\ pc[r] = "touch"
    /\ Free(call[r].cred.of)
    /\ Goto(r, "limit")
    /\ UNCHANGED <<keys, call, limiter, ended, foundUp>>

(* apply_rate_limit ********************************************************)

\* The operation itself; managing keys asks for a bearer token (require_jwt_user).
AfterLimit(r) ==
    IF call[r].op = "visit" THEN "served"
    ELSE IF call[r].cred.kind # "bearer" THEN "unauthorized"
    ELSE IF call[r].op = "mint" THEN "mint" ELSE "findKey"

\* EVALSHA needs the script in Redis; EVAL brings it along, and leaves it there.
ScriptRuns == redisUp /\ (sha => cached)

\* Redis counts the request and lets it through or refuses it.
Count(r, allowed) ==
    /\ pc[r] = "limit"
    /\ ScriptRuns
    /\ cached' = TRUE
    /\ counted' = counted \cup {r}
    /\ Goto(r, IF allowed THEN AfterLimit(r) ELSE "limited")
    /\ UNCHANGED <<keys, call, sha, redisUp, ended, foundUp>>

\* Bug: open everywhere.
CountFails_Bug(r) ==
    /\ pc[r] = "limit"
    /\ ~ ScriptRuns
    /\ Goto(r, AfterLimit(r))
    /\ UNCHANGED <<keys, call, limiter, ended, foundUp>>

\* The call raises an exception: closed in production, open elsewhere.
CountFails(r) ==
    /\ pc[r] = "limit"
    /\ ~ ScriptRuns
    /\ Goto(r, IF Production THEN "unavailable" ELSE AfterLimit(r))
    /\ foundUp' = IF redisUp THEN foundUp \cup {r} ELSE foundUp
    /\ UNCHANGED <<keys, call, limiter, ended>>

(* api_key_service *********************************************************)

\* create_api_key: INSERT and COMMIT, whose acknowledgement may be lost.
Mint(r, acknowledged) ==
    /\ pc[r] = "mint"
    /\ owner' = [owner EXCEPT ![r] = call[r].cred.of]
    /\ Goto(r, IF acknowledged THEN "reread" ELSE "error")
    /\ UNCHANGED <<revoked, held, call, limiter, ended, foundUp>>

\* create_api_key reads the row again and gives the key away.
Reread(r) ==
    /\ pc[r] = "reread"
    /\ Goto(r, "created")
    /\ UNCHANGED <<keys, call, limiter, ended, foundUp>>

\* Bug: the key is looked up without its user.
FindKey_Bug(r) ==
    LET k == call[r].target IN
    /\ pc[r] = "findKey"
    /\ Goto(r, IF owner[k] = None THEN "notFound"
               ELSE IF k \in revoked THEN "revokedOk" ELSE "revoke")
    /\ UNCHANGED <<keys, call, limiter, ended, foundUp>>

\* revoke_api_key: the SELECT by id and user.
FindKey(r) ==
    LET k == call[r].target IN
    /\ pc[r] = "findKey"
    /\ Goto(r, IF owner[k] # call[r].cred.of THEN "notFound"
               ELSE IF k \in revoked THEN "revokedOk" ELSE "revoke")
    /\ UNCHANGED <<keys, call, limiter, ended, foundUp>>

\* The UPDATE of revoked_at, by primary key.
RevokeRow(r) ==
    /\ pc[r] = "revoke"
    /\ Free(call[r].target)
    /\ held' = [held EXCEPT ![r] = {call[r].target}]
    /\ Goto(r, "commit")
    /\ UNCHANGED <<owner, revoked, call, limiter, ended, foundUp>>

\* Bug: the row keeps its lock and its uncommitted value.
Commit_Bug(r, acknowledged) ==
    /\ pc[r] = "commit"
    /\ Goto(r, IF acknowledged THEN "revokedOk" ELSE "error")
    /\ UNCHANGED <<owner, revoked, held, call, limiter, ended, foundUp>>

\* The COMMIT of the revocation; its acknowledgement may be lost.
Commit(r, acknowledged) ==
    /\ pc[r] = "commit"
    /\ revoked' = revoked \cup held[r]
    /\ held' = [held EXCEPT ![r] = {}]
    /\ Goto(r, IF acknowledged THEN "revokedOk" ELSE "error")
    /\ UNCHANGED <<owner, call, limiter, ended, foundUp>>

(* Failures ****************************************************************)

\* A request fails: what it has not committed is rolled back, the rest stays.
Fail(r) ==
    /\ pc[r] \in Working
    /\ held' = [held EXCEPT ![r] = {}]
    /\ Goto(r, "error")
    /\ UNCHANGED <<owner, revoked, call, limiter, ended, foundUp>>

\* Redis stops or cannot be reached; a restart loses the scripts it has in memory.
RedisStops(restart) ==
    /\ redisUp
    /\ redisUp' = FALSE
    /\ cached' = (cached /\ ~ restart)
    /\ UNCHANGED <<keys, call, pc, sha, counted, ended, foundUp>>

RedisStarts ==
    /\ ~ redisUp
    /\ redisUp' = TRUE
    /\ UNCHANGED <<keys, call, pc, sha, cached, counted, ended, foundUp>>

\* The application is restarted: its requests are lost, init_redis runs again.
Restart ==
    /\ pc' = [r \in Request |-> IF pc[r] \in Working THEN "error" ELSE pc[r]]
    /\ held' = [r \in Request |-> {}]
    /\ sha' = redisUp
    /\ cached' = (redisUp \/ cached)
    /\ UNCHANGED <<owner, revoked, call, redisUp, counted, ended, foundUp>>

-----------------------------------------------------------------------------
\* What a client may send: it knows a key from the answer that gave it away.
Presented == {c \in Credential : c.kind = "key" => pc[c.of] = "created"}

Serve(r) ==
    \/ Touch(r)
    \/ \E allowed \in BOOLEAN : Count(r, allowed)
    \/ CountFails(r)
    \/ Reread(r)
    \/ FindKey(r)
    \/ RevokeRow(r)
    \/ \E acknowledged \in BOOLEAN : Mint(r, acknowledged) \/ Commit(r, acknowledged)

Next ==
    \/ \E r \in Request, c \in Presented :
          \/ \E op \in {"visit", "mint"} : Arrive(r, op, c, None)
          \/ \E k \in Request : Arrive(r, "revoke", c, k)
    \/ \E r \in Request : Serve(r) \/ Fail(r)
    \/ \E restart \in BOOLEAN : RedisStops(restart)
    \/ RedisStarts
    \/ Restart

Spec == Init /\ [][Next]_vars

-----------------------------------------------------------------------------
(* Properties **************************************************************)

\* A revocation is immediate: a key whose revocation was answered before a request
\* with that key arrived serves it nothing, and does not even count it.
RevocationIsImmediate ==
    \A r \in Request :
        call[r].cred.kind = "key" /\ call[r].cred.of \in ended[r]
            => pc[r] = "unauthorized" /\ r \notin counted

\* Keys are managed by their owner's sessions, and the answers about them are true: a
\* key given away exists, a revocation answered is committed.  The other way around
\* a failure leaves a doubt: behind every key and every revocation there is a
\* request with a bearer token of the key's user that asked for it and has succeeded,
\* or has failed at or after its commit, then with a key that nobody has been told.
KeysAreManagedBySessions ==
    \A k \in Request :
        /\ pc[k] = "created" => owner[k] # None
        /\ owner[k] # None =>
              /\ pc[k] \in {"reread", "created", "error"} /\ call[k].op = "mint"
              /\ call[k].cred = [kind |-> "bearer", of |-> owner[k]]
        /\ pc[k] = "revokedOk" => call[k].target \in revoked
        /\ k \in revoked => \E r \in Request :
              /\ pc[r] \in {"revokedOk", "error"} /\ call[r].op = "revoke"
              /\ call[r].target = k /\ call[r].cred = [kind |-> "bearer", of |-> owner[k]]

\* In production with a REDIS_URL, Redis has counted every request that gets past the
\* limiter, through restarts of Redis and of the application.  Without REDIS_URL,
\* which production does not insist on (rate_limit.py:82-84), nothing is counted:
\* such a process is not an instance of this module.
ServedIsCounted ==
    Production =>
        \A r \in Request :
            pc[r] \in {"served", "mint", "reread", "created", "findKey", "revoke",
                      "commit", "revokedOk", "notFound"} => r \in counted

\* "Rate limiter unavailable. Try again shortly." (check_rate_limit): a request
\* is not told so while Redis is up.  The code does not do this after a restart
\* of Redis: EVALSHA of a script that Redis has lost fails again and again, and
\* nothing loads it but a restart of the application.
UnavailableOnlyWhileDown ==
    \A r \in Request : pc[r] = "unavailable" => r \notin foundUp
=============================================================================
