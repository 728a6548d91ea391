---------------------------- MODULE RateLimiter ----------------------------
(***************************************************************************)
(* The sliding-window limiter of app/core/rate_limit.py for one bucket     *)
(* (one tier and identifier): the requests of one client, the Lua script   *)
(* that Redis runs for each of them, and the Redis keys it works on.       *)
(*                                                                         *)
(* The application reads its clock before it calls Redis, so a request may *)
(* be counted up to MaxLag seconds after the second it is stamped with,    *)
(* and after requests with later stamps.  Redis runs the script            *)
(* atomically; a key disappears when its time to live is over.  The count  *)
(* of the script is kept as an integer, multiplied by Window.              *)
(***************************************************************************)
EXTENDS Integers, FiniteSets

CONSTANTS
    Request,    \* requests of the client that can be in flight at once
    Limit,      \* requests allowed per window (rate_limit_<tier>)
    Window,     \* rate_limit_window_seconds
    MaxLag,     \* bound: seconds between the clock reading and the script
    MaxTime,    \* bound: the clock stops here
    MaxHits,    \* bound: requests counted in one window
    Production, \* settings.is_production
    None        \* no request in flight

ASSUME LimitAssumption == Limit \in Nat \ {0}
ASSUME WindowAssumption == Window \in Nat \ {0}
ASSUME LagAssumption == MaxLag \in 0 .. Window
ASSUME BoundAssumption == MaxTime \in Nat /\ MaxTime >= Window /\ MaxHits \in Nat
ASSUME ModeAssumption == Production \in BOOLEAN /\ None \notin Int

VARIABLES
    clock,      \* seconds; the clock starts at the beginning of window 1
    hits,       \* hits[w]: the value of the key of window w, 0 when there is none
    expires,    \* expires[w]: when Redis drops that key, 0 when there is none
    stamp,      \* stamp[r]: the now of request r while it is in flight
    admitted,   \* history: admitted[w], requests stamped in window w let through,
                \* kept until the window after w is over
    prompt,     \* history: prompt[n], requests let through in the last n seconds, this
                \* one included, in the window of their stamp, n <= Window
    late,       \* history: late[n], requests let through in the last n seconds, in a
                \* window after the one of their stamp, n <= Window
    promise,    \* history: how many requests sent from now on the last
                \* X-RateLimit-Remaining still promises; an answer that overtakes or
                \* is overtaken, or that comes in the next window, promises nothing
    notBefore,  \* history: when the last Retry-After is over
    streak      \* history: refusals in a row of a client that waits as it is told

redis == <<hits, expires>>
vars == <<clock, hits, expires, stamp, admitted, prompt, late, promise,
          notBefore, streak>>
history == <<admitted, prompt, late>>

Windows == 0 .. MaxTime \div Window
WindowOf(t) == t \div Window
Elapsed(t) == t % Window
InFlight == {r \in Request : stamp[r] # None}

TypeOK ==
    /\ clock \in 0 .. MaxTime
    /\ hits \in [Windows -> Nat]
    /\ expires \in [Windows -> Nat]
    /\ stamp \in [Request -> (0 .. MaxTime) \cup {None}]
    /\ admitted \in [Windows -> Nat]
    /\ prompt \in [1 .. Window -> Nat]
    /\ late \in [1 .. Window -> Nat]
    /\ promise \in 0 .. Limit
    /\ notBefore \in Nat
    /\ streak \in Nat

Init ==
    /\ clock = Window
    /\ hits = [w \in Windows |-> 0]
    /\ expires = [w \in Windows |-> 0]
    /\ stamp = [r \in Request |-> None]
    /\ admitted = [w \in Windows |-> 0]
    /\ prompt = [n \in 1 .. Window |-> 0]
    /\ late = [n \in 1 .. Window |-> 0]
    /\ promise = 0
    /\ notBefore = 0
    /\ streak = 0

-----------------------------------------------------------------------------
(* The script **************************************************************)

\* GET of the key of a window, 0 when there is none.
Hits(w) == IF w \in Windows THEN hits[w] ELSE 0

\* Bug: the key lives for one window only.
TimeToLive_Bug == Window

TimeToLive == 2 * Window

\* INCR, and EXPIRE when the key is new.
Count(w) ==
    /\ hits' = [hits EXCEPT ![w] = Hits(w) + 1]
    /\ expires' = IF Hits(w) = 0 THEN [expires EXCEPT ![w] = clock + TimeToLive] ELSE expires

\* Bugs: the counter is read before it is incremented; the previous window is left
\* out, a fixed window; both; its weight is the elapsed part; the difference is swapped.
Weighted_Stale(t) ==
    Hits(WindowOf(t)) * Window + Hits(WindowOf(t) - 1) * (Window - Elapsed(t))
Weighted_Fixed(t) == (Hits(WindowOf(t)) + 1) * Window
Weighted_Naive(t) == Hits(WindowOf(t)) * Window
Weighted_Elapsed(t) ==
    (Hits(WindowOf(t)) + 1) * Window + Hits(WindowOf(t) - 1) * Elapsed(t)
Weighted_Swapped(t) ==
    (Hits(WindowOf(t)) + 1) * Window + Hits(WindowOf(t) - 1) * (Elapsed(t) - Window)

\* Window times the script's count, for a request stamped t.
Weighted(t) ==
    (Hits(WindowOf(t)) + 1) * Window + Hits(WindowOf(t) - 1) * (Window - Elapsed(t))

Allowed(t) == Weighted(t) <= Limit * Window

\* Bug: rounded up.
Remaining_Bug(t) ==
    IF Allowed(t) THEN (Limit * Window - Weighted(t) + Window - 1) \div Window ELSE 0

Remaining(t) == IF Allowed(t) THEN (Limit * Window - Weighted(t)) \div Window ELSE 0

\* Bug: the client may retry at once.
Reset_Bug(t) == 1

Reset(t) == IF Window - Elapsed(t) > 1 THEN Window - Elapsed(t) ELSE 1

-----------------------------------------------------------------------------
(* check_rate_limit ********************************************************)

\* The client sends alone and not before the last Retry-After is over.
Obedient == clock >= notBefore /\ InFlight = {}

\* A request arrives: the application reads its clock.
Send(r) ==
    /\ stamp[r] = None
    /\ Hits(WindowOf(clock)) + Cardinality(InFlight) < MaxHits
    /\ stamp' = [stamp EXCEPT ![r] = clock]
    /\ streak' = IF Obedient THEN streak ELSE 0
    /\ UNCHANGED <<clock, redis, history, promise, notBefore>>

\* check_rate_limit returns or raises.
Answer(r) == stamp' = [stamp EXCEPT ![r] = None]

\* The window of the stamp is not over.
InWindow(t) == WindowOf(t) = WindowOf(clock)

\* The request is let through: its answer carries X-RateLimit-Remaining.
Admit(r, remaining) ==
    LET t == stamp[r] IN
    /\ admitted' = [admitted EXCEPT ![WindowOf(t)] = @ + 1]
    /\ IF InWindow(t)
       THEN prompt' = [n \in 1 .. Window |-> prompt[n] + 1] /\ UNCHANGED late
       ELSE late' = [n \in 1 .. Window |-> late[n] + 1] /\ UNCHANGED prompt
    /\ promise' = IF InFlight = {r} /\ InWindow(t) THEN remaining
                  ELSE IF promise > 0 THEN promise - 1 ELSE 0
    /\ streak' = 0
    /\ UNCHANGED notBefore

\* The request is refused with 429 and Retry-After.
Refuse(r, retryAfter) ==
    /\ promise' = 0
    /\ notBefore' = clock + retryAfter
    /\ streak' = IF InFlight = {r} THEN streak + 1 ELSE 0
    /\ UNCHANGED history

\* Redis runs the script for r and the answer comes back.
Check(r) ==
    LET t == stamp[r] IN
    /\ t # None
    /\ Count(WindowOf(t))
    /\ Answer(r)
    /\ IF Allowed(t) THEN Admit(r, Remaining(t)) ELSE Refuse(r, Reset(t))
    /\ UNCHANGED clock

\* The call fails, after the script has run or before.  In production the request
\* is refused with 503, elsewhere it is let through as if the window were empty.
RedisFails(r, executed) ==
    LET t == stamp[r] IN
    /\ t # None
    /\ IF executed THEN Count(WindowOf(t)) ELSE UNCHANGED redis
    /\ Answer(r)
    /\ IF Production
       THEN /\ promise' = IF promise > 0 THEN promise - 1 ELSE 0
            /\ streak' = 0
            /\ UNCHANGED <<history, notBefore>>
       ELSE Admit(r, Limit)
    /\ UNCHANGED clock

\* A second passes.  Redis drops the keys whose time to live is over.
Tick ==
    /\ clock < MaxTime
    /\ \A r \in InFlight : clock < stamp[r] + MaxLag
    /\ clock' = clock + 1
    /\ hits' = [w \in Windows |-> IF expires[w] > clock + 1 THEN hits[w] ELSE 0]
    /\ expires' = [w \in Windows |-> IF expires[w] > clock + 1 THEN expires[w] ELSE 0]
    /\ admitted' = [w \in Windows |-> IF clock + 1 < (w + 2) * Window THEN admitted[w] ELSE 0]
    /\ prompt' = [n \in 1 .. Window |-> IF n = 1 THEN 0 ELSE prompt[n - 1]]
    /\ late' = [n \in 1 .. Window |-> IF n = 1 THEN 0 ELSE late[n - 1]]
    /\ UNCHANGED <<stamp, promise, notBefore, streak>>

\* The end of the model's clock.
TimeUp ==
    /\ clock = MaxTime
    /\ UNCHANGED vars

Next ==
    \/ \E r \in Request : Send(r) \/ Check(r)
    \/ \E r \in Request, executed \in BOOLEAN : RedisFails(r, executed)
    \/ Tick
    \/ TimeUp

Spec == Init /\ [][Next]_vars

-----------------------------------------------------------------------------
(* Properties (for Production = TRUE) **************************************)

\* The key of a window outlives every request that can be weighed against it: until
\* the window after it is over, Redis still counts every request it has let
\* through, whenever the key was created.
CountersCoverAdmissions ==
    \A w \in Windows : clock < (w + 2) * Window => Hits(w) >= admitted[w]

\* No window lets more than Limit requests through, late ones included.
WindowCap == \A w \in Windows : admitted[w] <= Limit

\* The weight of the window before, taken at the moment Redis runs the script: a
\* request is only let through if Limit covers its window's admissions and the
\* part of the previous window's admissions that is still to be counted, even when
\* the request is late and the previous key has just gone.
SlidingBound ==
    [][\A w \in Windows \ {0} :
          admitted'[w] > admitted[w] =>
              admitted'[w] * Window + admitted[w - 1] * ((w + 1) * Window - clock)
                  <= Limit * Window]_vars

\* The burst at a window boundary that the sliding window is there to avoid: of the
\* requests that reach Redis in the window of their stamp, the limiter lets at most
\* Limit + Limit * (n - 2) / Window through in any n seconds, n <= Window, not
\* 2 * Limit.  Requests that cross the boundary on their way to Redis come on top:
\* they are not weighed against the window that has begun, nor it against them.
BurstBound ==
    \A n \in 1 .. Window :
        prompt[n] * Window <= Limit * Window + Limit * (IF n > 2 THEN n - 2 ELSE 0)

\* With those, in whatever order they reach Redis, there are never more than
\* 2 * Limit in any n seconds, as long as n and the lag fit into a window: two
\* windows share them, and each lets Limit through.
LateBurstBound ==
    \A n \in 1 .. Window :
        n + MaxLag <= Window => prompt[n] + late[n] <= 2 * Limit

\* X-RateLimit-Remaining is a promise: as many requests as it said, sent after that
\* answer, are let through, at any later time and in any order, unless Redis fails.
RemainingIsHonoured == promise > 0 => \A r \in InFlight : Allowed(stamp[r])

\* A client that is refused, waits as it is told and sends one request is let
\* through after at most two more refusals, whatever it did before (Limit > 1).
ObedientClientIsAdmitted == Limit > 1 => streak <= 3

\* "Rate limit exceeded. Try again in {retry_after} seconds." (app/core/errors.py):
\* after that time the next request is let through.  The code does not do this:
\* the refused requests still weigh on the next window.
RetryAfterIsEnough == streak <= 1
=============================================================================
