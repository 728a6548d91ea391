--------------------------- MODULE RequestsProofs ---------------------------
(***************************************************************************)
(* Theorems about Requests, for any requests and any size of the pool.     *)
(*                                                                         *)
(* What an answer says is decided when it is made, by the order in which   *)
(* the route has put its steps: the limiter before anything that changes   *)
(* data, everything that may refuse before the first commit.  Careful says *)
(* this of the steps a request has yet to make; every program is careful   *)
(* to begin with, and remains so when its first step is done; Noting says  *)
(* the same of the last use of a key, which comes before the limiter.      *)
(***************************************************************************)
EXTENDS Requests, FiniteSetTheorems, TLAPS

Steps == {"decode", "identify", "touch", "read", "limit", "refuse", "validate", "find",
          "commit", "commitIfChanged", "findToken", "secret", "fetch"}
Writers == {"commit", "commitIfChanged"}

\* The steps that only the limiter may let a request reach.
Guarded == Writers \cup {"findToken"}
Checks == Steps \ Guarded

\* The routes that create something.
Creating == {"register", "login", "refresh", "createKey"}

\* The steps that cannot refuse, and the refusal of a spent refresh token.
Quiet(rt) == {"read", "touch", "fetch"} \cup Writers \cup
             (IF rt = "refresh" THEN {"refuse"} ELSE {})

Has(q, S) == \E i \in 1 .. Len(q) : q[i] \in S

\* What is left of route rt, for a request that the limiter has let through (adm) and
\* that has changed data (wr): what it changes is sanctioned, what may refuse
\* comes before what commits, and success is not reached without the commit.
Careful(rt, adm, wr, q) ==
    /\ q \in Seq(Steps)
    /\ rt = "ingest" \/ adm \/
           \A i \in 1 .. Len(q) : q[i] \in Guarded => \E j \in 1 .. (i - 1) : q[j] = "limit"
    /\ wr => rt = "ingest" \/ adm
    /\ \A j \in 1 .. Len(q) :
           q[j] \notin Quiet(rt) => ~ wr /\ \A i \in 1 .. (j - 1) : q[i] \notin Writers
    /\ \A i \in 1 .. Len(q) : q[i] = "findToken" => rt = "refresh"
    /\ rt \in Creating => wr \/ Has(q, {"commit", "refuse"})

\* What is left for a request with credentials cr, of which the last use has been noted
\* (us) or not: only a key is noted, and before the limiter is asked.
Noting(cr, adm, us, q) ==
    /\ us => cr = "key"
    /\ cr = "key" /\ adm => us
    /\ \A i \in 1 .. Len(q) : q[i] = "touch" => cr = "key"
    /\ cr = "key" /\ ~ us =>
           \A i \in 1 .. Len(q) : q[i] = "limit" => \E j \in 1 .. (i - 1) : q[j] = "touch"

ServingOK ==
    \A r \in Request :
        /\ phase[r] = "idle" => ~ admitted[r] /\ wrote[r] = {}
        /\ phase[r] = "serving" =>
               /\ route[r] \in Routes
               /\ Careful(route[r], admitted[r], "data" \in wrote[r], left[r])
               /\ Noting(cred[r], admitted[r], "usage" \in wrote[r], left[r])
        /\ phase[r] \in {"serving", "answered"} => up

IInv ==
    /\ TypeOK
    /\ IsFiniteSet(Borrowed)
    /\ left \in [Request -> Seq(Steps)]
    /\ ServingOK
    /\ AnswersTellWhatHappened

-----------------------------------------------------------------------------
(* Programs                                                                *)

\* A concatenation has the elements of its parts.
LEMMA Concatenation ==
    ASSUME NEW S, NEW a \in Seq(S), NEW b \in Seq(S)
    PROVE  /\ a \o b \in Seq(S)
           /\ Len(a) \in Nat /\ Len(b) \in Nat /\ Len(a \o b) = Len(a) + Len(b)
           /\ \A i \in 1 .. Len(a) : (a \o b)[i] = a[i]
           /\ \A i \in 1 .. Len(b) : (a \o b)[Len(a) + i] = b[i]
OBVIOUS

\* Every place of a concatenation is a place of one of the two.
LEMMA Places ==
    ASSUME NEW S, NEW a \in Seq(S), NEW b \in Seq(S), NEW i \in 1 .. Len(a \o b)
    PROVE  \/ i \in 1 .. Len(a) /\ (a \o b)[i] = a[i]
           \/ /\ i - Len(a) \in 1 .. Len(b)
              /\ (a \o b)[i] = b[i - Len(a)]
OBVIOUS

\* A step of either part is a step of the whole.
LEMMA HasEither ==
    ASSUME NEW S, NEW a \in Seq(S), NEW b \in Seq(S), NEW X, Has(a, X) \/ Has(b, X)
    PROVE  Has(a \o b, X)
<1>1. ASSUME NEW i \in 1 .. Len(a), a[i] \in X PROVE Has(a \o b, X)
  <2>1. i \in 1 .. Len(a \o b) /\ (a \o b)[i] = a[i]
    BY Concatenation
  <2> QED
    BY <2>1, <1>1 DEF Has
<1>2. ASSUME NEW i \in 1 .. Len(b), b[i] \in X PROVE Has(a \o b, X)
  <2>1. Len(a) + i \in 1 .. Len(a \o b) /\ (a \o b)[Len(a) + i] = b[i]
    BY Concatenation
  <2> QED
    BY <2>1, <1>2 DEF Has
<1> QED
  BY <1>1, <1>2 DEF Has

\* The work of a route behind its checks: what commits comes after what may refuse.
WorkOf(rt, w) ==
    /\ w \in Seq(Steps)
    /\ \A j \in 1 .. Len(w) :
           w[j] \notin Quiet(rt) => \A i \in 1 .. (j - 1) : w[i] \notin Writers
    /\ \A i \in 1 .. Len(w) : w[i] = "findToken" => rt = "refresh"

\* Checks with the limiter among them, and work behind them, are a careful program.
LEMMA ChecksThenWork ==
    ASSUME NEW rt, NEW a \in Seq(Checks), NEW w, WorkOf(rt, w), Has(a, {"limit"}),
           rt \in Creating => Has(w, {"commit"}) \/ Has(a, {"refuse"})
    PROVE  Careful(rt, FALSE, FALSE, a \o w)
<1> DEFINE q == a \o w
<1>1. a \in Seq(Steps) /\ w \in Seq(Steps)
  BY DEF Checks, WorkOf
<1>2. q \in Seq(Steps) /\ Len(a) \in Nat
  BY <1>1, Concatenation
<1>3. \A i \in 1 .. Len(a) : a[i] \notin Guarded /\ a[i] \notin Writers
  BY DEF Checks, Guarded
<1>4. ASSUME NEW i \in 1 .. Len(q)
      PROVE  \/ i \in 1 .. Len(a) /\ q[i] = a[i]
             \/ i - Len(a) \in 1 .. Len(w) /\ q[i] = w[i - Len(a)]
  BY <1>1, Places
<1>5. \A i \in 1 .. Len(a) : i \in 1 .. Len(q) /\ q[i] = a[i]
  BY <1>1, Concatenation
<1>6. Len(q) \in Nat /\ Len(w) \in Nat
  BY <1>1, Concatenation
<1> HIDE DEF q
<1>7. ASSUME NEW i \in 1 .. Len(q), q[i] \in Guarded
      PROVE  \E j \in 1 .. (i - 1) : q[j] = "limit"
  <2>1. i - Len(a) \in 1 .. Len(w)
    BY <1>3, <1>4, <1>7
  <2>2. PICK j \in 1 .. Len(a) : a[j] = "limit"
    BY DEF Has
  <2>3. j \in 1 .. (i - 1)
    BY <1>2, <1>6, <2>1
  <2> QED
    BY <1>5, <2>2, <2>3
<1>8. ASSUME NEW j \in 1 .. Len(q), q[j] \notin Quiet(rt), NEW i \in 1 .. (j - 1)
      PROVE  q[i] \notin Writers
  <2>1. i \in 1 .. Len(q)
    BY <1>6
  <2>2. CASE i \in 1 .. Len(a)
    BY <1>3, <1>5, <2>2
  <2>3. CASE i \notin 1 .. Len(a)
    <3>1. i - Len(a) \in 1 .. Len(w) /\ q[i] = w[i - Len(a)]
      BY <1>4, <2>1, <2>3
    <3>2. j \notin 1 .. Len(a)
      BY <1>2, <1>6, <2>3
    <3>3. j - Len(a) \in 1 .. Len(w) /\ q[j] = w[j - Len(a)]
      BY <1>4, <3>2
    <3>4. i - Len(a) \in 1 .. (j - Len(a) - 1)
      BY <1>2, <1>6, <3>1, <3>3
    <3> QED
      BY <1>8, <3>1, <3>3, <3>4 DEF WorkOf
  <2> QED
    BY <2>2, <2>3
<1>9. ASSUME NEW i \in 1 .. Len(q), q[i] = "findToken" PROVE rt = "refresh"
  BY <1>3, <1>4, <1>9 DEF WorkOf, Guarded
<1>10. rt \in Creating => Has(q, {"commit", "refuse"})
  <2>1. Has(w, {"commit"}) => Has(w, {"commit", "refuse"})
    BY DEF Has
  <2>2. Has(a, {"refuse"}) => Has(a, {"commit", "refuse"})
    BY DEF Has
  <2> QED
    BY <1>1, <2>1, <2>2, HasEither DEF q
<1> QED
  BY <1>2, <1>7, <1>8, <1>9, <1>10 DEF Careful, q

\* Programs may be put together in any order of the parentheses.
LEMMA ConcatAssociates ==
    ASSUME NEW S, NEW a \in Seq(S), NEW b \in Seq(S), NEW c \in Seq(S)
    PROVE  a \o (b \o c) = (a \o b) \o c
OBVIOUS

\* Nothing comes behind a program that is the last.
LEMMA ConcatNothing ==
    ASSUME NEW S, NEW a \in Seq(S)
    PROVE  a \o <<>> = a
OBVIOUS

\* A principal is resolved by checks.
LEMMA PrincipalsAreChecks ==
    ASSUME NEW cr \in Credentials
    PROVE  Principal(cr) \in Seq(Checks) /\ JwtUser(cr) \in Seq(Checks)
<1>1. /\ <<>> \in Seq(Checks) /\ <<"refuse">> \in Seq(Checks)
      /\ <<"decode", "identify">> \in Seq(Checks)
      /\ <<"identify", "touch", "read">> \in Seq(Checks)
  BY DEF Checks, Steps, Guarded, Writers
<1>2. Principal(cr) \in {<<>>, <<"decode", "identify">>, <<"identify", "touch", "read">>}
  <2>1. Principal("anonymous") = <<>>
    BY DEF Principal
  <2>2. Principal("bearer") = <<"decode", "identify">>
    BY DEF Principal
  <2>3. Principal("key") = <<"identify", "touch", "read">>
    BY DEF Principal
  <2> QED
    BY <2>1, <2>2, <2>3 DEF Credentials
<1> QED
  BY <1>1, <1>2 DEF JwtUser

\* The checks of the handlers that call the limiter themselves.
LEMMA AuthenticateChecks ==
    ASSUME NEW rt, NEW cr \in Credentials, NEW w, WorkOf(rt, w),
           rt \in Creating => Has(w, {"commit"})
    PROVE  Careful(rt, FALSE, FALSE, Authenticate(cr, w))
<1> DEFINE a == <<"validate">> \o Principal(cr)
<1>1. <<"validate">> \in Seq(Checks) /\ <<"limit">> \in Seq(Checks)
  BY DEF Checks, Steps, Guarded, Writers
<1>2. a \in Seq(Checks)
  BY <1>1, PrincipalsAreChecks, Concatenation
<1> HIDE DEF a
<1>3. a \o <<"limit">> \in Seq(Checks)
  BY <1>1, <1>2, Concatenation
<1>4. Has(<<"limit">>, {"limit"})
  BY DEF Has
<1>5. Has(a \o <<"limit">>, {"limit"})
  BY <1>1, <1>2, <1>4, HasEither
<1> QED
  BY <1>3, <1>5, ChecksThenWork DEF Authenticate, a

\* The checks of the routes for keys and for logging out, whatever came before.
LEMMA ManageKeysChecks ==
    ASSUME NEW cr \in Credentials
    PROVE  LET a == Principal(cr) \o <<"limit">> \o JwtUser(cr) \o <<"validate">>
           IN  a \in Seq(Checks) /\ Has(a, {"limit"})
<1> DEFINE b == Principal(cr) \o <<"limit">>
           c == b \o JwtUser(cr)
<1>1. <<"validate">> \in Seq(Checks) /\ <<"limit">> \in Seq(Checks)
  BY DEF Checks, Steps, Guarded, Writers
<1>2. Principal(cr) \in Seq(Checks) /\ JwtUser(cr) \in Seq(Checks)
  BY PrincipalsAreChecks
<1>3. Has(<<"limit">>, {"limit"})
  BY DEF Has
<1>4. b \in Seq(Checks) /\ Has(b, {"limit"})
  BY <1>1, <1>2, <1>3, Concatenation, HasEither
<1> HIDE DEF b
<1>5. c \in Seq(Checks) /\ Has(c, {"limit"})
  BY <1>2, <1>4, Concatenation, HasEither
<1> HIDE DEF c
<1>6. c \o <<"validate">> \in Seq(Checks) /\ Has(c \o <<"validate">>, {"limit"})
  BY <1>1, <1>5, Concatenation, HasEither
<1> QED
  BY <1>6 DEF b, c

\* Each route asks the limiter before it changes anything, and refuses before it commits.
LEMMA ProgramsAreCareful ==
    ASSUME NEW rt \in Routes, NEW cr \in Credentials
    PROVE  Careful(rt, FALSE, FALSE, Program(rt, cr))
<1> DEFINE a == Principal(cr) \o <<"limit">> \o JwtUser(cr) \o <<"validate">>
<1>1. a \in Seq(Checks) /\ Has(a, {"limit"})
  BY ManageKeysChecks
<1>2. ASSUME NEW w PROVE ManageKeys(cr, w) = a \o w
  BY DEF ManageKeys
<1> HIDE DEF a
<1>3. <<"validate">> \in Seq(Checks)
  BY DEF Checks, Steps, Guarded, Writers
<1>4. <<"validate">> \o a \in Seq(Checks) /\ Has(<<"validate">> \o a, {"limit"})
  BY <1>1, <1>3, Concatenation, HasEither
<1>5. \A w \in Seq(Steps) : <<"validate">> \o (a \o w) = (<<"validate">> \o a) \o w
  BY <1>1, <1>3, ConcatAssociates DEF Checks
<1> USE DEF Quiet, Writers, Steps, Creating
<1>6. CASE rt = "list"
  <2> DEFINE b == Principal(cr) \o <<"limit", "validate", "find">>
  <2>1. <<"limit", "validate", "find">> \in Seq(Checks)
    BY DEF Checks, Guarded
  <2>2. Has(<<"limit", "validate", "find">>, {"limit"})
    BY DEF Has
  <2>3. b \in Seq(Checks) /\ Has(b, {"limit"})
    BY <2>1, <2>2, PrincipalsAreChecks, Concatenation, HasEither
  <2> HIDE DEF b
  <2>4. WorkOf(rt, <<>>) /\ b \o <<>> = b
    BY <2>3, ConcatNothing DEF WorkOf
  <2>5. Careful(rt, FALSE, FALSE, b)
    BY <1>6, <2>3, <2>4, ChecksThenWork
  <2> QED
    BY <1>6, <2>5 DEF Program, b
<1>7. CASE rt = "listKeys"
  <2>1. WorkOf(rt, <<"read">>)
    BY DEF WorkOf
  <2> QED
    BY <1>1, <1>2, <1>7, <2>1, ChecksThenWork DEF Program
<1>8. CASE rt = "createKey"
  <2>1. WorkOf(rt, <<"commit", "read">>) /\ <<"commit", "read">> \in Seq(Steps)
    BY DEF WorkOf
  <2>2. Has(<<"commit", "read">>, {"commit"})
    BY DEF Has
  <2>3. Program(rt, cr) = (<<"validate">> \o a) \o <<"commit", "read">>
    BY <1>2, <1>5, <1>8, <2>1 DEF Program
  <2> QED
    BY <1>4, <2>1, <2>2, <2>3, ChecksThenWork
<1>9. CASE rt = "revoke"
  <2>1. WorkOf(rt, <<"find", "commitIfChanged">>)
    BY DEF WorkOf
  <2> QED
    BY <1>1, <1>2, <1>9, <2>1, ChecksThenWork DEF Program
<1>10. CASE rt = "logout"
  <2>1. WorkOf(rt, <<"read", "commitIfChanged">>)
        /\ <<"read", "commitIfChanged">> \in Seq(Steps)
    BY DEF WorkOf
  <2>2. Program(rt, cr) = (<<"validate">> \o a) \o <<"read", "commitIfChanged">>
    BY <1>2, <1>5, <1>10, <2>1 DEF Program
  <2> QED
    BY <1>4, <1>10, <2>1, <2>2, ChecksThenWork
<1>11. CASE rt = "register"
  <2>1. WorkOf(rt, <<"find", "commit", "read">>)
        /\ Has(<<"find", "commit", "read">>, {"commit"})
    BY DEF WorkOf, Has
  <2> QED
    BY <1>11, <2>1, AuthenticateChecks DEF Program
<1>12. CASE rt = "login"
  <2>1. WorkOf(rt, <<"find", "commit">>) /\ Has(<<"find", "commit">>, {"commit"})
    BY DEF WorkOf, Has
  <2> QED
    BY <1>12, <2>1, AuthenticateChecks DEF Program
<1>13. CASE rt = "refresh"
  <2>1. WorkOf(rt, <<"findToken", "commit">>) /\ Has(<<"findToken", "commit">>, {"commit"})
    BY <1>13 DEF WorkOf, Has
  <2> QED
    BY <1>13, <2>1, AuthenticateChecks DEF Program
<1>14. CASE rt = "ingest"
  <2> DEFINE q == <<"secret", "read", "commitIfChanged", "read", "fetch", "commitIfChanged",
                    "commitIfChanged">>
  <2>1. q \in Seq(Steps) /\ Len(q) = 7
    OBVIOUS
  <2>2. \A j \in 1 .. 7 : q[j] \notin Quiet(rt) => j = 1
    OBVIOUS
  <2>3. \A j \in 1 .. 7 : q[j] # "findToken"
    OBVIOUS
  <2> HIDE DEF q
  <2>4. Careful(rt, FALSE, FALSE, q)
    BY <1>14, <2>1, <2>2, <2>3 DEF Careful
  <2> QED
    BY <1>14, <2>4 DEF Program, q
<1>15. CASE rt = "unrouted"
  <2>1. Careful(rt, FALSE, FALSE, <<"refuse">>)
    BY <1>15 DEF Careful, Guarded
  <2> QED
    BY <1>15, <2>1 DEF Program
<1>16. CASE rt \in {"probe", "preflight"}
  <2>1. Careful(rt, FALSE, FALSE, <<>>)
    BY <1>16 DEF Careful
  <2> QED
    BY <1>16, <2>1 DEF Program
<1> QED
  BY <1>6, <1>7, <1>8, <1>9, <1>10, <1>11, <1>12, <1>13, <1>14, <1>15, <1>16 DEF Routes

\* The steps of a caller whose key has been noted, if there is one.
Noted(cr, a) ==
    /\ a \in Seq(Steps)
    /\ Noting(cr, FALSE, FALSE, a)
    /\ cr = "key" => Has(a, {"touch"})

\* Once the key is noted, anything may come that does not note it again.
LEMMA NotedFirst ==
    ASSUME NEW cr, NEW a, Noted(cr, a), NEW w \in Seq(Steps \ {"touch"})
    PROVE  Noted(cr, a \o w)
<1> DEFINE q == a \o w
<1>1. a \in Seq(Steps) /\ w \in Seq(Steps)
  BY DEF Noted
<1>2. q \in Seq(Steps) /\ Len(a) \in Nat /\ Len(w) \in Nat /\ Len(q) = Len(a) + Len(w)
  BY <1>1, Concatenation
<1>3. ASSUME NEW i \in 1 .. Len(q)
      PROVE  \/ i \in 1 .. Len(a) /\ q[i] = a[i]
             \/ i - Len(a) \in 1 .. Len(w) /\ q[i] = w[i - Len(a)]
  BY <1>1, Places
<1>4. \A i \in 1 .. Len(a) : q[i] = a[i]
  BY <1>1, Concatenation
<1>5. \A i \in 1 .. Len(w) : w[i] # "touch"
  OBVIOUS
<1>6. cr = "key" => Has(q, {"touch"})
  BY <1>1, HasEither DEF Noted
<1> HIDE DEF q
<1>7. ASSUME NEW i \in 1 .. Len(q), q[i] = "touch" PROVE cr = "key"
  BY <1>3, <1>5, <1>7 DEF Noted, Noting
<1>8. ASSUME cr = "key", NEW i \in 1 .. Len(q), q[i] = "limit"
      PROVE  \E j \in 1 .. (i - 1) : q[j] = "touch"
  <2>1. CASE i \in 1 .. Len(a)
    <3>1. PICK j \in 1 .. (i - 1) : a[j] = "touch"
      BY <1>4, <1>8, <2>1 DEF Noted, Noting
    <3>2. j \in 1 .. Len(a)
      BY <1>2, <2>1, <3>1
    <3> QED
      BY <1>4, <3>1, <3>2
  <2>2. CASE i \notin 1 .. Len(a)
    <3>1. PICK j \in 1 .. Len(a) : a[j] = "touch"
      BY <1>8 DEF Noted, Has
    <3>2. j \in 1 .. (i - 1)
      BY <1>2, <2>2, <3>1
    <3> QED
      BY <1>4, <3>1, <3>2
  <2> QED
    BY <2>1, <2>2
<1> QED
  BY <1>2, <1>6, <1>7, <1>8 DEF Noted, Noting, q

\* What comes before the key is noted does not ask the limiter.
LEMMA NotedBehind ==
    ASSUME NEW cr, NEW a, Noted(cr, a)
    PROVE  Noted(cr, <<"validate">> \o a)
<1> DEFINE v == <<"validate">>
           q == v \o a
<1>1. v \in Seq(Steps) /\ a \in Seq(Steps) /\ Len(v) = 1 /\ v[1] = "validate"
  BY DEF Noted, Steps
<1>2. q \in Seq(Steps) /\ Len(a) \in Nat /\ Len(q) = 1 + Len(a)
      /\ \A i \in 1 .. Len(a) : q[1 + i] = a[i]
  BY <1>1, Concatenation
<1>3. ASSUME NEW i \in 1 .. Len(q)
      PROVE  \/ i = 1 /\ q[i] = "validate"
             \/ i - 1 \in 1 .. Len(a) /\ q[i] = a[i - 1]
  BY <1>1, Places
<1>4. cr = "key" => Has(q, {"touch"})
  BY <1>1, HasEither DEF Noted
<1> HIDE DEF q, v
<1>5. ASSUME NEW i \in 1 .. Len(q), q[i] = "touch" PROVE cr = "key"
  BY <1>3, <1>5 DEF Noted, Noting
<1>6. ASSUME cr = "key", NEW i \in 1 .. Len(q), q[i] = "limit"
      PROVE  \E j \in 1 .. (i - 1) : q[j] = "touch"
  <2>1. i - 1 \in 1 .. Len(a) /\ a[i - 1] = "limit"
    BY <1>3, <1>6
  <2>2. PICK j \in 1 .. ((i - 1) - 1) : a[j] = "touch"
    BY <1>6, <2>1 DEF Noted, Noting
  <2>3. j \in 1 .. Len(a) /\ 1 + j \in 1 .. (i - 1)
    BY <1>2, <2>1, <2>2
  <2> QED
    BY <1>2, <2>2, <2>3
<1> QED
  BY <1>2, <1>4, <1>5, <1>6 DEF Noted, Noting, q, v

\* resolve_principal notes the use of a key.
LEMMA PrincipalsAreNoted ==
    ASSUME NEW cr \in Credentials
    PROVE  Noted(cr, Principal(cr))
<1> USE DEF Noted, Noting, Has, Steps
<1>1. CASE cr = "anonymous"
  <2> DEFINE q == <<>>
  <2>1. Principal(cr) = q
    BY <1>1 DEF Principal
  <2>2. q \in Seq(Steps) /\ \A i \in 1 .. Len(q) : FALSE
    OBVIOUS
  <2> HIDE DEF q
  <2>3. Noting(cr, FALSE, FALSE, q)
    BY <2>2
  <2> QED
    BY <1>1, <2>1, <2>2, <2>3
<1>2. CASE cr = "bearer"
  <2> DEFINE q == <<"decode", "identify">>
  <2>1. Principal(cr) = q
    BY <1>2 DEF Principal
  <2>2. q \in Seq(Steps) /\ Len(q) = 2 /\ q[1] = "decode" /\ q[2] = "identify"
    OBVIOUS
  <2> HIDE DEF q
  <2> QED
    BY <1>2, <2>1, <2>2
<1>3. CASE cr = "key"
  <2> DEFINE q == <<"identify", "touch", "read">>
  <2>1. Principal(cr) = q
    BY <1>3 DEF Principal
  <2>2. q \in Seq(Steps) /\ Len(q) = 3 /\ q[1] = "identify" /\ q[2] = "touch" /\ q[3] = "read"
    OBVIOUS
  <2> HIDE DEF q
  <2> QED
    BY <1>3, <2>1, <2>2
<1> QED
  BY <1>1, <1>2, <1>3 DEF Credentials

\* Each route that asks the limiter has noted the key before.
LEMMA ProgramsNoteKeys ==
    ASSUME NEW rt \in Routes, NEW cr \in Credentials
    PROVE  Noting(cr, FALSE, FALSE, Program(rt, cr))
<1> DEFINE Late == Steps \ {"touch"}
<1>1. Noted(cr, Principal(cr))
  BY PrincipalsAreNoted
<1>2. /\ <<"limit">> \in Seq(Late) /\ <<"validate">> \in Seq(Late)
      /\ JwtUser(cr) \in Seq(Late)
  <2>1. /\ <<>> \in Seq(Late) /\ <<"refuse">> \in Seq(Late)
        /\ <<"limit">> \in Seq(Late) /\ <<"validate">> \in Seq(Late)
    BY DEF Steps
  <2>2. JwtUser(cr) = <<>> \/ JwtUser(cr) = <<"refuse">>
    BY DEF JwtUser
  <2> QED
    BY <2>1, <2>2
<1>3. ASSUME NEW w \in Seq(Late) PROVE Noted(cr, ManageKeys(cr, w))
  <2> HIDE DEF Late
  <2>1. Noted(cr, Principal(cr) \o <<"limit">>)
    BY <1>1, <1>2, NotedFirst DEF Late
  <2>2. Noted(cr, Principal(cr) \o <<"limit">> \o JwtUser(cr))
    BY <1>2, <2>1, NotedFirst DEF Late
  <2>3. Noted(cr, Principal(cr) \o <<"limit">> \o JwtUser(cr) \o <<"validate">>)
    BY <1>2, <2>2, NotedFirst DEF Late
  <2>4. Noted(cr, Principal(cr) \o <<"limit">> \o JwtUser(cr) \o <<"validate">> \o w)
    BY <2>3, NotedFirst DEF Late
  <2> QED
    BY <2>4 DEF ManageKeys
<1>4. ASSUME NEW w \in Seq(Late) PROVE Noted(cr, Authenticate(cr, w))
  <2> HIDE DEF Late
  <2>1. Noted(cr, <<"validate">> \o Principal(cr))
    BY <1>1, NotedBehind
  <2>2. Noted(cr, <<"validate">> \o Principal(cr) \o <<"limit">>)
    BY <1>2, <2>1, NotedFirst DEF Late
  <2>3. Noted(cr, <<"validate">> \o Principal(cr) \o <<"limit">> \o w)
    BY <2>2, NotedFirst DEF Late
  <2> QED
    BY <2>3 DEF Authenticate
<1>5. ASSUME NEW w \in Seq(Late) PROVE Noted(cr, <<"validate">> \o ManageKeys(cr, w))
  BY <1>3, <1>5, NotedBehind
<1>6. CASE rt = "list"
  <2>1. <<"limit", "validate", "find">> \in Seq(Late)
    BY DEF Steps
  <2> QED
    BY <1>1, <1>6, <2>1, NotedFirst DEF Program, Noted
<1>7. CASE rt \in {"listKeys", "revoke"}
  <2>1. <<"read">> \in Seq(Late) /\ <<"find", "commitIfChanged">> \in Seq(Late)
    BY DEF Steps
  <2>2. Program(rt, cr) \in {ManageKeys(cr, <<"read">>),
                             ManageKeys(cr, <<"find", "commitIfChanged">>)}
    BY <1>7 DEF Program
  <2> QED
    BY <1>3, <2>1, <2>2 DEF Noted
<1>8. CASE rt \in {"createKey", "logout"}
  <2>1. <<"commit", "read">> \in Seq(Late) /\ <<"read", "commitIfChanged">> \in Seq(Late)
    BY DEF Steps
  <2>2. Program(rt, cr) \in {<<"validate">> \o ManageKeys(cr, <<"commit", "read">>),
                             <<"validate">> \o ManageKeys(cr, <<"read", "commitIfChanged">>)}
    BY <1>8 DEF Program
  <2> QED
    BY <1>5, <2>1, <2>2 DEF Noted
<1>9. CASE rt \in {"register", "login", "refresh"}
  <2>1. /\ <<"find", "commit", "read">> \in Seq(Late) /\ <<"find", "commit">> \in Seq(Late)
        /\ <<"findToken", "commit">> \in Seq(Late)
    BY DEF Steps, Writers
  <2>2. Program(rt, cr) \in {Authenticate(cr, <<"find", "commit", "read">>),
                             Authenticate(cr, <<"find", "commit">>),
                             Authenticate(cr, <<"findToken", "commit">>)}
    BY <1>9 DEF Program
  <2> QED
    BY <1>4, <2>1, <2>2 DEF Noted
<1>10. CASE rt = "ingest"
  <2> DEFINE q == <<"secret", "read", "commitIfChanged", "read", "fetch", "commitIfChanged",
                    "commitIfChanged">>
  <2>1. Len(q) = 7 /\ \A i \in 1 .. 7 : q[i] \notin {"touch", "limit"}
    OBVIOUS
  <2> HIDE DEF q
  <2>2. Noting(cr, FALSE, FALSE, q)
    BY <2>1 DEF Noting
  <2> QED
    BY <1>10, <2>2 DEF Program, q
<1>11. CASE rt \in {"unrouted", "probe", "preflight"}
  <2>1. Noting(cr, FALSE, FALSE, <<>>) /\ Noting(cr, FALSE, FALSE, <<"refuse">>)
    BY DEF Noting
  <2>2. Program(rt, cr) \in {<<>>, <<"refuse">>}
    BY <1>11 DEF Program
  <2> QED
    BY <2>1, <2>2
<1> QED
  BY <1>6, <1>7, <1>8, <1>9, <1>10, <1>11 DEF Routes

\* The use of a key is noted, or what is left still does so before the limiter.
LEMMA NotingGoesOn ==
    ASSUME NEW cr, NEW adm, NEW us, NEW q \in Seq(Steps), Noting(cr, adm, us, q), q # <<>>,
           NEW adm2, NEW us2,
           adm2 => adm \/ Head(q) = "limit",
           us2 <=> us \/ Head(q) = "touch"
    PROVE  Noting(cr, adm2, us2, Tail(q))
<1> DEFINE t == Tail(q)
<1>1. Head(q) = q[1] /\ Len(q) \in Nat /\ 1 \in 1 .. Len(q)
  OBVIOUS
<1>2. /\ t \in Seq(Steps) /\ Len(t) = Len(q) - 1
      /\ \A i \in 1 .. Len(t) : i + 1 \in 1 .. Len(q) /\ t[i] = q[i + 1]
  BY <1>1
<1>3. \A i \in 2 .. Len(q) : i - 1 \in 1 .. Len(t) /\ t[i - 1] = q[i]
  BY <1>1, <1>2
<1> HIDE DEF t
<1>4. us2 => cr = "key"
  BY <1>1 DEF Noting
<1>5. cr = "key" /\ adm2 => us2
  <2>1. ~ \E j \in 1 .. (1 - 1) : q[j] = "touch"
    OBVIOUS
  <2> QED
    BY <1>1, <2>1 DEF Noting
<1>6. \A i \in 1 .. Len(t) : t[i] = "touch" => cr = "key"
  BY <1>2 DEF Noting
<1>7. ASSUME cr = "key", ~ us2, NEW i \in 1 .. Len(t), t[i] = "limit"
      PROVE  \E j \in 1 .. (i - 1) : t[j] = "touch"
  <2>1. PICK j \in 1 .. ((i + 1) - 1) : q[j] = "touch"
    BY <1>2, <1>7 DEF Noting
  <2>2. j # 1
    BY <1>1, <1>7, <2>1
  <2>3. j \in 2 .. Len(q) /\ j - 1 \in 1 .. (i - 1)
    BY <1>1, <1>2, <2>1, <2>2
  <2> QED
    BY <1>3, <2>1, <2>3
<1> QED
  BY <1>4, <1>5, <1>6, <1>7 DEF Noting, t

\* The limiter is asked, and so may limit, for a key that has been noted.
LEMMA NotedByNow ==
    ASSUME NEW cr, NEW adm, NEW us, NEW q \in Seq(Steps), Noting(cr, adm, us, q), q # <<>>
    PROVE  /\ Head(q) = "touch" => cr = "key"
           /\ Head(q) = "limit" /\ cr = "key" => us
<1>1. Head(q) = q[1] /\ 1 \in 1 .. Len(q)
  OBVIOUS
<1>2. ~ \E j \in 1 .. (1 - 1) : q[j] = "touch"
  OBVIOUS
<1> QED
  BY <1>1, <1>2 DEF Noting

\* What is left after the first step is careful, whatever the step has done: the
\* limiter admits, a commit has happened, and a refusal is the end.
LEMMA FirstStepDone ==
    ASSUME NEW rt, NEW adm, NEW wr, NEW q, Careful(rt, adm, wr, q), q # <<>>, NEW adm2,
           NEW wr2,
           Head(q) # "refuse",
           adm => adm2,
           Head(q) = "limit" => adm2,
           wr => wr2,
           wr2 => wr \/ Head(q) \in Writers,
           Head(q) = "commit" => wr2
    PROVE  Careful(rt, adm2, wr2, Tail(q))
<1> DEFINE t == Tail(q)
<1>1. q \in Seq(Steps) /\ Head(q) = q[1] /\ Len(q) \in Nat /\ 1 \in 1 .. Len(q)
  BY DEF Careful
<1>2. /\ t \in Seq(Steps) /\ Len(t) = Len(q) - 1
      /\ \A i \in 1 .. Len(t) : i + 1 \in 1 .. Len(q) /\ t[i] = q[i + 1]
  BY <1>1
<1>3. \A i \in 2 .. Len(q) : i - 1 \in 1 .. Len(t) /\ t[i - 1] = q[i]
  BY <1>1, <1>2
<1> HIDE DEF t
<1>4. ASSUME rt # "ingest", ~ adm2, NEW i \in 1 .. Len(t), t[i] \in Guarded
      PROVE  \E j \in 1 .. (i - 1) : t[j] = "limit"
  <2>1. PICK j \in 1 .. i : q[j] = "limit"
    <3>1. i + 1 \in 1 .. Len(q) /\ q[i + 1] \in Guarded
      BY <1>2, <1>4
    <3>2. \E j \in 1 .. ((i + 1) - 1) : q[j] = "limit"
      BY <1>4, <3>1 DEF Careful
    <3> QED
      BY <3>2, <1>1, <1>2
  <2>2. j # 1
    BY <1>1, <1>4, <2>1
  <2>3. j \in 2 .. Len(q) /\ j - 1 \in 1 .. (i - 1)
    BY <1>1, <1>2, <2>1, <2>2
  <2> QED
    BY <1>3, <2>1, <2>3
<1>5. wr2 => rt = "ingest" \/ adm2
  <2>1. ASSUME Head(q) \in Writers, rt # "ingest" PROVE adm
    <3>1. q[1] \in Guarded
      BY <1>1, <2>1 DEF Guarded
    <3>2. ~ \E j \in 1 .. (1 - 1) : q[j] = "limit"
      OBVIOUS
    <3> QED
      BY <1>1, <2>1, <3>1, <3>2 DEF Careful
  <2> QED
    BY <2>1 DEF Careful
<1>6. ASSUME NEW j \in 1 .. Len(t), t[j] \notin Quiet(rt)
      PROVE  ~ wr2 /\ \A i \in 1 .. (j - 1) : t[i] \notin Writers
  <2>1. j + 1 \in 1 .. Len(q) /\ q[j + 1] \notin Quiet(rt)
    BY <1>2, <1>6
  <2>2. ~ wr /\ \A i \in 1 .. ((j + 1) - 1) : q[i] \notin Writers
    BY <2>1 DEF Careful
  <2>3. \A i \in 1 .. j : q[i] \notin Writers
    BY <2>2, <1>1, <1>2
  <2>4. ~ wr2
    BY <1>1, <1>2, <2>2, <2>3
  <2>5. ASSUME NEW i \in 1 .. (j - 1) PROVE t[i] \notin Writers
    <3>1. i \in 1 .. Len(t) /\ i + 1 \in 1 .. j
      BY <1>1, <1>2
    <3> QED
      BY <1>2, <2>3, <3>1
  <2> QED
    BY <2>4, <2>5
<1>7. ASSUME NEW i \in 1 .. Len(t), t[i] = "findToken" PROVE rt = "refresh"
  BY <1>2, <1>7 DEF Careful
<1>8. ASSUME NEW X, Has(q, X), q[1] \notin X PROVE Has(t, X)
  <2>1. PICK i \in 1 .. Len(q) : q[i] \in X
    BY <1>8 DEF Has
  <2>2. i \in 2 .. Len(q)
    BY <1>1, <1>8, <2>1
  <2> QED
    BY <1>3, <2>1, <2>2 DEF Has
<1>9. rt \in Creating => wr2 \/ Has(t, {"commit", "refuse"})
  BY <1>1, <1>8 DEF Careful
<1> QED
  BY <1>2, <1>4, <1>5, <1>6, <1>7, <1>9 DEF Careful, t

\* What a careful route knows at its next step, and at its end.
LEMMA NextStep ==
    ASSUME NEW rt, NEW adm, NEW wr, NEW q, Careful(rt, adm, wr, q), q # <<>>
    PROVE  /\ Head(q) \in Steps
           /\ Head(q) \in Guarded => rt = "ingest" \/ adm
           /\ Head(q) \notin Quiet(rt) => ~ wr
           /\ Head(q) = "findToken" => rt = "refresh"
<1>1. q \in Seq(Steps) /\ Head(q) = q[1] /\ 1 \in 1 .. Len(q) /\ q[1] \in Steps
  BY DEF Careful
<1>2. ~ \E j \in 1 .. (1 - 1) : q[j] = "limit"
  OBVIOUS
<1> QED
  BY <1>1, <1>2 DEF Careful

\* A route that creates something and has come to its end has committed.
LEMMA EndOfRoute ==
    ASSUME NEW rt, NEW adm, NEW wr, Careful(rt, adm, wr, <<>>)
    PROVE  rt \in Creating => wr
<1>1. \A X : ~ Has(<<>>, X)
  BY DEF Has
<1> QED
  BY <1>1 DEF Careful

-----------------------------------------------------------------------------
(* The steps of a request                                                  *)

Step(r) ==
    \/ \E rt \in Routes, cr \in Credentials : Arrive(r, rt, cr)
    \/ Serve(r)
    \/ PoolTimeout(r)
    \/ Fail(r)

\* Every step is one of a request or of the process, or nothing happens.
LEMMA StepsOfRequests ==
    ASSUME [Next]_vars
    PROVE  Boot \/ Crash \/ (\E r \in Request : Step(r)) \/ UNCHANGED vars
BY DEF Next, Step

\* Only the request that makes the step is let through, and only it commits.
Alone(r) ==
    /\ admitted' \in [Request -> BOOLEAN]
    /\ wrote' \in [Request -> SUBSET {"usage", "data"}]
    /\ \A q \in Request \ {r} : admitted'[q] = admitted[q] /\ wrote'[q] = wrote[q]

\* A step is done and another one comes.
GoesOn(r) ==
    /\ phase[r] = "serving" /\ left[r] # <<>> /\ GoOn(r)
    /\ Head(left[r]) # "refuse"
    /\ Alone(r)
    /\ admitted[r] => admitted'[r]
    /\ Head(left[r]) = "limit" => admitted'[r]
    /\ admitted'[r] => admitted[r] \/ Head(left[r]) = "limit"
    /\ wrote[r] \subseteq wrote'[r]
    /\ "data" \in wrote'[r] => "data" \in wrote[r] \/ Head(left[r]) \in Writers
    /\ Head(left[r]) = "commit" => "data" \in wrote'[r]
    /\ "usage" \in wrote'[r] <=> "usage" \in wrote[r] \/ Head(left[r]) = "touch"

\* The request is answered: at the end of its route, by a check, or by an exception,
\* which leaves open whether a commit has happened.
Answered(r, st) ==
    /\ phase[r] = "serving" /\ Reply(r, st)
    /\ Alone(r)
    /\ \/ st \in {"ok", "noContent"} /\ left[r] = <<>> /\ wrote' = wrote
       \/ /\ st \in {"refused", "invalid", "limited", "unavailable"} /\ left[r] # <<>>
          /\ Head(left[r]) \notin {"read", "touch", "fetch"} \cup Writers
          /\ Head(left[r]) = "refuse" => st = "refused"
          /\ st \in {"limited", "unavailable"} => Head(left[r]) = "limit"
          /\ wrote' = wrote
       \/ /\ st = "error" /\ left[r] # <<>>
          /\ wrote[r] \subseteq wrote'[r]
          /\ "data" \in wrote'[r] => "data" \in wrote[r] \/ Head(left[r]) \in Writers
          /\ "usage" \in wrote'[r] => "usage" \in wrote[r] \/ Head(left[r]) = "touch"

Statuses == {"ok", "noContent", "refused", "invalid", "limited", "unavailable", "error"}

\* All that a step of a request can do to the invariant.
LEMMA StepKinds ==
    ASSUME IInv, NEW r \in Request, Step(r)
    PROVE  \/ \E rt \in Routes, cr \in Credentials : Arrive(r, rt, cr)
           \/ GoesOn(r)
           \/ \E st \in Statuses : Answered(r, st)
           \/ FindSpent(r)
           \/ Close(r)
<1> USE DEF IInv, TypeOK, Alone, At, Writers, Statuses, Written
<1>1. CASE Check(r)
  <2>1. CASE GoOn(r) /\ UNCHANGED admitted
    BY <1>1, <2>1 DEF Check, GoesOn
  <2>2. CASE \E st \in {"invalid", "refused"} : Reply(r, st)
    BY <1>1, <2>2 DEF Check, Answered, Reply
  <2> QED
    BY <1>1, <2>1, <2>2 DEF Check
<1>2. CASE Refuse(r)
  BY <1>2 DEF Refuse, Answered, Reply
<1>3. CASE Select(r)
  <2>1. CASE GoOn(r) /\ UNCHANGED admitted
    BY <1>3, <2>1 DEF Select, GoesOn
  <2>2. CASE Head(left[r]) # "read" /\ Reply(r, "refused")
    BY <1>3, <2>2 DEF Select, Answered, Reply
  <2> QED
    BY <1>3, <2>1, <2>2 DEF Select
<1>4. CASE Limit(r)
  <2>1. CASE GoOn(r) /\ admitted' = [admitted EXCEPT ![r] = TRUE]
    BY <1>4, <2>1 DEF Limit, GoesOn
  <2>2. CASE \E st \in {"limited", "unavailable"} : Reply(r, st)
    BY <1>4, <2>2 DEF Limit, Answered, Reply
  <2> QED
    BY <1>4, <2>1, <2>2 DEF Limit
<1>5. CASE Fetch(r) \/ NothingToCommit(r)
  BY <1>5 DEF Fetch, NothingToCommit, GoesOn
<1>6. CASE Commit(r)
  BY <1>6 DEF Commit, GoesOn
<1>7. CASE Finish(r)
  <2>1. PICK st \in {"ok", "noContent"} : Reply(r, st)
    BY <1>7 DEF Finish
  <2> QED
    BY <1>7, <2>1 DEF Finish, Answered, Reply
<1>8. CASE PoolTimeout(r)
  BY <1>8 DEF PoolTimeout, Answered, Reply
<1>9. CASE Fail(r)
  <2>1. CASE UNCHANGED wrote
    BY <1>9, <2>1 DEF Fail, Answered, Reply
  <2>2. CASE At(r, {"touch", "commit", "commitIfChanged"}) /\ Written(r)
    BY <1>9, <2>2 DEF Fail, Answered, Reply
  <2> QED
    BY <1>9, <2>1, <2>2 DEF Fail
<1> QED
  BY <1>1, <1>2, <1>3, <1>4, <1>5, <1>6, <1>7, <1>8, <1>9 DEF Step, Serve

\* What is left of a program is a sequence of steps.
LEMMA LeftStep ==
    ASSUME IInv, NEW r \in Request, Step(r)
    PROVE  left' \in [Request -> Seq(Steps)]
<1> USE DEF IInv, TypeOK
<1>1. ASSUME NEW rt \in Routes, NEW cr \in Credentials, Arrive(r, rt, cr)
      PROVE  left' \in [Request -> Seq(Steps)]
  <2>1. Program(rt, cr) \in Seq(Steps)
    BY ProgramsAreCareful DEF Careful
  <2> QED
    BY <1>1, <2>1 DEF Arrive
<1>2. CASE GoesOn(r)
  <2>1. Tail(left[r]) \in Seq(Steps)
    BY <1>2 DEF GoesOn
  <2> QED
    BY <1>2, <2>1 DEF GoesOn, GoOn
<1>3. CASE FindSpent(r)
  <2>1. <<"commit", "refuse">> \in Seq(Steps)
    BY DEF Steps
  <2> QED
    BY <1>3, <2>1 DEF FindSpent
<1>4. CASE \E st \in Statuses : Answered(r, st)
  <2>1. <<>> \in Seq(Steps)
    OBVIOUS
  <2> QED
    BY <1>4, <2>1 DEF Answered, Reply
<1>5. CASE Close(r)
  BY <1>5 DEF Close
<1> QED
  BY <1>1, <1>2, <1>3, <1>4, <1>5, StepKinds

\* What is left stays careful, as only the first step is done.
LEMMA ServingStep ==
    ASSUME IInv, NEW r \in Request, Step(r)
    PROVE  ServingOK'
<1> SUFFICES ASSUME NEW q \in Request
             PROVE  /\ phase'[q] = "idle" => ~ admitted'[q] /\ wrote'[q] = {}
                    /\ phase'[q] = "serving" =>
                          /\ route'[q] \in Routes
                          /\ Careful(route'[q], admitted'[q], "data" \in wrote'[q], left'[q])
                          /\ Noting(cred'[q], admitted'[q], "usage" \in wrote'[q], left'[q])
                    /\ phase'[q] \in {"serving", "answered"} => up'
  BY DEF ServingOK, Careful, Noting, Has, Quiet, Writers, Guarded, Steps, Creating,
         Routes
<1> USE DEF IInv, TypeOK
<1>1. ASSUME NEW rt \in Routes, NEW cr \in Credentials, Arrive(r, rt, cr), q = r
      PROVE  /\ phase'[q] = "serving" /\ route'[q] = rt /\ cred'[q] = cr /\ up'
             /\ Careful(rt, admitted'[q], "data" \in wrote'[q], left'[q])
             /\ Noting(cr, admitted'[q], "usage" \in wrote'[q], left'[q])
  <2>1. /\ admitted'[r] = FALSE
        /\ ("data" \in wrote'[r]) = FALSE /\ ("usage" \in wrote'[r]) = FALSE
    BY <1>1 DEF Arrive, ServingOK
  <2>2. phase'[r] = "serving" /\ route'[r] = rt /\ cred'[r] = cr /\ up'
    BY <1>1 DEF Arrive, process
  <2>3. left'[r] = Program(rt, cr)
    BY <1>1 DEF Arrive, ServingOK
  <2>4. Careful(rt, FALSE, FALSE, Program(rt, cr))
    BY ProgramsAreCareful
  <2>5. Noting(cr, FALSE, FALSE, Program(rt, cr))
    BY ProgramsNoteKeys
  <2> HIDE DEF IInv
  <2>6. Careful(rt, admitted'[r], "data" \in wrote'[r], left'[r])
    BY <2>1, <2>3, <2>4, Zenon
  <2>7. Noting(cr, admitted'[r], "usage" \in wrote'[r], left'[r])
    BY <2>1, <2>3, <2>5, Zenon
  <2> QED
    BY <1>1, <2>2, <2>6, <2>7
<1>2. CASE GoesOn(r) /\ q = r
  <2> DEFINE dat == "data" \in wrote[r]
             use == "usage" \in wrote[r]
             dat2 == "data" \in wrote'[r]
             use2 == "usage" \in wrote'[r]
  <2>1. /\ Careful(route[r], admitted[r], dat, left[r])
        /\ Noting(cred[r], admitted[r], use, left[r])
        /\ route[r] \in Routes /\ up
    BY <1>2 DEF GoesOn, ServingOK
  <2>2. /\ left[r] # <<>> /\ left'[r] = Tail(left[r]) /\ phase'[r] = "serving"
        /\ route'[r] = route[r] /\ cred'[r] = cred[r] /\ up' = up
        /\ left[r] \in Seq(Steps)
    BY <1>2 DEF GoesOn, GoOn, process, request
  <2>3. /\ Head(left[r]) # "refuse"
        /\ admitted[r] => admitted'[r]
        /\ Head(left[r]) = "limit" => admitted'[r]
        /\ admitted'[r] => admitted[r] \/ Head(left[r]) = "limit"
        /\ dat => dat2
        /\ dat2 => dat \/ Head(left[r]) \in Writers
        /\ Head(left[r]) = "commit" => dat2
        /\ use2 <=> use \/ Head(left[r]) = "touch"
    BY <1>2 DEF GoesOn
  <2> HIDE DEF IInv, dat, use, dat2, use2
  <2>4. Careful(route[r], admitted'[r], dat2, Tail(left[r]))
    BY <2>1, <2>2, <2>3, FirstStepDone
  <2>5. Noting(cred[r], admitted'[r], use2, Tail(left[r]))
    BY <2>1, <2>2, <2>3, NotingGoesOn
  <2> QED
    BY <1>2, <2>1, <2>2, <2>4, <2>5 DEF dat2, use2
<1>3. CASE FindSpent(r) /\ q = r
  <2> DEFINE dat == "data" \in wrote[r]
             use == "usage" \in wrote[r]
  <2>1. /\ Careful(route[r], admitted[r], dat, left[r])
        /\ Noting(cred[r], admitted[r], use, left[r])
        /\ route[r] \in Routes /\ up
    BY <1>3 DEF FindSpent, At, ServingOK
  <2>2. left[r] # <<>> /\ Head(left[r]) = "findToken"
    BY <1>3 DEF FindSpent, At
  <2>3. /\ left'[r] = <<"commit", "refuse">> /\ phase'[r] = "serving" /\ up' = up
        /\ route' = route /\ cred' = cred /\ admitted' = admitted /\ wrote' = wrote
    BY <1>3 DEF FindSpent, At, process, request
  <2> HIDE DEF IInv, dat, use
  <2>4. admitted[r] /\ ~ dat /\ route[r] = "refresh"
    <3>1. "findToken" \in Guarded /\ "findToken" \notin Quiet(route[r])
      BY DEF Guarded, Writers, Quiet
    <3>2. route[r] = "refresh"
      BY <2>1, <2>2, NextStep
    <3>3. route[r] = "ingest" \/ admitted[r]
      BY <2>1, <2>2, <3>1, NextStep
    <3>4. ~ dat
      BY <2>1, <2>2, <3>1, NextStep
    <3> QED
      BY <3>2, <3>3, <3>4
  <2>5. Has(<<"commit", "refuse">>, {"commit", "refuse"})
    BY DEF Has
  <2>6. Careful("refresh", TRUE, FALSE, <<"commit", "refuse">>)
    BY <2>5 DEF Careful, Steps, Guarded, Writers, Quiet, Creating
  <2>7. admitted[r] = TRUE /\ dat = FALSE
    BY <2>4
  <2>8. Noting(cred[r], admitted[r], use, <<"commit", "refuse">>)
    BY <2>1 DEF Noting
  <2>9. Careful(route'[r], admitted'[r], "data" \in wrote'[r], left'[r])
    BY <2>3, <2>4, <2>6, <2>7, Zenon DEF dat
  <2>10. Noting(cred'[r], admitted'[r], "usage" \in wrote'[r], left'[r])
    BY <2>3, <2>8, Zenon DEF use
  <2> QED
    BY <1>3, <2>1, <2>3, <2>9, <2>10
<1>4. CASE (\E st \in Statuses : Answered(r, st)) /\ q = r
  BY <1>4 DEF Answered, Reply, process, ServingOK
<1>5. CASE Close(r) /\ q = r
  BY <1>5 DEF Close, process
<1>6. CASE q # r
  <2>1. /\ phase'[q] = phase[q] /\ route'[q] = route[q] /\ cred'[q] = cred[q] /\ up' = up
        /\ left'[q] = left[q] /\ admitted'[q] = admitted[q] /\ wrote'[q] = wrote[q]
    <3>1. CASE \E rt \in Routes, cr \in Credentials : Arrive(r, rt, cr)
      BY <1>6, <3>1 DEF Arrive, process, request
    <3>2. CASE GoesOn(r)
      BY <1>6, <3>2 DEF GoesOn, GoOn, Alone, process, request
    <3>3. CASE FindSpent(r)
      BY <1>6, <3>3 DEF FindSpent, process, request
    <3>4. CASE \E st \in Statuses : Answered(r, st)
      BY <1>6, <3>4 DEF Answered, Reply, Alone, process, request
    <3>5. CASE Close(r)
      BY <1>6, <3>5 DEF Close, process, request
    <3> QED
      BY <3>1, <3>2, <3>3, <3>4, <3>5, StepKinds
  <2> QED
    BY <2>1 DEF ServingOK
<1> QED
  BY <1>1, <1>2, <1>3, <1>4, <1>5, <1>6, StepKinds

\* The answer that is given is true to what the route knows.
LEMMA TrueAnswer ==
    ASSUME IInv, NEW r \in Request, NEW st \in Statuses, Answered(r, st)
    PROVE  /\ st = "ok" /\ route'[r] \in Creating => "data" \in wrote'[r]
           /\ "data" \in wrote'[r] /\ route'[r] # "ingest" => admitted'[r]
           /\ "data" \in wrote'[r] /\ st \notin {"ok", "noContent", "error"}
                 => route'[r] = "refresh" /\ st = "refused"
<1> USE DEF IInv, TypeOK
<1> DEFINE dat == "data" \in wrote[r]
           dat2 == "data" \in wrote'[r]
<1>1. Careful(route[r], admitted[r], dat, left[r])
  BY DEF Answered, ServingOK
<1>2. route'[r] = route[r] /\ admitted'[r] = admitted[r]
  BY DEF Answered, Reply, request
<1> HIDE DEF IInv, dat, dat2
<1>3. dat => route[r] = "ingest" \/ admitted[r]
  BY <1>1 DEF Careful
<1>4. CASE st \in {"ok", "noContent"}
  <2>1. left[r] = <<>> /\ dat2 = dat
    BY <1>4 DEF Answered, dat, dat2
  <2>2. route[r] \in Creating => dat
    BY <1>1, <2>1, EndOfRoute
  <2> QED
    BY <1>2, <1>3, <1>4, <2>1, <2>2 DEF dat2
<1>5. CASE st \in {"refused", "invalid", "limited", "unavailable"}
  <2>1. /\ left[r] # <<>> /\ dat2 = dat
        /\ Head(left[r]) \notin {"read", "touch", "fetch"} \cup Writers
        /\ Head(left[r]) = "refuse" => st = "refused"
    BY <1>5 DEF Answered, dat, dat2
  <2>2. dat => Head(left[r]) \in Quiet(route[r])
    BY <1>1, <2>1, NextStep
  <2>3. dat => Head(left[r]) = "refuse" /\ route[r] = "refresh"
    BY <2>1, <2>2 DEF Quiet
  <2> QED
    BY <1>2, <1>3, <1>5, <2>1, <2>3 DEF dat2
<1>6. CASE st = "error"
  <2>1. left[r] # <<>> /\ (dat2 => dat \/ Head(left[r]) \in Writers)
    BY <1>6 DEF Answered, dat, dat2
  <2>2. Head(left[r]) \in Writers => route[r] = "ingest" \/ admitted[r]
    BY <1>1, <2>1, NextStep DEF Guarded
  <2> QED
    BY <1>2, <1>3, <1>6, <2>1, <2>2 DEF dat2
<1> QED
  BY <1>4, <1>5, <1>6 DEF Statuses, dat2

\* When the answer is given, the use of a key that got to the limiter is committed.
LEMMA NotedAnswer ==
    ASSUME IInv, NEW r \in Request, NEW st \in Statuses, Answered(r, st)
    PROVE  /\ "usage" \in wrote'[r] => cred'[r] = "key"
           /\ cred'[r] = "key" /\ (admitted'[r] \/ st \in {"limited", "unavailable"})
                 => "usage" \in wrote'[r]
<1> USE DEF IInv, TypeOK
<1> DEFINE use == "usage" \in wrote[r]
           use2 == "usage" \in wrote'[r]
<1>1. Noting(cred[r], admitted[r], use, left[r]) /\ left[r] \in Seq(Steps)
  BY DEF Answered, ServingOK
<1>2. cred'[r] = cred[r] /\ admitted'[r] = admitted[r]
  BY DEF Answered, Reply, request
<1> HIDE DEF IInv, use, use2
<1>3. /\ use => cred[r] = "key"
      /\ cred[r] = "key" /\ admitted[r] => use
  BY <1>1 DEF Noting
<1>4. left[r] # <<>> => /\ Head(left[r]) = "touch" => cred[r] = "key"
                        /\ Head(left[r]) = "limit" /\ cred[r] = "key" => use
  BY <1>1, NotedByNow
<1>5. /\ use => use2
      /\ use2 => use \/ (left[r] # <<>> /\ Head(left[r]) = "touch")
      /\ st \in {"limited", "unavailable"} => left[r] # <<>> /\ Head(left[r]) = "limit"
  BY DEF Answered, use, use2
<1> QED
  BY <1>2, <1>3, <1>4, <1>5 DEF use2

\* What a step does to the answers, old and new.
LEMMA AnswerKinds ==
    ASSUME IInv, NEW r \in Request, Step(r), NEW q \in Request,
           phase'[q] \in {"answered", "closed"}
    PROVE  \/ /\ phase[q] \in {"answered", "closed"}
              /\ answer'[q] = answer[q] /\ route'[q] = route[q] /\ cred'[q] = cred[q]
              /\ wrote'[q] = wrote[q] /\ admitted'[q] = admitted[q]
           \/ \E st \in Statuses : q = r /\ Answered(r, st) /\ answer'[r] = st
<1> USE DEF IInv, TypeOK, request
<1>1. CASE \E rt \in Routes, cr \in Credentials : Arrive(r, rt, cr)
  BY <1>1 DEF Arrive
<1>2. CASE GoesOn(r)
  BY <1>2 DEF GoesOn, GoOn, Alone
<1>3. CASE FindSpent(r)
  BY <1>3 DEF FindSpent, At
<1>4. ASSUME NEW st \in Statuses, Answered(r, st), q = r
      PROVE  answer'[r] = st
  BY <1>4 DEF Answered, Reply
<1>5. ASSUME NEW st \in Statuses, Answered(r, st), q # r
      PROVE  /\ phase[q] \in {"answered", "closed"}
             /\ answer'[q] = answer[q] /\ route'[q] = route[q] /\ cred'[q] = cred[q]
             /\ wrote'[q] = wrote[q] /\ admitted'[q] = admitted[q]
  BY <1>5 DEF Answered, Reply, Alone
<1>6. CASE Close(r)
  BY <1>6 DEF Close
<1> QED
  BY <1>1, <1>2, <1>3, <1>4, <1>5, <1>6, StepKinds

\* An answer is made by a step that may make it, and is not changed.
LEMMA AnswersStep ==
    ASSUME IInv, NEW r \in Request, Step(r)
    PROVE  AnswersTellWhatHappened'
<1> SUFFICES ASSUME NEW q \in Request, phase'[q] \in {"answered", "closed"}
             PROVE  /\ answer'[q] = "ok" /\ route'[q] \in Creating => "data" \in wrote'[q]
                    /\ "data" \in wrote'[q] /\ route'[q] # "ingest" => admitted'[q]
                    /\ "data" \in wrote'[q] /\ answer'[q] \notin {"ok", "noContent", "error"}
                          => route'[q] = "refresh" /\ answer'[q] = "refused"
                    /\ "usage" \in wrote'[q] => cred'[q] = "key"
                    /\ /\ cred'[q] = "key"
                       /\ (admitted'[q] \/ answer'[q] \in {"limited", "unavailable"})
                       => "usage" \in wrote'[q]
  BY DEF AnswersTellWhatHappened, Creating
<1>1. CASE /\ phase[q] \in {"answered", "closed"}
           /\ answer'[q] = answer[q] /\ route'[q] = route[q] /\ cred'[q] = cred[q]
           /\ wrote'[q] = wrote[q] /\ admitted'[q] = admitted[q]
  <2>1. AnswersTellWhatHappened
    BY DEF IInv
  <2> HIDE DEF IInv
  <2>2. /\ answer[q] = "ok" /\ route[q] \in Creating => "data" \in wrote[q]
        /\ "data" \in wrote[q] /\ route[q] # "ingest" => admitted[q]
        /\ "data" \in wrote[q] /\ answer[q] \notin {"ok", "noContent", "error"}
              => route[q] = "refresh" /\ answer[q] = "refused"
        /\ "usage" \in wrote[q] => cred[q] = "key"
        /\ cred[q] = "key" /\ (admitted[q] \/ answer[q] \in {"limited", "unavailable"})
              => "usage" \in wrote[q]
    BY <1>1, <2>1 DEF AnswersTellWhatHappened, Creating
  <2> QED
    BY <1>1, <2>2
<1>2. CASE \E st \in Statuses : q = r /\ Answered(r, st) /\ answer'[r] = st
  <2>1. PICK st \in Statuses : q = r /\ Answered(r, st) /\ answer'[r] = st
    BY <1>2
  <2> HIDE DEF IInv
  <2>2. /\ st = "ok" /\ route'[r] \in Creating => "data" \in wrote'[r]
        /\ "data" \in wrote'[r] /\ route'[r] # "ingest" => admitted'[r]
        /\ "data" \in wrote'[r] /\ st \notin {"ok", "noContent", "error"}
              => route'[r] = "refresh" /\ st = "refused"
    BY <2>1, TrueAnswer
  <2>3. /\ "usage" \in wrote'[r] => cred'[r] = "key"
        /\ cred'[r] = "key" /\ (admitted'[r] \/ st \in {"limited", "unavailable"})
              => "usage" \in wrote'[r]
    BY <2>1, NotedAnswer
  <2> QED
    BY <2>1, <2>2, <2>3
<1> QED
  BY <1>1, <1>2, AnswerKinds

-----------------------------------------------------------------------------
(* The pool                                                                *)

\* A step takes a connection only if there is one, or gives one back.
LEMMA ConnectionKinds ==
    ASSUME IInv, NEW r \in Request, Step(r)
    PROVE  \/ conn' = conn
           \/ conn' = [conn EXCEPT ![r] = TRUE] /\ Connected(r)
           \/ conn' = [conn EXCEPT ![r] = FALSE]
BY DEF Step, Serve, Arrive, Check, Refuse, Select, FindSpent, Limit, Fetch, Commit,
       NothingToCommit, Finish, Close, PoolTimeout, Fail, Keep, Return

\* A connection is lent while there is one.
LEMMA PoolStep ==
    ASSUME IInv, NEW r \in Request, Step(r)
    PROVE  IsFiniteSet(Borrowed)' /\ Cardinality(Borrowed') <= PoolSize
<1> USE DEF IInv, TypeOK
<1> USE PoolAssumption
<1>1. CASE conn' = conn
  BY <1>1 DEF Borrowed
<1>2. CASE conn' = [conn EXCEPT ![r] = TRUE] /\ Connected(r)
  <2>1. Borrowed' = Borrowed \cup {r}
    BY <1>2 DEF Borrowed
  <2>2. conn[r] <=> r \in Borrowed
    BY DEF Borrowed
  <2>3. Cardinality(Borrowed) \in Nat
    BY FS_CardinalityType
  <2>4. /\ IsFiniteSet(Borrowed \cup {r})
        /\ Cardinality(Borrowed \cup {r}) =
              IF r \in Borrowed THEN Cardinality(Borrowed) ELSE Cardinality(Borrowed) + 1
    BY FS_AddElement
  <2>5. r \in Borrowed \/ Cardinality(Borrowed) < PoolSize
    BY <1>2, <2>2 DEF Connected
  <2>6. Cardinality(Borrowed) <= PoolSize
    OBVIOUS
  <2> HIDE DEF IInv, TypeOK
  <2>7. IsFiniteSet(Borrowed')
    BY <2>1, <2>4
  <2>8. Cardinality(Borrowed') <= PoolSize
    BY <2>1, <2>3, <2>4, <2>5, <2>6
  <2> QED
    BY <2>7, <2>8
<1>3. CASE conn' = [conn EXCEPT ![r] = FALSE]
  <2>1. Borrowed' = Borrowed \ {r}
    BY <1>3 DEF Borrowed
  <2>2. Cardinality(Borrowed) \in Nat
    BY FS_CardinalityType
  <2>3. /\ IsFiniteSet(Borrowed \ {r})
        /\ Cardinality(Borrowed \ {r}) =
              IF r \in Borrowed THEN Cardinality(Borrowed) - 1 ELSE Cardinality(Borrowed)
    BY FS_RemoveElement
  <2>4. Cardinality(Borrowed) <= PoolSize
    OBVIOUS
  <2> HIDE DEF IInv, TypeOK
  <2>5. IsFiniteSet(Borrowed')
    BY <2>1, <2>3
  <2>6. Cardinality(Borrowed') <= PoolSize
    BY <2>1, <2>2, <2>3, <2>4
  <2> QED
    BY <2>5, <2>6
<1> QED
  BY <1>1, <1>2, <1>3, ConnectionKinds

\* A connection is held by a request that is being served or closed.
LEMMA HoldersStep ==
    ASSUME IInv, NEW r \in Request, Step(r)
    PROVE  \A q \in Borrowed' : up' /\ phase'[q] \in {"serving", "answered"}
<1> SUFFICES ASSUME NEW q \in Request, conn'[q]
             PROVE  up' /\ phase'[q] \in {"serving", "answered"}
  BY DEF Borrowed
<1> USE DEF IInv, TypeOK, Borrowed, process
<1>1. CASE \E rt \in Routes, cr \in Credentials : Arrive(r, rt, cr)
  BY <1>1 DEF Arrive
<1>2. CASE GoesOn(r)
  <2>1. phase' = phase /\ up' = up /\ phase[r] = "serving" /\ up
    BY <1>2 DEF GoesOn, GoOn, ServingOK
  <2>2. q # r => conn'[q] = conn[q]
    BY ConnectionKinds
  <2> QED
    BY <2>1, <2>2
<1>3. ASSUME NEW st \in Statuses, Answered(r, st)
      PROVE up' /\ phase'[q] \in {"serving", "answered"}
  <2>1. phase' = [phase EXCEPT ![r] = "answered"] /\ up' = up /\ phase[r] = "serving" /\ up
    BY <1>3 DEF Answered, Reply, ServingOK
  <2>2. q # r => conn'[q] = conn[q]
    BY ConnectionKinds
  <2> QED
    BY <2>1, <2>2
<1>4. CASE FindSpent(r)
  BY <1>4 DEF FindSpent, Keep, At, ServingOK
<1>5. CASE Close(r)
  BY <1>5 DEF Close, Return
<1> QED
  BY <1>1, <1>2, <1>3, <1>4, <1>5, StepKinds

\* No step takes a variable out of its type.
LEMMA TypeStep ==
    ASSUME IInv, NEW r \in Request, Step(r)
    PROVE  TypeOK'
<1> USE DEF IInv, TypeOK, process
<1>1. conn' \in [Request -> BOOLEAN]
  BY ConnectionKinds
<1>2. /\ settings' \in Settings /\ up' \in BOOLEAN
      /\ phase' \in [Request -> {"idle", "serving", "answered", "closed", "lost"}]
      /\ route' \in [Request -> Routes \cup {"none"}]
      /\ cred' \in [Request -> Credentials \cup {"none"}]
      /\ answer' \in [Request -> Answers \cup {"none"}]
      /\ admitted' \in [Request -> BOOLEAN]
      /\ wrote' \in [Request -> SUBSET {"usage", "data"}]
  <2> USE DEF request
  <2>1. CASE \E rt \in Routes, cr \in Credentials : Arrive(r, rt, cr)
    BY <2>1 DEF Arrive
  <2>2. CASE GoesOn(r)
    BY <2>2 DEF GoesOn, GoOn, Alone
  <2>3. CASE \E st \in Statuses : Answered(r, st)
    <3>1. PICK st \in Answers : Answered(r, st)
      BY <2>3 DEF Answers, Statuses
    <3> QED
      BY <3>1 DEF Answered, Reply, Alone
  <2>4. CASE FindSpent(r)
    BY <2>4 DEF FindSpent
  <2>5. CASE Close(r)
    BY <2>5 DEF Close
  <2> QED
    BY <2>1, <2>2, <2>3, <2>4, <2>5, StepKinds
<1> QED
  BY <1>1, <1>2, PoolStep, HoldersStep DEF Borrowed

-----------------------------------------------------------------------------
(* Start, crash and the theorems                                           *)

\* A process that starts has no requests.
LEMMA BootStep ==
    ASSUME IInv, Boot
    PROVE  IInv'
<1> USE DEF IInv, Boot, request
<1>1. TypeOK' /\ IsFiniteSet(Borrowed)' /\ left' \in [Request -> Seq(Steps)]
  BY DEF TypeOK, Borrowed
<1>2. ServingOK'
  BY DEF ServingOK
<1>3. AnswersTellWhatHappened'
  BY DEF AnswersTellWhatHappened
<1> QED
  BY <1>1, <1>2, <1>3

\* A process that dies takes its requests and connections with it.
LEMMA CrashStep ==
    ASSUME IInv, Crash
    PROVE  IInv'
<1> USE DEF IInv, Crash, request
<1>1. Borrowed' = {}
  BY DEF Borrowed
<1>2. IsFiniteSet(Borrowed)' /\ Cardinality(Borrowed') <= PoolSize
  BY <1>1, FS_EmptySet, PoolAssumption
<1>3. <<>> \in Seq(Steps) /\ left' \in [Request -> Seq(Steps)]
  OBVIOUS
<1>4. \A r \in Request : /\ phase'[r] \in {"idle", "closed", "lost"}
                         /\ phase'[r] = "idle" => phase[r] = "idle"
                         /\ phase'[r] = "closed" => phase[r] \in {"answered", "closed"}
  BY DEF TypeOK
<1>5. TypeOK'
  BY <1>1, <1>2 DEF TypeOK
<1>6. ServingOK'
  BY <1>4 DEF ServingOK
<1>7. AnswersTellWhatHappened'
  BY <1>4 DEF AnswersTellWhatHappened
<1> QED
  BY <1>2, <1>3, <1>5, <1>6, <1>7

\* The invariant is about the variables only.
LEMMA Stuttering ==
    ASSUME IInv, UNCHANGED vars
    PROVE  IInv'
<1> USE DEF IInv, vars, process, request
<1>1. TypeOK' /\ IsFiniteSet(Borrowed)' /\ left' \in [Request -> Seq(Steps)]
  BY DEF TypeOK, Borrowed
<1>2. ServingOK' /\ AnswersTellWhatHappened'
  BY DEF ServingOK, AnswersTellWhatHappened
<1> QED
  BY <1>1, <1>2

\* Before the first request there is nothing to tell.
LEMMA Initially == Init => IInv
<1> SUFFICES ASSUME Init PROVE IInv
  OBVIOUS
<1> USE DEF Init
<1>1. Borrowed = {}
  BY DEF Borrowed
<1>2. IsFiniteSet(Borrowed) /\ Cardinality(Borrowed) <= PoolSize
  BY <1>1, FS_EmptySet, PoolAssumption
<1>3. TypeOK
  BY <1>1, <1>2 DEF TypeOK
<1>4. <<>> \in Seq(Steps) /\ left \in [Request -> Seq(Steps)]
  OBVIOUS
<1> QED
  BY <1>2, <1>3, <1>4 DEF IInv, ServingOK, AnswersTellWhatHappened

\* The inductive invariant holds throughout.
THEOREM Inductive == Spec => []IInv
<1>1. ASSUME IInv, NEW r \in Request, Step(r) PROVE IInv'
  BY <1>1, TypeStep, PoolStep, LeftStep, ServingStep, AnswersStep DEF IInv
<1>2. IInv /\ [Next]_vars => IInv'
  BY <1>1, StepsOfRequests, BootStep, CrashStep, Stuttering
<1> QED
  BY Initially, <1>2, PTL DEF Spec

\* The type invariant; in particular the pool never lends more connections than it
\* has, and only to requests that will close their session.
THEOREM TypeCorrect == Spec => []TypeOK
BY Inductive, PTL DEF IInv

\* A success has committed; data is changed only for a request that the limiter has let
\* through, and by no refusal but that of a spent refresh token; the last use of a
\* key is committed for every request with a key that gets to the limiter, let
\* through or not, and for no other.
THEOREM AnswersHonest == Spec => []AnswersTellWhatHappened
BY Inductive, PTL DEF IInv
=============================================================================
