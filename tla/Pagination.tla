----------------------------- MODULE Pagination -----------------------------
(***************************************************************************)
(* GET /v1/jobs (list_jobs in app/services/jobs_service.py): a client that *)
(* walks through the postings page by page with the cursor of the page     *)
(* before, while ingestion runs commit between the pages.  A page is one   *)
(* SELECT and sees one state of the table; the server keeps nothing        *)
(* between two pages.                                                      *)
(*                                                                         *)
(* A posting is its id, a number, as the order of ids matters; posted_at   *)
(* is a number or NoDate.  The table is what the filters of the walk, all  *)
(* but include_closed, let through of it: an update that changes a title   *)
(* or a location may bring a posting into it or take it out.               *)
(***************************************************************************)
EXTENDS Integers, FiniteSets

CONSTANTS
    Job,          \* ids of postings
    Date,         \* values of posted_at
    NoDate,       \* posted_at is NULL
    PageSize,     \* the values of the limit parameter
    Undated       \* TRUE iff a board may give no date for a posting

ASSUME JobAssumption == Job \subseteq Nat /\ IsFiniteSet(Job)
ASSUME DateAssumption == Date \subseteq Nat /\ NoDate \notin Nat
ASSUME PageAssumption == PageSize \subseteq Nat \ {0}
ASSUME UndatedAssumption == Undated \in BOOLEAN

VARIABLES
    rows,           \* postings in the table that match the filters
    closed,         \* those whose closed_at is set
    posted,         \* posted[j]: posted_at of j
    includeClosed,  \* the include_closed parameter of the walk
    walk,           \* "idle", "walking" or "done"
    cursor,         \* the next_cursor of the page before
    returned,       \* history: how often a posting was returned, 2 for more
    stable          \* history: postings listed since the walk began, date unchanged

table == <<rows, closed, posted>>
client == <<includeClosed, walk, cursor>>
vars == <<rows, closed, posted, includeClosed, walk, cursor, returned, stable>>

NoCursor == [t |-> NoDate, id |-> -1]

TypeOK ==
    /\ rows \subseteq Job
    /\ closed \subseteq rows
    /\ posted \in [Job -> Date \cup {NoDate}]
    /\ includeClosed \in BOOLEAN
    /\ walk \in {"idle", "walking", "done"}
    /\ cursor \in {NoCursor} \cup [t : Date \cup {NoDate}, id : Job]
    /\ returned \in [Job -> 0 .. 2]
    /\ stable \subseteq rows

Init ==
    /\ rows = {}
    /\ closed = {}
    /\ posted = [j \in Job |-> NoDate]
    /\ includeClosed = FALSE
    /\ walk = "idle"
    /\ cursor = NoCursor
    /\ returned = [j \in Job |-> 0]
    /\ stable = {}

-----------------------------------------------------------------------------
(* list_jobs ***************************************************************)

\* The rows of the query without the cursor.
Listed == IF includeClosed THEN rows ELSE rows \ closed

\* ORDER BY posted_at DESC NULLS LAST, id DESC.
Before(j, k) ==
    \/ posted[j] # NoDate /\ posted[k] = NoDate
    \/ posted[j] # NoDate /\ posted[k] # NoDate /\ posted[j] > posted[k]
    \/ posted[j] = posted[k] /\ j > k

\* The condition added for a cursor; a comparison with NULL does not hold.
UndatedCursor(c, j) ==
    \/ posted[j] = NoDate /\ j < c.id
    \/ posted[j] # NoDate

\* Bugs: ties are dropped; ties are taken up again; the row itself is included.
DatedCursor_NoTies(c, j) == posted[j] = NoDate \/ posted[j] < c.t
DatedCursor_AllTies(c, j) == posted[j] = NoDate \/ posted[j] <= c.t
DatedCursor_Inclusive(c, j) ==
    \/ posted[j] # NoDate /\ posted[j] < c.t
    \/ posted[j] = c.t /\ j <= c.id
    \/ posted[j] = NoDate

DatedCursor(c, j) ==
    \/ posted[j] # NoDate /\ posted[j] < c.t
    \/ posted[j] = c.t /\ j < c.id
    \/ posted[j] = NoDate

AfterCursor(c, j) ==
    CASE c = NoCursor                   -> TRUE
      [] c # NoCursor /\ c.t = NoDate   -> UndatedCursor(c, j)
      [] c # NoCursor /\ c.t # NoDate   -> DatedCursor(c, j)

Matching == {j \in Listed : AfterCursor(cursor, j)}

\* The first n rows of the result.
Page(n) == {j \in Matching : Cardinality({k \in Matching : Before(k, j)}) < n}

\* Bug: the id is left out.
EncodeCursor_Bug(page) ==
    [t |-> posted[CHOOSE j \in page : \A k \in page \ {j} : Before(k, j)], id |-> -1]

\* encode_cursor of the last row of the page.
EncodeCursor(page) ==
    LET last == CHOOSE j \in page : \A k \in page \ {j} : Before(k, j)
    IN  [t |-> posted[last], id |-> last]

\* The client asks for the first page of a new walk.
Begin(withClosed) ==
    /\ walk = "idle"
    /\ includeClosed' = withClosed
    /\ walk' = "walking"
    /\ stable' = IF withClosed THEN rows ELSE rows \ closed
    /\ UNCHANGED <<table, cursor, returned>>

\* One page; has_more decides whether there is a cursor to go on with.
NextPage(n) ==
    /\ walk = "walking"
    /\ returned' = [j \in Job |-> IF j \in Page(n) /\ returned[j] < 2
                                 THEN returned[j] + 1 ELSE returned[j]]
    /\ IF Cardinality(Matching) > n
       THEN /\ cursor' = EncodeCursor(Page(n))
            /\ UNCHANGED walk
       ELSE /\ walk' = "done"
            /\ UNCHANGED cursor
    /\ UNCHANGED <<table, includeClosed, stable>>

-----------------------------------------------------------------------------
(* What the commit of an ingest_company does to the rows of the query ******)

Absent == [in |-> FALSE, closed |-> FALSE, t |-> NoDate]
RowOf(j) == [in |-> j \in rows, closed |-> j \in closed, t |-> posted[j]]

\* The dates of a feed entry.
FeedDates == Date \cup (IF Undated THEN {NoDate} ELSE {})
Row == {Absent} \cup [in : {TRUE}, closed : BOOLEAN, t : FeedDates]

\* The posting is in the feed: inserted, or closed_at is reset and all else is
\* overwritten.  A posting keeps its date if the entry has none, and comes into the
\* query, or drops out of it, when its new texts match the filters or not.
Stored(j) ==
    {[in |-> TRUE, closed |-> FALSE, t |-> d] :
         d \in IF j \in rows THEN Date \cup {posted[j]} ELSE FeedDates}
        \cup (IF j \in rows THEN {Absent} ELSE {})

\* The posting is missing in the feed.
Closed(j) == IF j \in rows \ closed THEN {[RowOf(j) EXCEPT !.closed = TRUE]} ELSE {}

\* The commit of one company: any of its postings change.  What happens to the
\* table after the walk is not followed.
Ingest ==
    /\ walk # "done"
    /\ \E new \in [Job -> Row] :
          /\ \A j \in Job : new[j] \in {RowOf(j)} \cup Stored(j) \cup Closed(j)
          /\ rows' = {j \in Job : new[j].in}
          /\ closed' = {j \in Job : new[j].closed}
          /\ posted' = [j \in Job |-> new[j].t]
          /\ stable' = {j \in stable : /\ new[j].in /\ new[j].t = posted[j]
                                       /\ new[j].closed => includeClosed}
    /\ UNCHANGED <<client, returned>>

Next ==
    \/ \E withClosed \in BOOLEAN : Begin(withClosed)
    \/ \E n \in PageSize : NextPage(n)
    \/ Ingest
    \/ walk = "done" /\ UNCHANGED vars

Spec == Init /\ [][Next]_vars

\* The client goes on as long as has_more is true.
FairSpec == Spec /\ WF_vars(\E n \in PageSize : NextPage(n))

-----------------------------------------------------------------------------
(* Properties **************************************************************)

\* Whatever the runs of ingestion commit between the pages, a posting
\* that is listed throughout the walk with the same date is never returned twice,
\* and has been returned when the walk is over.
StableReturnedOnce ==
    \A j \in stable : returned[j] <= 1 /\ (walk = "done" => returned[j] = 1)

\* Every page that has a next page moves the cursor: it ends strictly behind the
\* page before in the order of the list.
CursorMovesOn ==
    [][(walk' = "walking" /\ returned' # returned /\ cursor # NoCursor) =>
          \/ cursor'.t < cursor.t
          \/ cursor'.t = cursor.t /\ cursor'.id < cursor.id]_vars

\* A client that follows the cursors comes to the end, even while postings keep
\* being inserted and re-dated.
WalkEnds == walk = "walking" ~> walk = "done"
=============================================================================
