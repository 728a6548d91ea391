-------------------------- MODULE PaginationProofs --------------------------
(***************************************************************************)
(* Theorems about Pagination, for every table, every page size and         *)
(* whatever ingestion commits between the pages.                           *)
(*                                                                         *)
(* First what one SELECT returns: the order of the list is total, so the   *)
(* page is cut at one posting, its last, and a dated cursor stands for     *)
(* the place of that posting in the order.  Then the walk: a posting that  *)
(* stays listed with its date has been returned exactly when its place is  *)
(* not behind the cursor (WalkOK).                                         *)
(*                                                                         *)
(* The walk is followed under the hypothesis Undated = FALSE: every board  *)
(* dates its postings.  Where one does not, both properties fail (the run  *)
(* pagination_undated), as the cursor of an undated posting lets every     *)
(* dated one pass again.                                                   *)
(***************************************************************************)
EXTENDS Pagination, FiniteSetTheorems, TLAPS

\* How many rows of the result come before j.
Rank(j) == Cardinality({k \in Matching : Before(k, j)})

\* Every row is dated, and so is every cursor.
DatedOK ==
    /\ \A j \in rows : posted[j] \in Date
    /\ cursor \in {NoCursor} \cup [t : Date, id : Job]

\* What the walk has returned of the postings it follows.
WalkOK ==
    /\ stable \subseteq Listed
    /\ walk = "idle" => cursor = NoCursor /\ stable = {} /\ \A j \in Job : returned[j] = 0
    /\ walk = "walking" =>
          \A j \in stable : returned[j] = IF AfterCursor(cursor, j) THEN 0 ELSE 1
    /\ walk = "done" => \A j \in stable : returned[j] = 1

\* The inductive invariant.
IInv == TypeOK /\ DatedOK /\ WalkOK

-----------------------------------------------------------------------------
(* One page ****************************************************************)

\* The ORDER BY of list_jobs is a strict total order: the id decides what posted_at
\* leaves open, dated postings come before undated ones.
LEMMA BeforeIsTotal ==
    ASSUME TypeOK, NEW j \in Job, NEW k \in Job
    PROVE  /\ ~ Before(j, j)
           /\ Before(j, k) => ~ Before(k, j)
           /\ j # k => Before(j, k) \/ Before(k, j)
           /\ \A i \in Job : Before(i, j) /\ Before(j, k) => Before(i, k)
<1>1. \A i \in Job : i \in Nat /\ (posted[i] \in Nat \/ posted[i] = NoDate)
  BY JobAssumption, DateAssumption DEF TypeOK
<1>2. ~ Before(j, j) /\ (Before(j, k) => ~ Before(k, j))
  BY <1>1, DateAssumption DEF Before
<1>3. j # k => Before(j, k) \/ Before(k, j)
  BY <1>1, DateAssumption DEF Before
<1>4. ASSUME NEW i \in Job, Before(i, j), Before(j, k) PROVE Before(i, k)
  BY <1>1, <1>4, DateAssumption DEF Before
<1> QED
  BY <1>2, <1>3, <1>4

\* The rows of the result are finitely many postings of the table.
LEMMA MatchingIsFinite ==
    ASSUME TypeOK
    PROVE  /\ Matching \subseteq Listed /\ Listed \subseteq rows /\ rows \subseteq Job
           /\ IsFiniteSet(Matching) /\ Cardinality(Matching) \in Nat
<1>1. Matching \subseteq Listed /\ Listed \subseteq rows /\ rows \subseteq Job
  BY DEF TypeOK, Matching, Listed
<1>2. IsFiniteSet(Matching)
  BY <1>1, JobAssumption, FS_Subset
<1> QED
  BY <1>1, <1>2, FS_CardinalityType

\* A row that comes before another has the lower rank, and all ranks are below the
\* number of rows.
LEMMA RankIsMonotone ==
    ASSUME TypeOK, NEW j \in Matching
    PROVE  /\ Rank(j) \in 0 .. (Cardinality(Matching) - 1)
           /\ \A k \in Matching : Before(j, k) <=> Rank(j) < Rank(k)
           /\ \A k \in Matching : j # k => Rank(j) # Rank(k)
<1> DEFINE Down(i) == {k \in Matching : Before(k, i)}
<1>1. ASSUME NEW S, S \subseteq Matching, NEW T, T \subseteq S, T # S
      PROVE  /\ Cardinality(T) \in Nat /\ Cardinality(S) \in Nat
             /\ Cardinality(T) < Cardinality(S)
  <2>1. IsFiniteSet(S) /\ IsFiniteSet(T)
    BY <1>1, MatchingIsFinite, FS_Subset
  <2> QED
    BY <1>1, <2>1, FS_Subset, FS_CardinalityType
<1>2. ASSUME NEW i \in Matching
      PROVE  Rank(i) \in Nat /\ Rank(i) < Cardinality(Matching)
  <2>1. i \notin Down(i)
    BY BeforeIsTotal, MatchingIsFinite
  <2> QED
    BY <1>1, <2>1 DEF Rank
<1>3. ASSUME NEW i \in Matching, NEW k \in Matching, Before(i, k)
      PROVE  Rank(i) < Rank(k)
  <2>1. Down(i) \subseteq Down(k)
    BY <1>3, BeforeIsTotal, MatchingIsFinite
  <2>2. i \in Down(k) /\ i \notin Down(i)
    BY <1>3, BeforeIsTotal, MatchingIsFinite
  <2> QED
    BY <1>1, <2>1, <2>2 DEF Rank
<1>4. \A k \in Matching : j # k => Before(j, k) \/ Before(k, j)
  BY BeforeIsTotal, MatchingIsFinite
<1> QED
  BY <1>2, <1>3, <1>4, MatchingIsFinite

\* So many numbers for so many rows: every one of them is the rank of a row.
LEMMA RankIsOnto ==
    ASSUME TypeOK, NEW i \in 0 .. (Cardinality(Matching) - 1)
    PROVE  \E j \in Matching : Rank(j) = i
<1> DEFINE m == Cardinality(Matching)
           ranks == 0 .. (m - 1)
           rank == [j \in Matching |-> Rank(j)]
<1>1. m \in Nat /\ IsFiniteSet(Matching)
  BY MatchingIsFinite
<1>2. rank \in Injection(Matching, ranks)
  BY RankIsMonotone DEF Injection, IsInjective
<1>3. IsFiniteSet(ranks) /\ Cardinality(ranks) = m
  <2>1. m - 1 \in Int /\ 0 \in Int /\ (m - 1) - 0 + 1 = m /\ (0 > m - 1 => m = 0)
    BY <1>1
  <2> HIDE DEF m
  <2>2. IsFiniteSet(ranks) /\ Cardinality(ranks) = IF 0 > m - 1 THEN 0 ELSE (m - 1) - 0 + 1
    BY <2>1, FS_Interval
  <2> QED
    BY <2>1, <2>2
<1>4. rank \in Surjection(Matching, ranks)
  <2> HIDE DEF rank, ranks, m
  <2> QED
    BY <1>1, <1>2, <1>3, FS_Injection, Zenon DEF m
<1> QED
  BY <1>4 DEF Surjection

\* Whenever more than n rows match, one has the rank n - 1: it is the last of the page
\* of n, which holds it and all that come before it.
LEMMA LastOfPage ==
    ASSUME TypeOK, NEW n \in PageSize, Cardinality(Matching) > n
    PROVE  \E last \in Matching :
              /\ EncodeCursor(Page(n)) = [t |-> posted[last], id |-> last]
              /\ Page(n) = {j \in Matching : j = last \/ Before(j, last)}
<1>1. n \in Nat /\ n > 0 /\ Cardinality(Matching) \in Nat
  BY PageAssumption, MatchingIsFinite
<1>2. PICK last \in Matching : Rank(last) = n - 1
  BY <1>1, RankIsOnto
<1>3. Page(n) = {j \in Matching : Rank(j) < n}
  BY DEF Page, Rank
<1>4. \A j \in Matching : Rank(j) < n <=> j = last \/ Before(j, last)
  <2> TAKE j \in Matching
  <2>1. Rank(j) \in Nat /\ (Before(j, last) <=> Rank(j) < Rank(last))
    BY RankIsMonotone
  <2>2. j # last => Rank(j) # Rank(last)
    BY RankIsMonotone
  <2> QED
    BY <1>1, <1>2, <2>1, <2>2
<1>5. Page(n) = {j \in Matching : j = last \/ Before(j, last)}
  BY <1>3, <1>4
<1>6. last \in Page(n) /\ \A k \in Page(n) \ {last} : Before(k, last)
  BY <1>5
<1>7. ASSUME NEW j \in Page(n), \A k \in Page(n) \ {j} : Before(k, j)
      PROVE  j = last
  BY <1>5, <1>6, <1>7, BeforeIsTotal, MatchingIsFinite
<1>8. EncodeCursor(Page(n)) = [t |-> posted[last], id |-> last]
  BY <1>6, <1>7 DEF EncodeCursor
<1> QED
  BY <1>5, <1>8

\* A result of at most n rows is one page: has_more is false.
LEMMA WholePage ==
    ASSUME TypeOK, NEW n \in PageSize, ~ (Cardinality(Matching) > n)
    PROVE  Page(n) = Matching
<1>1. \A j \in Matching : Rank(j) < n
  BY RankIsMonotone, MatchingIsFinite, PageAssumption
<1> QED
  BY <1>1 DEF Page, Rank

\* The limit is kept: a page has n rows, and fewer only when there are no more.
THEOREM PageIsFull ==
    ASSUME TypeOK, NEW n \in PageSize
    PROVE  Cardinality(Page(n)) =
              IF Cardinality(Matching) > n THEN n ELSE Cardinality(Matching)
<1> DEFINE rank == [j \in Page(n) |-> Rank(j)]
<1>1. n \in Nat /\ n > 0 /\ Cardinality(Matching) \in Nat
  BY PageAssumption, MatchingIsFinite
<1>2. CASE Cardinality(Matching) > n
  <2>1. Page(n) = {j \in Matching : Rank(j) < n}
    BY DEF Page, Rank
  <2>2. rank \in Injection(Page(n), 0 .. (n - 1))
    BY <1>1, <2>1, RankIsMonotone DEF Injection, IsInjective
  <2>3. rank \in Surjection(Page(n), 0 .. (n - 1))
    <3>1. \A i \in 0 .. (n - 1) : \E j \in Page(n) : rank[j] = i
      BY <1>1, <1>2, <2>1, RankIsOnto
    <3> QED
      BY <2>2, <3>1 DEF Injection, Surjection
  <2>4. IsFiniteSet(0 .. (n - 1)) /\ Cardinality(0 .. (n - 1)) = n
    <3>1. n - 1 \in Int /\ 0 \in Int /\ (n - 1) - 0 + 1 = n /\ ~ (0 > n - 1)
      BY <1>1
    <3> QED
      BY <3>1, FS_Interval
  <2> HIDE DEF rank
  <2> QED
    BY <1>2, <2>2, <2>3, <2>4, FS_Injection
<1> QED
  BY <1>2, WholePage

-----------------------------------------------------------------------------
(* The cursor **************************************************************)

\* A dated cursor is a place in the order: the condition list_jobs adds for it lets
\* through the dated rows that come strictly behind this place.
LEMMA CursorIsPlace ==
    ASSUME NEW c \in [t : Date, id : Job], NEW j \in Job, posted[j] \in Date
    PROVE  /\ c # NoCursor
           /\ AfterCursor(c, j) <=> posted[j] < c.t \/ (posted[j] = c.t /\ j < c.id)
<1>1. c.t \in Date /\ c.t # NoDate /\ posted[j] # NoDate
  BY DateAssumption
<1>2. c # NoCursor
  BY <1>1 DEF NoCursor
<1>3. AfterCursor(c, j) = DatedCursor(c, j)
  BY <1>1, <1>2 DEF AfterCursor
<1> QED
  BY <1>1, <1>2, <1>3 DEF DatedCursor

\* Without a cursor the list is read from its beginning.
LEMMA NoCursorIsStart == \A j \in Job : AfterCursor(NoCursor, j)
  BY DEF AfterCursor

\* A page with a next page moves the cursor to its last row: what is left for the
\* next page is the result without this page, and the cursor has moved on.
LEMMA PageMovesCursor ==
    ASSUME IInv, NEW n \in PageSize, Cardinality(Matching) > n
    PROVE  LET c == EncodeCursor(Page(n)) IN
           /\ c \in [t : Date, id : Job]
           /\ {j \in Listed : AfterCursor(c, j)} = Matching \ Page(n)
           /\ cursor # NoCursor => c.t < cursor.t \/ (c.t = cursor.t /\ c.id < cursor.id)
<1>1. TypeOK /\ DatedOK
  BY DEF IInv
<1>2. PICK last \in Matching :
         /\ EncodeCursor(Page(n)) = [t |-> posted[last], id |-> last]
         /\ Page(n) = {j \in Matching : j = last \/ Before(j, last)}
  BY <1>1, LastOfPage
<1> DEFINE c == EncodeCursor(Page(n))
<1>3. \A j \in Listed : j \in Job /\ j \in Nat /\ posted[j] \in Date /\ posted[j] \in Nat
  BY <1>1, MatchingIsFinite, JobAssumption, DateAssumption DEF DatedOK
<1>4. last \in Listed /\ AfterCursor(cursor, last)
  BY DEF Matching
<1>5. c \in [t : Date, id : Job] /\ c.t = posted[last] /\ c.id = last
  BY <1>2, <1>3, <1>4
<1>6. ASSUME NEW j \in Listed PROVE AfterCursor(c, j) <=> Before(last, j)
  BY <1>3, <1>4, <1>5, CursorIsPlace, DateAssumption DEF Before
<1>7. cursor # NoCursor => \/ posted[last] < cursor.t
                           \/ posted[last] = cursor.t /\ last < cursor.id
  BY <1>1, <1>3, <1>4, CursorIsPlace DEF DatedOK
<1>8. ASSUME NEW j \in Listed, AfterCursor(c, j) PROVE AfterCursor(cursor, j)
  <2>1. CASE cursor = NoCursor
    BY <2>1, <1>3, NoCursorIsStart
  <2>2. CASE cursor # NoCursor
    <3>1. cursor \in [t : Date, id : Job] /\ cursor.t \in Nat /\ cursor.id \in Nat
      BY <1>1, <2>2, DateAssumption, JobAssumption DEF DatedOK
    <3>2. posted[j] < c.t \/ (posted[j] = c.t /\ j < c.id)
      BY <1>3, <1>5, <1>8, CursorIsPlace
    <3>3. posted[j] < cursor.t \/ (posted[j] = cursor.t /\ j < cursor.id)
      BY <1>3, <1>4, <1>5, <1>7, <2>2, <3>1, <3>2
    <3> QED
      BY <1>3, <3>1, <3>3, CursorIsPlace
  <2> QED
    BY <2>1, <2>2
<1>9. {j \in Listed : AfterCursor(c, j)} = Matching \ Page(n)
  <2>1. ASSUME NEW j \in Matching PROVE j \notin Page(n) <=> Before(last, j)
    BY <1>1, <1>2, <2>1, BeforeIsTotal, MatchingIsFinite
  <2> QED
    BY <1>6, <1>8, <2>1 DEF Matching
<1> QED
  BY <1>5, <1>7, <1>9

-----------------------------------------------------------------------------
(* The walk ****************************************************************)

\* Every variable starts in its type.
LEMMA TypeInit == Init => TypeOK
<1> SUFFICES ASSUME Init PROVE TypeOK
  OBVIOUS
<1>1. posted \in [Job -> Date \cup {NoDate}] /\ returned \in [Job -> 0 .. 2]
  BY DEF Init
<1>2. cursor \in {NoCursor} \cup [t : Date \cup {NoDate}, id : Job]
  BY DEF Init
<1> QED
  BY <1>1, <1>2 DEF Init, TypeOK

\* What a commit of ingestion leaves of a posting: a row of the query or no row, and
\* a row with a date where every entry of a feed has one.
LEMMA IngestedRow ==
    ASSUME NEW new \in [Job -> Row], NEW j \in Job
    PROVE  /\ new[j].in \in BOOLEAN /\ new[j].closed \in BOOLEAN
           /\ new[j].closed => new[j].in
           /\ new[j].t \in Date \cup {NoDate}
           /\ ~ Undated /\ new[j].in => new[j].t \in Date
<1>1. new[j] \in Row
  OBVIOUS
<1>2. CASE new[j] = Absent
  BY <1>2 DEF Absent
<1>3. CASE new[j] \in [in : {TRUE}, closed : BOOLEAN, t : FeedDates]
  BY <1>3 DEF FeedDates
<1> QED
  BY <1>1, <1>2, <1>3 DEF Row

\* No step takes a variable out of its type, whatever the feeds leave undated.
LEMMA TypeStep ==
    ASSUME TypeOK, [Next]_vars
    PROVE  TypeOK'
<1>1. ASSUME NEW withClosed \in BOOLEAN, Begin(withClosed) PROVE TypeOK'
  BY <1>1 DEF TypeOK, Begin, table, NoCursor
<1>2. ASSUME NEW n \in PageSize, NextPage(n) PROVE TypeOK'
  <2>1. returned' \in [Job -> 0 .. 2]
    BY <1>2 DEF TypeOK, NextPage
  <2>2. cursor' \in {NoCursor} \cup [t : Date \cup {NoDate}, id : Job]
    BY <1>2, LastOfPage, MatchingIsFinite DEF TypeOK, NextPage
  <2>3. walk' \in {"idle", "walking", "done"}
    BY <1>2 DEF NextPage
  <2> QED
    BY <1>2, <2>1, <2>2, <2>3 DEF TypeOK, NextPage, table, NoCursor
<1>3. CASE Ingest
  <2>1. PICK new \in [Job -> Row] :
           /\ rows' = {j \in Job : new[j].in}
           /\ closed' = {j \in Job : new[j].closed}
           /\ posted' = [j \in Job |-> new[j].t]
           /\ stable' = {j \in stable : /\ new[j].in /\ new[j].t = posted[j]
                                        /\ new[j].closed => includeClosed}
    BY <1>3 DEF Ingest
  <2>2. UNCHANGED <<includeClosed, walk, cursor, returned>>
    BY <1>3 DEF Ingest, client
  <2> QED
    BY <2>1, <2>2, IngestedRow DEF TypeOK, NoCursor
<1>4. CASE UNCHANGED vars
  BY <1>4 DEF TypeOK, vars, NoCursor
<1> QED
  BY <1>1, <1>2, <1>3, <1>4 DEF Next

\* Before the walk nothing is listed and nothing returned.
LEMMA InitOK == Init => IInv
<1> SUFFICES ASSUME Init PROVE IInv
  OBVIOUS
<1>1. TypeOK
  BY TypeInit
<1>2. DatedOK /\ WalkOK
  BY DEF Init, DatedOK, WalkOK, Listed
<1> QED
  BY <1>1, <1>2 DEF IInv

\* The first page is read from the beginning.
LEMMA BeginStep ==
    ASSUME IInv, NEW withClosed \in BOOLEAN, Begin(withClosed)
    PROVE  IInv'
<1>1. TypeOK' /\ DatedOK'
  BY DEF IInv, TypeOK, DatedOK, Begin, table, NoCursor
<1>2. cursor' = NoCursor /\ walk' = "walking" /\ stable' = Listed' /\ stable' \subseteq Job
  BY MatchingIsFinite DEF IInv, TypeOK, WalkOK, Begin, table, Listed
<1>3. \A j \in Job : AfterCursor(cursor, j)' /\ returned'[j] = 0
  BY <1>2 DEF IInv, WalkOK, Begin, AfterCursor
<1> QED
  BY <1>1, <1>2, <1>3 DEF IInv, WalkOK

\* A page returns what the walk follows once, and leaves the rest to the next one.
LEMMA PageStep ==
    ASSUME IInv, NEW n \in PageSize, NextPage(n)
    PROVE  IInv'
<1>1. TypeOK /\ DatedOK /\ WalkOK /\ walk = "walking"
  BY DEF IInv, NextPage
<1>2. /\ UNCHANGED <<rows, closed, posted, includeClosed, stable>>
      /\ returned' \in [Job -> 0 .. 2]
      /\ \A j \in stable :
            returned'[j] = IF j \in Page(n) THEN returned[j] + 1 ELSE returned[j]
  BY <1>1, MatchingIsFinite DEF NextPage, table, TypeOK, WalkOK
<1>3. \A j \in stable : j \in Job /\ returned[j] = IF j \in Matching THEN 0 ELSE 1
  BY <1>1, MatchingIsFinite DEF WalkOK, Matching
<1>4. CASE Cardinality(Matching) > n
  <2>1. cursor' = EncodeCursor(Page(n)) /\ walk' = "walking"
    BY <1>1, <1>4 DEF NextPage
  <2>2. /\ cursor' \in [t : Date, id : Job]
        /\ {j \in Listed : AfterCursor(cursor', j)} = Matching \ Page(n)
    BY <1>4, <2>1, PageMovesCursor
  <2>3. ASSUME NEW j \in stable
        PROVE returned'[j] = IF AfterCursor(cursor', j) THEN 0 ELSE 1
    <3>1. AfterCursor(cursor', j) <=> j \in Matching /\ j \notin Page(n)
      BY <1>1, <2>2 DEF WalkOK
    <3>2. j \in Page(n) => j \in Matching
      BY DEF Page
    <3> QED
      BY <1>2, <1>3, <3>1, <3>2
  <2>4. \A j \in stable : AfterCursor(cursor', j) = AfterCursor(cursor, j)'
    BY <1>2 DEF AfterCursor, DatedCursor, UndatedCursor
  <2>5. WalkOK'
    BY <1>1, <1>2, <2>1, <2>3, <2>4 DEF WalkOK, Listed
  <2> QED
    BY <1>1, <1>2, <2>1, <2>2, <2>5 DEF IInv, TypeOK, DatedOK
<1>5. CASE ~ (Cardinality(Matching) > n)
  <2>1. cursor' = cursor /\ walk' = "done" /\ Page(n) = Matching
    BY <1>1, <1>5, WholePage DEF NextPage
  <2>2. \A j \in stable : returned'[j] = 1
    BY <1>2, <1>3, <2>1
  <2> QED
    BY <1>1, <1>2, <2>1, <2>2 DEF IInv, TypeOK, DatedOK, WalkOK, Listed
<1> QED
  BY <1>4, <1>5

\* The commit of a company moves no posting that keeps its date and stays listed.
LEMMA IngestStep ==
    ASSUME Undated = FALSE, IInv, Ingest
    PROVE  IInv'
<1>1. TypeOK /\ DatedOK /\ WalkOK
  BY DEF IInv
<1>2. PICK new \in [Job -> Row] :
         /\ \A j \in Job : new[j] \in {RowOf(j)} \cup Stored(j) \cup Closed(j)
         /\ rows' = {j \in Job : new[j].in}
         /\ closed' = {j \in Job : new[j].closed}
         /\ posted' = [j \in Job |-> new[j].t]
         /\ stable' = {j \in stable : /\ new[j].in /\ new[j].t = posted[j]
                                      /\ new[j].closed => includeClosed}
  BY DEF Ingest
<1>3. UNCHANGED <<includeClosed, walk, cursor, returned>>
  BY DEF Ingest, client
<1>4. ASSUME NEW j \in Job PROVE new[j].in => new[j].t \in Date
  BY IngestedRow
<1>5. TypeOK'
  BY <1>1, TypeStep DEF Next
<1>6. DatedOK'
  BY <1>1, <1>2, <1>3, <1>4 DEF DatedOK, NoCursor
<1>7. stable' \subseteq stable /\ stable' \subseteq Listed'
      /\ \A j \in stable' : posted'[j] = posted[j]
  BY <1>1, <1>2, <1>3, <1>4, MatchingIsFinite DEF WalkOK, Listed
<1>8. \A j \in stable' : AfterCursor(cursor, j)' = AfterCursor(cursor, j)
  BY <1>3, <1>7 DEF AfterCursor, DatedCursor, UndatedCursor, NoCursor
<1> QED
  BY <1>1, <1>3, <1>5, <1>6, <1>7, <1>8 DEF IInv, WalkOK

\* The inductive invariant is kept by every step.
LEMMA IInvStep ==
    ASSUME Undated = FALSE, IInv, [Next]_vars
    PROVE  IInv'
<1>1. CASE UNCHANGED vars
  BY <1>1 DEF vars, IInv, TypeOK, DatedOK, WalkOK, Listed, AfterCursor, DatedCursor,
              UndatedCursor
<1> QED
  BY <1>1, BeginStep, PageStep, IngestStep DEF Next

\* The inductive invariant holds throughout.
LEMMA Inductive ==
    ASSUME Undated = FALSE
    PROVE  Spec => []IInv
  BY InitOK, IInvStep, PTL DEF Spec

\* Every variable keeps its type, with and without undated postings: a page that has a
\* next page has a last row for encode_cursor to take.
THEOREM TypeCorrect == Spec => []TypeOK
  BY TypeInit, TypeStep, PTL DEF Spec

\* list_jobs never returns a posting twice that stays listed with its date, and has
\* returned it when it says that there is no more, whatever is inserted, re-dated,
\* closed or filtered out between the pages.
THEOREM ReturnedOnce ==
    ASSUME Undated = FALSE
    PROVE  Spec => []StableReturnedOnce
<1>1. IInv => StableReturnedOnce
  BY DEF IInv, TypeOK, WalkOK, StableReturnedOnce
<1> QED
  BY Inductive, <1>1, PTL

\* Each next_cursor is strictly behind the one before: no client that follows the
\* cursors of list_jobs is led in a circle.
THEOREM MovesOn ==
    ASSUME Undated = FALSE
    PROVE  Spec => CursorMovesOn
<1> DEFINE Moves == (walk' = "walking" /\ returned' # returned /\ cursor # NoCursor) =>
                       \/ cursor'.t < cursor.t
                       \/ cursor'.t = cursor.t /\ cursor'.id < cursor.id
<1>1. ASSUME IInv, NEW n \in PageSize, NextPage(n) PROVE Moves
  BY <1>1, PageMovesCursor DEF NextPage
<1>2. IInv /\ [Next]_vars => [Moves]_vars
  BY <1>1 DEF Next, Begin, Ingest, vars, client
<1> QED
  BY Inductive, <1>2, PTL DEF Spec, CursorMovesOn
=============================================================================
