----------------------------- MODULE Ingestion -----------------------------
(***************************************************************************)
(* The ingestion of job boards (app/services/ingestion.py): runs of        *)
(* POST /internal/ingest on one PostgreSQL database at READ COMMITTED.     *)
(*                                                                         *)
(* A run seeds the companies if there are none, fetches every board, and   *)
(* then persists one company after the other, each in a transaction of its *)
(* own: for every posting of the feed a SELECT and, flushed before the     *)
(* next statement, an INSERT or an UPDATE by primary key; then the SELECT  *)
(* of the open postings and the UPDATEs that close those the feed lacks.   *)
(* Nothing keeps two runs apart: the six-hourly schedule, a dispatch by    *)
(* hand and the first ingest the README asks for may overlap.              *)
(*                                                                         *)
(* Of a row of jobs only closed_at is kept; the texts and dates that are   *)
(* overwritten together with it are left out.                              *)
(***************************************************************************)
EXTENDS FiniteSets

CONSTANTS
    Run,          \* the requests to /internal/ingest; each is served once
    Company,      \* the active companies of the seed file
    Posting,      \* the possible rows of jobs: a company and a Greenhouse id
    CompanyOf,    \* the company of each posting
    NoUrl,        \* postings whose feed entry has no absolute_url
    Unreachable,  \* the answer of a board that could not be read
    None          \* no company, no posting

ASSUME CompanyAssumption == CompanyOf \in [Posting -> Company]
ASSUME NoUrlAssumption == NoUrl \subseteq Posting
ASSUME NoneAssumption == None \notin Company /\ None \notin Posting

VARIABLES
    seeded,    \* the companies table has rows
    job,       \* committed jobs: job[p] is "absent", "open" or "closed"
    pc,        \* pc[r]: how far r has come
    feed,      \* feed[r][c]: the postings of c r has fetched, or Unreachable
    todo,      \* todo[r]: companies r has yet to persist
    at,        \* at[r]: the company r is persisting
    left,      \* left[r]: postings of it still to read, then still to close
    pending,   \* pending[r]: the change r has made in memory and not flushed
    write,     \* write[r][p]: what r has flushed to p and not committed
    rivals     \* history: the runs that persisted at[r] while r did

run == <<feed, todo, at, rivals>>
vars == <<seeded, job, pc, feed, todo, at, left, pending, write, rivals>>

Working == {"seeding", "fetching", "next", "reading", "closing"}
Ended == {"done", "failed"}
NoChange == [row |-> None, kind |-> "none"]
NoWrites == [p \in Posting |-> "none"]
PostingsOf(c) == {p \in Posting : CompanyOf[p] = c}
Boards == {f \in [Company -> (SUBSET Posting) \cup {Unreachable}] :
               \A c \in Company : f[c] # Unreachable => f[c] \subseteq PostingsOf(c)}

\* Between two companies a run has nothing left to do, to flush or to commit.
TypeOK ==
    /\ seeded \in BOOLEAN
    /\ job \in [Posting -> {"absent", "open", "closed"}]
    /\ pc \in [Run -> Working \cup Ended \cup {"idle"}]
    /\ feed \in [Run -> Boards]
    /\ todo \in [Run -> SUBSET Company]
    /\ at \in [Run -> Company \cup {None}]
    /\ left \in [Run -> SUBSET Posting]
    /\ pending \in [Run -> [row : Posting \cup {None},
                            kind : {"none", "insert", "reopen", "touch"}]]
    /\ write \in [Run -> [Posting -> {"none", "touch", "open", "close"}]]
    /\ rivals \in [Run -> SUBSET Run]
    /\ \A r \in Run :
          /\ at[r] = None => left[r] = {} /\ pending[r] = NoChange /\ write[r] = NoWrites
          /\ (at[r] # None) <=> (pc[r] \in {"reading", "closing"})

\* The tables are new, or hold what earlier runs have left.
Init ==
    /\ \/ seeded = FALSE /\ job = [p \in Posting |-> "absent"]
       \/ seeded = TRUE /\ job \in [Posting -> {"absent", "open", "closed"}]
    /\ pc = [r \in Run |-> "idle"]
    /\ feed = [r \in Run |-> [c \in Company |-> Unreachable]]
    /\ todo = [r \in Run |-> {}]
    /\ at = [r \in Run |-> None]
    /\ left = [r \in Run |-> {}]
    /\ pending = [r \in Run |-> NoChange]
    /\ write = [r \in Run |-> NoWrites]
    /\ rivals = [r \in Run |-> {}]

-----------------------------------------------------------------------------
Goto(r, l) == pc' = [pc EXCEPT ![r] = l]
Usable(f) == f \ NoUrl
OpenPostings(c) == {p \in PostingsOf(c) : job[p] = "open"}

\* PostgreSQL's locks: no other transaction has a pending write to p, the pending
\* INSERT of the same company and Greenhouse id included (unique constraint).
Free(r, p) == \A s \in Run \ {r} : write[s][p] = "none"

(* ensure_seed_companies ***************************************************)

\* SELECT any company.
Start(r) ==
    /\ pc[r] = "idle"
    /\ Goto(r, IF seeded THEN "fetching" ELSE "seeding")
    /\ UNCHANGED <<seeded, job, run, left, pending, write>>

\* INSERT and COMMIT of the seed file; board tokens are unique, so the second of
\* two concurrent runs that both found no company fails.
Seed(r) ==
    /\ pc[r] = "seeding"
    /\ seeded' = TRUE
    /\ Goto(r, IF seeded THEN "failed" ELSE "fetching")
    /\ UNCHANGED <<job, run, left, pending, write>>

(* _fetch_all_boards *******************************************************)

\* gather() waits for every board.  A board may list any of its postings; the
\* companies whose board answers with an error are reported and skipped.
FetchBoards(r) ==
    /\ pc[r] = "fetching"
    /\ \E f \in Boards :
          /\ feed' = [feed EXCEPT ![r] = f]
          /\ todo' = [todo EXCEPT ![r] = {c \in Company : f[c] # Unreachable}]
    /\ Goto(r, "next")
    /\ UNCHANGED <<seeded, job, at, left, pending, write, rivals>>

(* ingest_company **********************************************************)

\* The next company of the list, which is in no promised order.
Begin(r, c) ==
    /\ pc[r] = "next"
    /\ c \in todo[r]
    /\ todo' = [todo EXCEPT ![r] = @ \ {c}]
    /\ at' = [at EXCEPT ![r] = c]
    /\ left' = [left EXCEPT ![r] = Usable(feed[r][c])]
    /\ rivals' = [s \in Run |-> CASE s = r                -> {x \in Run \ {r} : at[x] = c}
                                  [] s # r /\ at[s] = c   -> rivals[s] \cup {r}
                                  [] s # r /\ at[s] # c   -> rivals[s]]
    /\ Goto(r, "reading")
    /\ UNCHANGED <<seeded, job, feed, pending, write>>

\* Bug: closed_at of an existing row is left as it is.
Change_Bug(p) == IF job[p] = "absent" THEN "insert" ELSE "touch"

\* What the flush will do for posting p, decided by the row as it is now: SQLAlchemy
\* puts closed_at in the UPDATE only if the row it has loaded is closed.
Change(p) ==
    CASE job[p] = "absent" -> "insert"
      [] job[p] = "closed" -> "reopen"
      [] job[p] = "open"   -> "touch"

\* SELECT the row of the next posting of the feed and change it in memory.
Select(r, p) ==
    /\ pc[r] = "reading"
    /\ pending[r] = NoChange
    /\ p \in left[r]
    /\ left' = [left EXCEPT ![r] = @ \ {p}]
    /\ pending' = [pending EXCEPT ![r] = [row |-> p, kind |-> Change(p)]]
    /\ UNCHANGED <<seeded, job, pc, run, write>>

Written == [insert |-> "open", reopen |-> "open", touch |-> "touch"]

\* The flush that precedes the next statement: wait for the row, then write it.
Flush(r) ==
    LET p == pending[r].row
        kind == pending[r].kind
    IN  /\ pending[r] # NoChange
        /\ Free(r, p)
        /\ kind = "insert" => job[p] = "absent"
        /\ write' = [write EXCEPT ![r][p] = Written[kind]]
        /\ pending' = [pending EXCEPT ![r] = NoChange]
        /\ UNCHANGED <<seeded, job, pc, run, left>>

\* Bug: the postings of every company are looked at.
CloseScan_Bug(r) ==
    LET f == feed[r][at[r]] IN
    /\ pc[r] = "reading"
    /\ left[r] = {} /\ pending[r] = NoChange
    /\ left' = [left EXCEPT ![r] = IF Usable(f) = {} /\ f # {} THEN {}
                                   ELSE {p \in Posting : job[p] = "open"} \ Usable(f)]
    /\ Goto(r, "closing")
    /\ UNCHANGED <<seeded, job, run, pending, write>>

\* Find the open postings that the feed lacks: SELECT them and close them one by
\* one, or, for an empty feed, the bulk UPDATE.  A feed with entries but without a
\* usable one closes nothing.
CloseScan(r) ==
    LET f == feed[r][at[r]] IN
    /\ pc[r] = "reading"
    /\ left[r] = {} /\ pending[r] = NoChange
    /\ left' = [left EXCEPT ![r] = IF Usable(f) = {} /\ f # {} THEN {}
                                   ELSE OpenPostings(at[r]) \ Usable(f)]
    /\ Goto(r, "closing")
    /\ UNCHANGED <<seeded, job, run, pending, write>>

\* One UPDATE of closed_at, in an order this model leaves open.
CloseRow(r, p) ==
    /\ pc[r] = "closing"
    /\ p \in left[r]
    /\ Free(r, p)
    /\ left' = [left EXCEPT ![r] = @ \ {p}]
    /\ write' = [write EXCEPT ![r][p] = "close"]
    /\ UNCHANGED <<seeded, job, pc, run, pending>>

\* Bug: the transaction is left open after the last statement.
Commit_Bug(r) ==
    /\ pc[r] = "closing"
    /\ left[r] = {}
    /\ at' = [at EXCEPT ![r] = None]
    /\ Goto(r, "next")
    /\ UNCHANGED <<seeded, job, feed, todo, left, pending, write, rivals>>

\* COMMIT: every write to the company's postings becomes visible at once.
Commit(r) ==
    /\ pc[r] = "closing"
    /\ left[r] = {}
    /\ job' = [p \in Posting |-> CASE write[r][p] = "open"  -> "open"
                                   [] write[r][p] = "close" -> "closed"
                                   [] OTHER                 -> job[p]]
    /\ write' = [write EXCEPT ![r] = NoWrites]
    /\ at' = [at EXCEPT ![r] = None]
    /\ Goto(r, "next")
    /\ UNCHANGED <<seeded, feed, todo, left, pending, rivals>>

\* ingest_all returns its summary.
Finish(r) ==
    /\ pc[r] = "next"
    /\ todo[r] = {}
    /\ Goto(r, "done")
    /\ UNCHANGED <<seeded, job, run, left, pending, write>>

(* ROLLBACK ****************************************************************)

\* An exception nobody catches ends the run; the company in progress is rolled
\* back, the companies before it stay as they were committed.
Rollback(r) ==
    /\ Goto(r, "failed")
    /\ at' = [at EXCEPT ![r] = None]
    /\ left' = [left EXCEPT ![r] = {}]
    /\ pending' = [pending EXCEPT ![r] = NoChange]
    /\ write' = [write EXCEPT ![r] = NoWrites]
    /\ UNCHANGED <<seeded, job, feed, todo, rivals>>

\* The posting has been inserted by another run since r's SELECT: IntegrityError.
Duplicate(r) ==
    /\ pending[r].kind = "insert"
    /\ Free(r, pending[r].row)
    /\ job[pending[r].row] # "absent"
    /\ Rollback(r)

\* Anything else: a board whose answer is no JSON object, the database, the process.
Fail(r) == pc[r] \in Working /\ Rollback(r)

\* The rows r has to lock next, and the runs that may make it wait.
Wanted(r) == {p \in Posting : p = pending[r].row \/ (pc[r] = "closing" /\ p \in left[r])}
MayWaitFor(r, s) == r # s /\ \E p \in Wanted(r) : write[s][p] # "none"

\* PostgreSQL's deadlock detector aborts one of the transactions of a cycle.
DeadlockVictim(r) ==
    /\ \E D \in SUBSET {s \in Run : at[s] # None} :
          /\ r \in D
          /\ \A s \in D : /\ \E w \in D : MayWaitFor(s, w)
                          /\ \E w \in D : MayWaitFor(w, s)
    /\ Rollback(r)

\* Every run has ended.
AllEnded == (\A r \in Run : pc[r] \in Ended) /\ UNCHANGED vars

-----------------------------------------------------------------------------
Serve(r) ==
    \/ Seed(r)
    \/ FetchBoards(r)
    \/ \E c \in Company : Begin(r, c)
    \/ \E p \in Posting : Select(r, p)
    \/ Flush(r)
    \/ Duplicate(r)
    \/ CloseScan(r)
    \/ \E p \in Posting : CloseRow(r, p)
    \/ Commit(r)
    \/ Finish(r)
    \/ DeadlockVictim(r)

Next ==
    \/ \E r \in Run : Start(r) \/ Serve(r) \/ Fail(r)
    \/ AllEnded

Spec == Init /\ [][Next]_vars

\* Boards answer or time out (httpx), PostgreSQL grants a free lock; nobody has to
\* start a run and nothing has to fail.
FairSpec == Spec /\ \A r \in Run : WF_vars(Serve(r))

-----------------------------------------------------------------------------
(* Properties **************************************************************)

\* r ends its work on a company with a COMMIT.
Persists(r) == at[r] # None /\ at'[r] = None /\ pc'[r] # "failed"

\* The feed of run r says of posting p that it is open, or that it is closed.
SaysOpen(r, p) == feed[r][CompanyOf[p]] # Unreachable /\ p \in Usable(feed[r][CompanyOf[p]])
SaysClosed(r, p) ==
    LET f == feed[r][CompanyOf[p]] IN
    f # Unreachable /\ p \notin Usable(f) /\ (Usable(f) # {} \/ f = {})

\* A posting opens or closes only in the commit of a run that is persisting its
\* company and whose own feed of that company says so: a board that could not be
\* read, a failed run and the feeds of other companies change nothing.
ChangesComeFromFeeds ==
    [][\A p \in Posting : job[p] # job'[p] =>
          \E r \in Run : /\ Persists(r) /\ at[r] = CompanyOf[p]
                         /\ IF job'[p] = "open" THEN SaysOpen(r, p) ELSE SaysClosed(r, p)]_vars

\* What a commit leaves is what the feed says, posting by posting, unless another
\* run was persisting the same company at the same time and its feed says the
\* opposite.  In particular a run that no other overlaps leaves exactly its feed.
FeedDecidesUnlessContested ==
    [][\A r \in Run : Persists(r) =>
          \A p \in PostingsOf(at[r]) :
              /\ SaysOpen(r, p) /\ job'[p] # "open" => \E s \in rivals[r] : SaysClosed(s, p)
              /\ SaysClosed(r, p) /\ job'[p] = "open" => \E s \in rivals[r] : SaysOpen(s, p)]_vars

\* Every run that has started ends, whatever rows it has to wait for.
EveryRunEnds == \A r \in Run : pc[r] \in Working ~> pc[r] \in Ended

\* job-board-api-prd.md: "postings no longer present in a company's feed are marked
\* closed".  When all runs have succeeded, the open postings of a company are
\* those of one of the feeds.  The code does not do this for two runs that
\* persist the company at once: neither sees the postings the other one inserts.
OpenSetIsAFeed ==
    (\A r \in Run : pc[r] = "done") =>
        \A c \in Company :
            (\A r \in Run : feed[r][c] # Unreachable /\ Usable(feed[r][c]) # {}) =>
                \E r \in Run : OpenPostings(c) \subseteq Usable(feed[r][c])
=============================================================================
