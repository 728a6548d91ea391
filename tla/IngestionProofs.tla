-------------------------- MODULE IngestionProofs --------------------------
(***************************************************************************)
(* Theorems about Ingestion, for any runs, companies and postings.         *)
(*                                                                         *)
(* The two action properties speak of the moment of a COMMIT.  What makes  *)
(* them true is spread over the whole transaction before it: a posting of  *)
(* the feed is read, changed in memory, flushed and committed in four      *)
(* steps, and between any two of them another run may commit the opposite. *)
(* IInv says for every posting of the company in progress how far it has   *)
(* come and, once it has been read, that the committed row is still what   *)
(* was read or that a rival whose feed says the opposite is to blame.      *)
(***************************************************************************)
EXTENDS Ingestion, TLAPS

\* The boards of a run have been read once and for all.
Fetched(r) == pc[r] \notin {"idle", "seeding", "fetching"}

\* A run has fetched before it persists, and rivals of it have, too.
FeedsAreKept ==
    /\ \A r \in Run : \A c \in todo[r] : feed[r][c] # Unreachable
    /\ \A r \in Run : at[r] # None => feed[r][at[r]] # Unreachable
    /\ \A r \in Run : \A s \in rivals[r] : Fetched(s)

\* Two runs that persist the same company know of each other.
RivalsAreKnown ==
    \A r, s \in Run : r # s /\ at[r] # None /\ at[s] = at[r] => s \in rivals[r]

\* The postings still to read are in the feed; those still to close are not.
LeftOK ==
    \A r \in Run : \A p \in left[r] :
        /\ CompanyOf[p] = at[r]
        /\ pc[r] = "reading" => SaysOpen(r, p) /\ write[r][p] = "none"
        /\ pc[r] = "closing" => SaysClosed(r, p)

\* A change in memory is one of a posting of the feed that is not flushed.
ChangeFits(r) ==
    /\ pc[r] = "reading"
    /\ pending[r].kind \in {"insert", "reopen", "touch"}
    /\ pending[r].row \in Posting \ left[r]
    /\ CompanyOf[pending[r].row] = at[r]
    /\ SaysOpen(r, pending[r].row)
    /\ write[r][pending[r].row] = "none"

PendingOK == \A r \in Run : pending[r] # NoChange => ChangeFits(r)

\* What is written agrees with the feed.
WritesOK ==
    \A r \in Run, p \in Posting :
        /\ write[r][p] # "none" => CompanyOf[p] = at[r]
        /\ write[r][p] \in {"open", "touch"} => SaysOpen(r, p)
        /\ write[r][p] = "close" => pc[r] = "closing" /\ SaysClosed(r, p)

\* How far a posting of the feed has come: unread, about to be opened, opened, or
\* read as open, which a rival may have undone.
OpensSoFar(r, p) ==
    \/ pc[r] = "reading" /\ p \in left[r]
    \/ pending[r].row = p /\ pending[r].kind \in {"insert", "reopen"}
    \/ write[r][p] = "open"
    \/ job[p] = "open"
    \/ \E s \in rivals[r] : SaysClosed(s, p)

OpenDecided ==
    \A r \in Run, p \in Posting : at[r] = CompanyOf[p] /\ SaysOpen(r, p) => OpensSoFar(r, p)

\* How far a posting that the feed lacks has come: about to be closed, closed, or
\* read as not open, which a rival may have undone.
ClosesSoFar(r, p) ==
    \/ p \in left[r]
    \/ write[r][p] = "close"
    \/ job[p] # "open"
    \/ \E s \in rivals[r] : SaysOpen(s, p)

ClosedDecided ==
    \A r \in Run, p \in Posting :
        pc[r] = "closing" /\ at[r] = CompanyOf[p] /\ SaysClosed(r, p) => ClosesSoFar(r, p)

IInv ==
    /\ TypeOK
    /\ FeedsAreKept
    /\ RivalsAreKnown
    /\ LeftOK
    /\ PendingOK
    /\ WritesOK
    /\ OpenDecided
    /\ ClosedDecided

-----------------------------------------------------------------------------
(* The steps of a run: whatever ends it early is a rollback.               *)

Step(r) ==
    \/ Start(r)
    \/ Seed(r)
    \/ FetchBoards(r)
    \/ \E c \in Company : Begin(r, c)
    \/ \E p \in Posting : Select(r, p)
    \/ Flush(r)
    \/ CloseScan(r)
    \/ \E p \in Posting : CloseRow(r, p)
    \/ Commit(r)
    \/ Finish(r)
    \/ Rollback(r)

\* Every step is one of a run, or nothing happens.
LEMMA StepsOfRuns ==
    ASSUME [Next]_vars
    PROVE  (\E r \in Run : Step(r)) \/ UNCHANGED vars
BY DEF Next, Serve, Step, Duplicate, Fail, DeadlockVictim, AllEnded

\* A run at no company is not at that of a posting.
LEMMA NoneIsNoCompany ==
    \A p \in Posting : CompanyOf[p] \in Company /\ CompanyOf[p] # None
BY CompanyAssumption, NoneAssumption

\* What a feed says of a posting depends on the feed alone.
LEMMA SameFeedSaysTheSame ==
    ASSUME NEW r, NEW p, feed'[r] = feed[r]
    PROVE  (SaysOpen(r, p)' <=> SaysOpen(r, p)) /\ (SaysClosed(r, p)' <=> SaysClosed(r, p))
BY DEF SaysOpen, SaysClosed, Usable

\* A feed does not say both.
LEMMA FeedsAreConsistent ==
    ASSUME NEW r, NEW p
    PROVE  ~ (SaysOpen(r, p) /\ SaysClosed(r, p))
BY DEF SaysOpen, SaysClosed

\* What a SELECT decides.
LEMMA ChangeFollowsTheRow ==
    ASSUME NEW p \in Posting, job[p] \in {"absent", "open", "closed"}
    PROVE  /\ Change(p) \in {"insert", "reopen", "touch"}
           /\ Change(p) = "touch" => job[p] = "open"
<1>1. CASE job[p] = "absent"
  BY <1>1 DEF Change
<1>2. CASE job[p] = "closed"
  BY <1>2 DEF Change
<1>3. CASE job[p] = "open"
  BY <1>3 DEF Change
<1> QED
  BY <1>1, <1>2, <1>3

\* Whom a run that turns to a company counts among its rivals, and who counts it.
LEMMA BeginMakesRivals ==
    ASSUME NEW r \in Run, NEW c \in Company, Begin(r, c)
    PROVE  \A s, x : s \in Run =>
             (x \in rivals'[s] <=> IF s = r THEN x \in Run \ {r} /\ at[x] = c
                                   ELSE x \in rivals[s] \/ (x = r /\ at[s] = c))
<1>1. rivals' = [s \in Run |-> CASE s = r              -> {x \in Run \ {r} : at[x] = c}
                                 [] s # r /\ at[s] = c -> rivals[s] \cup {r}
                                 [] s # r /\ at[s] # c -> rivals[s]]
  BY DEF Begin
<1>2. rivals'[r] = {x \in Run \ {r} : at[x] = c}
  BY <1>1
<1>3. ASSUME NEW s \in Run, s # r, at[s] = c PROVE rivals'[s] = rivals[s] \cup {r}
  BY <1>1, <1>3
<1>4. ASSUME NEW s \in Run, s # r, at[s] # c PROVE rivals'[s] = rivals[s]
  BY <1>1, <1>4
<1> SUFFICES ASSUME NEW s \in Run, NEW x
             PROVE  x \in rivals'[s] <=> IF s = r THEN x \in Run \ {r} /\ at[x] = c
                                         ELSE x \in rivals[s] \/ (x = r /\ at[s] = c)
  OBVIOUS
<1> HIDE <1>1
<1>5. CASE s = r
  BY <1>2, <1>5
<1>6. CASE s # r /\ at[s] = c
  BY <1>3, <1>6
<1>7. CASE s # r /\ at[s] # c
  BY <1>4, <1>7
<1> QED
  BY <1>5, <1>6, <1>7

\* What a COMMIT makes of a row.
LEMMA CommitWritesRows ==
    ASSUME NEW r \in Run, Commit(r)
    PROVE  /\ DOMAIN job' = Posting
           /\ \A p \in Posting : /\ write[r][p] = "open" => job'[p] = "open"
                                 /\ write[r][p] = "close" => job'[p] = "closed"
                                 /\ write[r][p] \notin {"open", "close"} => job'[p] = job[p]
<1>1. job' = [p \in Posting |-> CASE write[r][p] = "open"  -> "open"
                                  [] write[r][p] = "close" -> "closed"
                                  [] OTHER                 -> job[p]]
  BY DEF Commit
<1>2. ASSUME NEW p \in Posting, write[r][p] = "open" PROVE job'[p] = "open"
  BY <1>1, <1>2
<1>3. ASSUME NEW p \in Posting, write[r][p] = "close" PROVE job'[p] = "closed"
  BY <1>1, <1>3
<1>4. ASSUME NEW p \in Posting, write[r][p] \notin {"open", "close"} PROVE job'[p] = job[p]
  BY <1>1, <1>4
<1> QED
  BY <1>1, <1>2, <1>3, <1>4

\* A board lists postings of its company.
LEMMA FeedsListPostings ==
    ASSUME TypeOK, NEW r \in Run, NEW c \in Company, feed[r][c] # Unreachable
    PROVE  feed[r][c] \subseteq PostingsOf(c) /\ Usable(feed[r][c]) \subseteq PostingsOf(c)
BY DEF TypeOK, Boards, Usable

\* The variables have their types before the first run.
LEMMA TypeInitially == Init => TypeOK
<1> SUFFICES ASSUME Init PROVE TypeOK
  OBVIOUS
<1>1. /\ seeded \in BOOLEAN
      /\ job \in [Posting -> {"absent", "open", "closed"}]
  BY DEF Init
<1>2. feed \in [Run -> Boards]
  <2>1. [c \in Company |-> Unreachable] \in Boards
    BY DEF Boards
  <2> QED
    BY <2>1 DEF Init
<1>3. \A r \in Run : /\ pc[r] = "idle" /\ at[r] = None /\ left[r] = {}
                     /\ pending[r] = NoChange /\ write[r] = NoWrites
  BY DEF Init
<1>4. /\ pc \in [Run -> Working \cup Ended \cup {"idle"}]
      /\ todo \in [Run -> SUBSET Company]
      /\ at \in [Run -> Company \cup {None}]
      /\ left \in [Run -> SUBSET Posting]
      /\ rivals \in [Run -> SUBSET Run]
  BY DEF Init
<1>5. pending \in [Run -> [row : Posting \cup {None},
                           kind : {"none", "insert", "reopen", "touch"}]]
  BY DEF Init, NoChange
<1>6. write \in [Run -> [Posting -> {"none", "touch", "open", "close"}]]
  BY DEF Init, NoWrites
<1> QED
  BY <1>1, <1>2, <1>3, <1>4, <1>5, <1>6 DEF TypeOK

\* No step takes a variable out of its type.
LEMMA TypeStep ==
    ASSUME IInv, NEW r \in Run, Step(r)
    PROVE  TypeOK'
<1> USE DEF IInv, Working, Ended
<1> USE NoneAssumption
<1>1. CASE Start(r)
  BY <1>1 DEF Start, TypeOK, Goto, run
<1>2. CASE Seed(r)
  BY <1>2 DEF Seed, TypeOK, Goto, run
<1>3. CASE FetchBoards(r)
  BY <1>3 DEF FetchBoards, TypeOK, Goto
<1>4. ASSUME NEW c \in Company, Begin(r, c) PROVE TypeOK'
  <2>1. left' \in [Run -> SUBSET Posting]
    <3>1. Usable(feed[r][c]) \subseteq Posting
      BY <1>4, FeedsListPostings DEF Begin, FeedsAreKept, PostingsOf
    <3> QED
      BY <1>4, <3>1 DEF Begin, TypeOK
  <2>2. rivals' \in [Run -> SUBSET Run]
    BY <1>4 DEF Begin, TypeOK
  <2>3. /\ todo' \in [Run -> SUBSET Company]
        /\ at' \in [Run -> Company \cup {None}]
        /\ pc' \in [Run -> Working \cup Ended \cup {"idle"}]
    BY <1>4 DEF Begin, TypeOK, Goto
  <2>4. ASSUME NEW q \in Run
        PROVE  /\ at'[q] = None =>
                   left'[q] = {} /\ pending'[q] = NoChange /\ write'[q] = NoWrites
               /\ (at'[q] # None) <=> (pc'[q] \in {"reading", "closing"})
    BY <1>4 DEF Begin, TypeOK, Goto
  <2> QED
    BY <1>4, <2>1, <2>2, <2>3, <2>4 DEF Begin, TypeOK
<1>5. ASSUME NEW p \in Posting, Select(r, p) PROVE TypeOK'
  BY <1>5, ChangeFollowsTheRow DEF Select, TypeOK, run
<1>6. CASE Flush(r)
  <2>1. Written[pending[r].kind] \in {"none", "touch", "open", "close"} /\ pc[r] = "reading"
    BY <1>6 DEF Flush, PendingOK, ChangeFits, Written
  <2>2. write' \in [Run -> [Posting -> {"none", "touch", "open", "close"}]]
    BY <1>6, <2>1 DEF Flush, TypeOK
  <2>3. pending' \in [Run -> [row : Posting \cup {None},
                              kind : {"none", "insert", "reopen", "touch"}]]
    BY <1>6 DEF Flush, TypeOK, NoChange
  <2>4. ASSUME NEW q \in Run
        PROVE  /\ at[q] = None => pending'[q] = NoChange /\ write'[q] = NoWrites
    BY <1>6, <2>1 DEF Flush, TypeOK
  <2> QED
    BY <1>6, <2>2, <2>3, <2>4 DEF Flush, TypeOK, run
<1>7. CASE CloseScan(r)
  <2>1. left' \in [Run -> SUBSET Posting]
    BY <1>7 DEF CloseScan, TypeOK, OpenPostings, PostingsOf
  <2>2. pc' \in [Run -> Working \cup Ended \cup {"idle"}]
    BY <1>7 DEF CloseScan, TypeOK, Goto
  <2>3. ASSUME NEW q \in Run
        PROVE  /\ at[q] = None => left'[q] = {}
               /\ (at[q] # None) <=> (pc'[q] \in {"reading", "closing"})
    BY <1>7 DEF CloseScan, TypeOK, Goto
  <2> QED
    BY <1>7, <2>1, <2>2, <2>3 DEF CloseScan, TypeOK, run
<1>8. ASSUME NEW p \in Posting, CloseRow(r, p) PROVE TypeOK'
  BY <1>8 DEF CloseRow, TypeOK, run
<1>9. CASE Commit(r)
  <2>1. job' \in [Posting -> {"absent", "open", "closed"}]
    <3>1. \A p \in Posting : job'[p] \in {"absent", "open", "closed"}
      BY <1>9, CommitWritesRows DEF TypeOK
    <3>2. job' = [p \in Posting |-> job'[p]]
      BY <1>9 DEF Commit
    <3> QED
      BY <3>1, <3>2
  <2>2. write' \in [Run -> [Posting -> {"none", "touch", "open", "close"}]]
    BY <1>9 DEF Commit, TypeOK, NoWrites
  <2>3. /\ at' \in [Run -> Company \cup {None}]
        /\ pc' \in [Run -> Working \cup Ended \cup {"idle"}]
    BY <1>9 DEF Commit, TypeOK, Goto
  <2>4. pending[r] = NoChange
    BY <1>9 DEF Commit, PendingOK, ChangeFits
  <2>5. ASSUME NEW q \in Run
        PROVE  /\ at'[q] = None =>
                   left[q] = {} /\ pending[q] = NoChange /\ write'[q] = NoWrites
               /\ (at'[q] # None) <=> (pc'[q] \in {"reading", "closing"})
    BY <1>9, <2>4 DEF Commit, TypeOK, Goto
  <2> QED
    BY <1>9, <2>1, <2>2, <2>3, <2>5 DEF Commit, TypeOK
<1>10. CASE Finish(r)
  BY <1>10 DEF Finish, TypeOK, Goto, run
<1>11. CASE Rollback(r)
  <2>1. /\ at' \in [Run -> Company \cup {None}]
        /\ pc' \in [Run -> Working \cup Ended \cup {"idle"}]
        /\ left' \in [Run -> SUBSET Posting]
    BY <1>11 DEF Rollback, TypeOK, Goto
  <2>2. pending' \in [Run -> [row : Posting \cup {None},
                              kind : {"none", "insert", "reopen", "touch"}]]
    BY <1>11 DEF Rollback, TypeOK, NoChange
  <2>3. write' \in [Run -> [Posting -> {"none", "touch", "open", "close"}]]
    BY <1>11 DEF Rollback, TypeOK, NoWrites
  <2>4. ASSUME NEW q \in Run
        PROVE  /\ at'[q] = None =>
                   left'[q] = {} /\ pending'[q] = NoChange /\ write'[q] = NoWrites
               /\ (at'[q] # None) <=> (pc'[q] \in {"reading", "closing"})
    BY <1>11 DEF Rollback, TypeOK, Goto
  <2> QED
    BY <1>11, <2>1, <2>2, <2>3, <2>4 DEF Rollback, TypeOK
<1> QED
  BY <1>1, <1>2, <1>3, <1>4, <1>5, <1>6, <1>7, <1>8, <1>9, <1>10, <1>11 DEF Step

-----------------------------------------------------------------------------
(* What a step leaves alone                                                *)

\* A step of one run leaves the other runs where they are.
LEMMA OthersStay ==
    ASSUME IInv, NEW r \in Run, Step(r), NEW q \in Run, q # r
    PROVE  /\ pc'[q] = pc[q] /\ feed'[q] = feed[q] /\ at'[q] = at[q] /\ todo'[q] = todo[q]
           /\ left'[q] = left[q] /\ pending'[q] = pending[q] /\ write'[q] = write[q]
<1> USE DEF IInv, TypeOK, Goto, run
<1>1. CASE Start(r)
  BY <1>1 DEF Start
<1>2. CASE Seed(r)
  BY <1>2 DEF Seed
<1>3. CASE FetchBoards(r)
  BY <1>3 DEF FetchBoards
<1>4. CASE \E c \in Company : Begin(r, c)
  BY <1>4 DEF Begin
<1>5. CASE \E p \in Posting : Select(r, p)
  BY <1>5 DEF Select
<1>6. CASE Flush(r)
  BY <1>6 DEF Flush
<1>7. CASE CloseScan(r)
  BY <1>7 DEF CloseScan
<1>8. CASE \E p \in Posting : CloseRow(r, p)
  BY <1>8 DEF CloseRow
<1>9. CASE Commit(r)
  BY <1>9 DEF Commit
<1>10. CASE Finish(r)
  BY <1>10 DEF Finish
<1>11. CASE Rollback(r)
  BY <1>11 DEF Rollback
<1> QED
  BY <1>1, <1>2, <1>3, <1>4, <1>5, <1>6, <1>7, <1>8, <1>9, <1>10, <1>11 DEF Step

\* A run reads the boards once.
LEMMA FeedsStay ==
    ASSUME IInv, NEW r \in Run, Step(r), NEW q \in Run, Fetched(q)
    PROVE  Fetched(q)' /\ feed'[q] = feed[q]
<1>1. CASE q # r
  BY <1>1, OthersStay DEF Fetched
<1>2. CASE q = r
  <2> USE <1>2 DEF IInv, TypeOK, Goto, run, Fetched
  <2>1. ~ Start(r) /\ ~ Seed(r) /\ ~ FetchBoards(r)
    BY DEF Start, Seed, FetchBoards
  <2>2. CASE \E c \in Company : Begin(r, c)
    BY <2>2 DEF Begin
  <2>3. CASE \E p \in Posting : Select(r, p)
    BY <2>3 DEF Select
  <2>4. CASE Flush(r)
    BY <2>4 DEF Flush
  <2>5. CASE CloseScan(r)
    BY <2>5 DEF CloseScan
  <2>6. CASE \E p \in Posting : CloseRow(r, p)
    BY <2>6 DEF CloseRow
  <2>7. CASE Commit(r)
    BY <2>7 DEF Commit
  <2>8. CASE Finish(r)
    BY <2>8 DEF Finish
  <2>9. CASE Rollback(r)
    BY <2>9 DEF Rollback
  <2> QED
    BY <2>1, <2>2, <2>3, <2>4, <2>5, <2>6, <2>7, <2>8, <2>9 DEF Step
<1> QED
  BY <1>1, <1>2

\* The rivals a run has counted stay its rivals, and their feeds say what they said,
\* until the run turns to its next company.
LEMMA RivalsStay ==
    ASSUME IInv, NEW r \in Run, Step(r), NEW q \in Run,
           ~ \E c \in Company : q = r /\ Begin(r, c),
           NEW s \in rivals[q]
    PROVE  /\ s \in rivals'[q] /\ s \in Run
           /\ \A p \in Posting : /\ SaysOpen(s, p) => SaysOpen(s, p)'
                                 /\ SaysClosed(s, p) => SaysClosed(s, p)'
<1>1. s \in Run
  BY DEF IInv, TypeOK
<1>2. feed'[s] = feed[s]
  BY <1>1, FeedsStay DEF IInv, FeedsAreKept
<1>3. s \in rivals'[q]
  <2>1. ASSUME NEW c \in Company, Begin(r, c) PROVE s \in rivals'[q]
    BY <2>1, BeginMakesRivals
  <2>2. CASE ~ \E c \in Company : Begin(r, c)
    BY <2>2 DEF Step, Start, Seed, FetchBoards, Select, Flush, CloseScan, CloseRow, Commit,
                Finish, Rollback, run
  <2> QED
    BY <2>1, <2>2
<1> QED
  BY <1>1, <1>2, <1>3, SameFeedSaysTheSame

-----------------------------------------------------------------------------
(* The parts of the invariant, step by step                                *)

\* Feeds are fetched once, and only what was fetched is persisted.
LEMMA FeedsStep ==
    ASSUME IInv, NEW r \in Run, Step(r)
    PROVE  FeedsAreKept'
<1> USE DEF IInv
<1>1. ASSUME NEW q \in Run, q # r
      PROVE  /\ \A c \in todo'[q] : feed'[q][c] # Unreachable
             /\ at'[q] # None => feed'[q][at'[q]] # Unreachable
  BY <1>1, OthersStay DEF FeedsAreKept
<1>2. /\ \A c \in todo'[r] : feed'[r][c] # Unreachable
      /\ at'[r] # None => feed'[r][at'[r]] # Unreachable
  <2> USE DEF TypeOK, FeedsAreKept, run
  <2>1. CASE Start(r)
    BY <2>1 DEF Start
  <2>2. CASE Seed(r)
    BY <2>2 DEF Seed
  <2>3. CASE FetchBoards(r)
    <3>1. PICK f \in Boards :
              /\ feed' = [feed EXCEPT ![r] = f]
              /\ todo' = [todo EXCEPT ![r] = {c \in Company : f[c] # Unreachable}]
      BY <2>3 DEF FetchBoards
    <3>2. at'[r] = None
      BY <2>3 DEF FetchBoards
    <3>3. feed'[r] = f /\ todo'[r] = {c \in Company : f[c] # Unreachable}
      BY <3>1
    <3> QED
      BY <3>2, <3>3
  <2>4. CASE \E c \in Company : Begin(r, c)
    BY <2>4 DEF Begin
  <2>5. CASE \E p \in Posting : Select(r, p)
    BY <2>5 DEF Select
  <2>6. CASE Flush(r)
    BY <2>6 DEF Flush
  <2>7. CASE CloseScan(r)
    BY <2>7 DEF CloseScan
  <2>8. CASE \E p \in Posting : CloseRow(r, p)
    BY <2>8 DEF CloseRow
  <2>9. CASE Commit(r)
    BY <2>9 DEF Commit
  <2>10. CASE Finish(r)
    BY <2>10 DEF Finish
  <2>11. CASE Rollback(r)
    BY <2>11 DEF Rollback
  <2> QED
    BY <2>1, <2>2, <2>3, <2>4, <2>5, <2>6, <2>7, <2>8, <2>9, <2>10, <2>11 DEF Step
<1>3. ASSUME NEW q \in Run, NEW s \in rivals'[q] PROVE Fetched(s)'
  <2>1. CASE s \in rivals[q]
    BY <2>1, FeedsStay DEF TypeOK, FeedsAreKept
  <2>2. CASE s \notin rivals[q]
    <3>1. PICK c \in Company : Begin(r, c)
      BY <2>2, <1>3 DEF Step, Start, Seed, FetchBoards, Select, Flush, CloseScan, CloseRow,
                        Commit, Finish, Rollback, run
    <3>2. s = r \/ (s \in Run \ {r} /\ at[s] = c)
      <4>1. \A x : x \in rivals'[q] <=> IF q = r THEN x \in Run \ {r} /\ at[x] = c
                                        ELSE x \in rivals[q] \/ (x = r /\ at[q] = c)
        BY <3>1, <1>3, BeginMakesRivals
      <4> QED
        BY <4>1, <2>2, <1>3
    <3>3. pc'[r] = "reading" /\ (at[s] = c => pc[s] \in {"reading", "closing"})
      BY <3>1, <3>2, NoneAssumption DEF Begin, Goto, TypeOK
    <3> QED
      BY <3>2, <3>3, OthersStay DEF Fetched
  <2> QED
    BY <2>1, <2>2
<1> QED
  BY <1>1, <1>2, <1>3 DEF FeedsAreKept

\* The run that begins second tells the first, and knows of it.
LEMMA RivalsStep ==
    ASSUME IInv, NEW r \in Run, Step(r)
    PROVE  RivalsAreKnown'
<1> SUFFICES ASSUME NEW x \in Run, NEW y \in Run, x # y, at'[x] # None, at'[y] = at'[x]
             PROVE  y \in rivals'[x]
  BY DEF RivalsAreKnown
<1> USE DEF IInv
<1>1. ASSUME NEW c \in Company, Begin(r, c) PROVE y \in rivals'[x]
  <2>1. at' = [at EXCEPT ![r] = c] /\ at \in [Run -> Company \cup {None}]
    BY <1>1 DEF Begin, TypeOK
  <2>2. CASE x = r
    BY <2>1, <2>2, <1>1, BeginMakesRivals
  <2>3. CASE y = r
    BY <2>1, <2>3, <1>1, BeginMakesRivals
  <2>4. CASE x # r /\ y # r
    BY <2>1, <2>4, <1>1, BeginMakesRivals DEF RivalsAreKnown
  <2> QED
    BY <2>2, <2>3, <2>4
<1>2. CASE ~ \E c \in Company : Begin(r, c)
  <2>1. rivals' = rivals
    BY <1>2 DEF Step, Start, Seed, FetchBoards, Select, Flush, CloseScan, CloseRow, Commit,
                Finish, Rollback, run
  <2>2. at' = at \/ at' = [at EXCEPT ![r] = None]
    BY <1>2 DEF Step, Start, Seed, FetchBoards, Select, Flush, CloseScan, CloseRow, Commit,
                Finish, Rollback, run
  <2>3. at[x] = at'[x] /\ at[y] = at'[y]
    BY <2>2 DEF TypeOK
  <2> QED
    BY <2>1, <2>3 DEF RivalsAreKnown
<1> QED
  BY <1>1, <1>2

\* What is left to read comes from the feed, what is left to close from the close scan.
LEMMA LeftStep ==
    ASSUME IInv, NEW r \in Run, Step(r)
    PROVE  LeftOK'
<1> SUFFICES ASSUME NEW q \in Run, NEW p \in left'[q]
             PROVE  /\ CompanyOf[p] = at'[q]
                    /\ pc'[q] = "reading" => SaysOpen(q, p)' /\ write'[q][p] = "none"
                    /\ pc'[q] = "closing" => SaysClosed(q, p)'
  BY DEF LeftOK
<1> USE DEF IInv
<1>1. CASE q # r
  BY <1>1, OthersStay, SameFeedSaysTheSame DEF LeftOK
<1>2. CASE q = r
  <2> USE <1>2 DEF TypeOK, LeftOK
  <2>1. CASE Start(r) \/ Seed(r) \/ FetchBoards(r) \/ Finish(r)
    BY <2>1 DEF Start, Seed, FetchBoards, Finish, run
  <2>2. ASSUME NEW c \in Company, Begin(r, c) PROVE CompanyOf[p] = at'[r] /\ SaysOpen(r, p)'
    <3>1. feed[r][c] # Unreachable /\ p \in Usable(feed[r][c])
      BY <2>2 DEF Begin, FeedsAreKept
    <3>2. CompanyOf[p] = c
      BY <3>1, FeedsListPostings DEF PostingsOf
    <3> QED
      BY <2>2, <3>1, <3>2 DEF Begin, SaysOpen, Usable
  <2>3. CASE \E c \in Company : Begin(r, c)
    <3>1. p \in Posting
      BY TypeStep
    <3>2. write[r] = NoWrites
      BY <2>3, NoneAssumption DEF Begin
    <3>3. write'[r][p] = "none" /\ pc'[r] = "reading"
      BY <2>3, <3>1, <3>2 DEF Begin, Goto, NoWrites
    <3> QED
      BY <2>2, <2>3, <3>3
  <2>4. CASE \E x \in Posting : Select(r, x)
    BY <2>4, SameFeedSaysTheSame DEF Select, run
  <2>5. CASE Flush(r)
    BY <2>5, SameFeedSaysTheSame DEF Flush, PendingOK, ChangeFits, run
  <2>6. CASE CloseScan(r)
    <3>1. /\ CompanyOf[p] = at[r]
          /\ p \notin Usable(feed[r][at[r]])
          /\ Usable(feed[r][at[r]]) # {} \/ feed[r][at[r]] = {}
      BY <2>6 DEF CloseScan, OpenPostings, PostingsOf
    <3>2. feed[r][at[r]] # Unreachable
      BY <2>6 DEF CloseScan, FeedsAreKept
    <3>3. SaysClosed(r, p)
      BY <3>1, <3>2 DEF SaysClosed
    <3>4. feed'[r] = feed[r] /\ at'[r] = at[r] /\ pc'[r] = "closing"
      BY <2>6 DEF CloseScan, Goto, run
    <3> QED
      BY <3>1, <3>3, <3>4, SameFeedSaysTheSame
  <2>7. CASE \E x \in Posting : CloseRow(r, x)
    BY <2>7, SameFeedSaysTheSame DEF CloseRow, run
  <2>8. CASE Commit(r) \/ Rollback(r)
    BY <2>8 DEF Commit, Rollback
  <2> QED
    BY <2>1, <2>3, <2>4, <2>5, <2>6, <2>7, <2>8 DEF Step
<1> QED
  BY <1>1, <1>2

\* A change in memory is made by a read of the feed and gone after its flush.
LEMMA PendingStep ==
    ASSUME IInv, NEW r \in Run, Step(r)
    PROVE  PendingOK'
<1> SUFFICES ASSUME NEW q \in Run, pending'[q] # NoChange
             PROVE  ChangeFits(q)'
  BY DEF PendingOK, NoChange
<1> USE DEF IInv
<1>1. CASE q # r
  <2>1. pending[q] # NoChange /\ pending'[q] = pending[q] /\ feed'[q] = feed[q]
    BY <1>1, OthersStay
  <2>2. ChangeFits(q)
    BY <2>1 DEF PendingOK
  <2>3. SaysOpen(q, pending[q].row) => SaysOpen(q, pending[q].row)'
    BY <2>1 DEF SaysOpen, Usable
  <2> QED
    BY <1>1, <2>1, <2>2, <2>3, OthersStay DEF ChangeFits
<1>2. CASE q = r
  <2> USE <1>2 DEF TypeOK
  <2>1. CASE \/ Start(r) \/ Seed(r) \/ FetchBoards(r) \/ Finish(r)
             \/ \E c \in Company : Begin(r, c)
    BY <2>1 DEF Start, Seed, FetchBoards, Finish, Begin, PendingOK, ChangeFits
  <2>2. ASSUME NEW x \in Posting, Select(r, x) PROVE ChangeFits(r)'
    <3>1. pending'[r] = [row |-> x, kind |-> Change(x)] /\ x \notin left'[r]
          /\ x \in left[r]
      BY <2>2 DEF Select
    <3>2. Change(x) \in {"insert", "reopen", "touch"}
      BY ChangeFollowsTheRow
    <3>3. pc'[r] = "reading" /\ pc[r] = "reading" /\ feed'[r] = feed[r] /\ at'[r] = at[r]
          /\ write'[r] = write[r]
      BY <2>2 DEF Select, run
    <3>4. CompanyOf[x] = at[r] /\ SaysOpen(r, x) /\ write[r][x] = "none"
      BY <3>1, <3>3 DEF LeftOK
    <3>5. pending'[r].row = x /\ pending'[r].kind = Change(x)
      BY <3>1
    <3>6. SaysOpen(r, pending[r].row)'
      BY <3>3, <3>4, <3>5 DEF SaysOpen, Usable
    <3> QED
      BY <3>1, <3>2, <3>3, <3>4, <3>5, <3>6 DEF ChangeFits
  <2>3. CASE Flush(r) \/ Rollback(r)
    BY <2>3 DEF Flush, Rollback
  <2>4. CASE CloseScan(r) \/ Commit(r) \/ \E x \in Posting : CloseRow(r, x)
    BY <2>4 DEF CloseScan, CloseRow, Commit, PendingOK, ChangeFits
  <2> QED
    BY <2>1, <2>2, <2>3, <2>4 DEF Step
<1> QED
  BY <1>1, <1>2

\* Flushes write what the feed has, the close scan what it lacks; a COMMIT ends both.
LEMMA WritesStep ==
    ASSUME IInv, NEW r \in Run, Step(r)
    PROVE  WritesOK'
<1> SUFFICES ASSUME NEW q \in Run, NEW p \in Posting
             PROVE  /\ write'[q][p] # "none" => CompanyOf[p] = at'[q]
                    /\ write'[q][p] \in {"open", "touch"} => SaysOpen(q, p)'
                    /\ write'[q][p] = "close" => pc'[q] = "closing" /\ SaysClosed(q, p)'
  BY DEF WritesOK
<1> USE DEF IInv
<1>1. CASE q # r
  BY <1>1, OthersStay, SameFeedSaysTheSame DEF WritesOK
<1>2. CASE q = r
  <2> USE <1>2 DEF TypeOK
  <2>1. CASE \/ Start(r) \/ Seed(r) \/ FetchBoards(r) \/ Finish(r)
             \/ \E c \in Company : Begin(r, c)
    BY <2>1, NoneAssumption DEF Start, Seed, FetchBoards, Finish, Begin, NoWrites
  <2>2. CASE \E x \in Posting : Select(r, x)
    BY <2>2, SameFeedSaysTheSame DEF Select, run, WritesOK
  <2>3. CASE Flush(r)
    <3>1. /\ pending[r] # NoChange /\ pc'[r] = pc[r] /\ at'[r] = at[r] /\ feed'[r] = feed[r]
          /\ write'[r] = [write[r] EXCEPT ![pending[r].row] = Written[pending[r].kind]]
      BY <2>3 DEF Flush, run
    <3>2. /\ Written[pending[r].kind] \in {"open", "touch"}
          /\ CompanyOf[pending[r].row] = at[r] /\ SaysOpen(r, pending[r].row)
      BY <3>1 DEF PendingOK, ChangeFits, Written
    <3>3. CASE p = pending[r].row
      <4>1. write'[r][p] \in {"open", "touch"}
        BY <3>1, <3>2, <3>3
      <4> QED
        BY <4>1, <3>1, <3>2, <3>3, SameFeedSaysTheSame
    <3>4. CASE p # pending[r].row
      <4>1. write'[r][p] = write[r][p]
        BY <3>1, <3>4
      <4> QED
        BY <4>1, <3>1, SameFeedSaysTheSame DEF WritesOK
    <3> QED
      BY <3>3, <3>4
  <2>4. CASE CloseScan(r)
    BY <2>4, SameFeedSaysTheSame DEF CloseScan, run, WritesOK
  <2>5. ASSUME NEW x \in Posting, CloseRow(r, x)
        PROVE  /\ write'[q][p] # "none" => CompanyOf[p] = at'[q]
               /\ write'[q][p] \in {"open", "touch"} => SaysOpen(q, p)'
               /\ write'[q][p] = "close" => pc'[q] = "closing" /\ SaysClosed(q, p)'
    <3>1. /\ pc[r] = "closing" /\ pc'[r] = pc[r] /\ at'[r] = at[r] /\ feed'[r] = feed[r]
          /\ write'[r][p] = IF p = x THEN "close" ELSE write[r][p]
      BY <2>5 DEF CloseRow, run
    <3>2. CompanyOf[x] = at[r] /\ SaysClosed(r, x)
      BY <2>5 DEF CloseRow, LeftOK
    <3> QED
      BY <3>1, <3>2, SameFeedSaysTheSame DEF WritesOK
  <2>6. CASE Commit(r) \/ Rollback(r)
    BY <2>6 DEF Commit, Rollback, NoWrites
  <2> QED
    BY <2>1, <2>2, <2>3, <2>4, <2>5, <2>6 DEF Step
<1> QED
  BY <1>1, <1>2

\* A row changes in a COMMIT, as the feed of the run that commits says; every other
\* run at work on the company counts that run among its rivals.
LEMMA RowsChangeInCommits ==
    ASSUME IInv, NEW r \in Run, Step(r), NEW p \in Posting, job'[p] # job[p]
    PROVE  /\ Commit(r)
           /\ at[r] = CompanyOf[p]
           /\ \/ job'[p] = "open" /\ SaysOpen(r, p)
              \/ job'[p] = "closed" /\ SaysClosed(r, p)
           /\ \A q \in Run : q # r /\ at[q] = CompanyOf[p] => r \in rivals[q]
<1> USE DEF IInv
<1>1. Commit(r)
  BY DEF Step, Start, Seed, FetchBoards, Begin, Select, Flush, CloseScan, CloseRow, Finish,
         Rollback
<1>2. \/ write[r][p] = "open" /\ job'[p] = "open"
      \/ write[r][p] = "close" /\ job'[p] = "closed"
  BY <1>1, CommitWritesRows
<1>3. at[r] = CompanyOf[p]
  BY <1>2 DEF WritesOK
<1>4. \A q \in Run : q # r /\ at[q] = CompanyOf[p] => r \in rivals[q]
  BY <1>3, NoneIsNoCompany DEF RivalsAreKnown
<1> QED
  BY <1>1, <1>2, <1>3, <1>4 DEF WritesOK

\* A posting of the feed advances in the steps of its own run; a COMMIT of another run
\* closes it only if that is a rival whose feed lacks it.
LEMMA OpenStep ==
    ASSUME IInv, NEW r \in Run, Step(r)
    PROVE  OpenDecided'
<1> SUFFICES ASSUME NEW q \in Run, NEW p \in Posting, at'[q] = CompanyOf[p], SaysOpen(q, p)'
             PROVE  OpensSoFar(q, p)'
  BY DEF OpenDecided
<1> USE DEF IInv
<1>1. CASE q # r
  <2>1. at[q] = CompanyOf[p] /\ SaysOpen(q, p)
    BY <1>1, OthersStay, SameFeedSaysTheSame
  <2>2. OpensSoFar(q, p)
    BY <2>1 DEF OpenDecided
  <2>3. CASE \E s \in rivals[q] : SaysClosed(s, p)
    BY <1>1, <2>3, RivalsStay DEF OpensSoFar
  <2>4. CASE job[p] = "open" /\ job'[p] # "open"
    <3>1. SaysClosed(r, p) /\ r \in rivals[q]
      BY <1>1, <2>1, <2>4, RowsChangeInCommits
    <3> QED
      BY <1>1, <3>1, RivalsStay DEF OpensSoFar
  <2>5. CASE job[p] = "open" /\ job'[p] = "open"
    BY <2>5 DEF OpensSoFar
  <2>6. CASE \/ pc[q] = "reading" /\ p \in left[q]
             \/ pending[q].row = p /\ pending[q].kind \in {"insert", "reopen"}
             \/ write[q][p] = "open"
    BY <1>1, <2>6, OthersStay DEF OpensSoFar
  <2> QED
    BY <2>2, <2>3, <2>4, <2>5, <2>6 DEF OpensSoFar
<1>2. CASE q = r
  <2> USE <1>2 DEF TypeOK
  <2>1. CASE Start(r) \/ Seed(r) \/ FetchBoards(r) \/ Finish(r) \/ Commit(r) \/ Rollback(r)
    <3>1. at'[r] = None
      BY <2>1 DEF Start, Seed, FetchBoards, Finish, Commit, Rollback, run
    <3> QED
      BY <3>1, NoneIsNoCompany
  <2>2. ASSUME NEW c \in Company, Begin(r, c) PROVE OpensSoFar(r, p)'
    <3>1. at'[r] = c /\ pc'[r] = "reading" /\ left'[r] = Usable(feed[r][c])
          /\ feed'[r] = feed[r]
      BY <2>2 DEF Begin, Goto
    <3>2. p \in Usable(feed[r][c])
      BY <3>1 DEF SaysOpen, Usable
    <3> QED
      BY <3>1, <3>2 DEF OpensSoFar
  <2>3. ASSUME feed'[r] = feed[r], at'[r] = at[r], rivals' = rivals, feed' = feed
        PROVE  /\ OpensSoFar(r, p) /\ SaysOpen(r, p)
               /\ \A s \in rivals[r] : SaysClosed(s, p) => SaysClosed(s, p)'
    BY <2>3, SameFeedSaysTheSame DEF OpenDecided
  <2>4. ASSUME NEW x \in Posting, Select(r, x) PROVE OpensSoFar(r, p)'
    <3>1. /\ OpensSoFar(r, p)
          /\ \A s \in rivals[r] : SaysClosed(s, p) => SaysClosed(s, p)'
      BY <2>3, <2>4 DEF Select, run
    <3>2. CASE p = x
      <4>1. pending'[r].row = p /\ pending'[r].kind = Change(p) /\ job' = job
        BY <2>4, <3>2 DEF Select
      <4>2. Change(p) \in {"insert", "reopen", "touch"}
            /\ (Change(p) = "touch" => job[p] = "open")
        BY ChangeFollowsTheRow
      <4> QED
        BY <4>1, <4>2 DEF OpensSoFar
    <3>3. CASE p # x
      <4>1. pending[r].kind = "none"
        BY <2>4 DEF Select, NoChange
      <4>2. /\ pc' = pc /\ write' = write /\ job' = job /\ rivals' = rivals
            /\ left'[r] = left[r] \ {x}
        BY <2>4 DEF Select, run
      <4> QED
        BY <3>1, <3>3, <4>1, <4>2 DEF OpensSoFar
    <3> QED
      BY <3>2, <3>3
  <2>5. CASE Flush(r)
    <3>1. /\ OpensSoFar(r, p)
          /\ \A s \in rivals[r] : SaysClosed(s, p) => SaysClosed(s, p)'
      BY <2>3, <2>5 DEF Flush, run
    <3>2. /\ pc' = pc /\ job' = job /\ rivals' = rivals /\ left' = left
          /\ write'[r] = [write[r] EXCEPT ![pending[r].row] = Written[pending[r].kind]]
      BY <2>5 DEF Flush, run
    <3>3. ChangeFits(r)
      BY <2>5 DEF Flush, PendingOK
    <3>4. CASE p = pending[r].row
      <4>1. p \notin left[r] /\ write[r][p] = "none"
        BY <3>3, <3>4 DEF ChangeFits
      <4>2. pending[r].kind \in {"insert", "reopen"} => write'[r][p] = "open"
        BY <3>2, <3>4 DEF Written
      <4> QED
        BY <3>1, <3>2, <4>1, <4>2 DEF OpensSoFar
    <3>5. CASE p # pending[r].row
      <4>1. write'[r][p] = write[r][p]
        BY <3>2, <3>5
      <4> QED
        BY <3>1, <3>2, <3>5, <4>1 DEF OpensSoFar
    <3> QED
      BY <3>4, <3>5
  <2>6. CASE CloseScan(r)
    <3>1. /\ OpensSoFar(r, p)
          /\ \A s \in rivals[r] : SaysClosed(s, p) => SaysClosed(s, p)'
      BY <2>3, <2>6 DEF CloseScan, run
    <3>2. /\ left[r] = {} /\ pending[r].kind = "none"
          /\ write' = write /\ job' = job /\ rivals' = rivals
      BY <2>6 DEF CloseScan, NoChange, run
    <3> QED
      BY <3>1, <3>2 DEF OpensSoFar
  <2>7. ASSUME NEW x \in Posting, CloseRow(r, x) PROVE OpensSoFar(r, p)'
    <3>1. /\ OpensSoFar(r, p) /\ SaysOpen(r, p)
          /\ \A s \in rivals[r] : SaysClosed(s, p) => SaysClosed(s, p)'
      BY <2>3, <2>7 DEF CloseRow, run
    <3>2. SaysClosed(r, x) /\ pc[r] = "closing"
      BY <2>7 DEF CloseRow, LeftOK
    <3>3. p # x
      BY <3>1, <3>2, FeedsAreConsistent
    <3>4. write'[r][p] = write[r][p] /\ pending' = pending /\ job' = job /\ rivals' = rivals
      BY <2>7, <3>3 DEF CloseRow, run
    <3> QED
      BY <3>1, <3>2, <3>4 DEF OpensSoFar
  <2> QED
    BY <2>1, <2>2, <2>4, <2>5, <2>6, <2>7 DEF Step
<1> QED
  BY <1>1, <1>2

\* A posting that the feed lacks advances in the steps of its own run; a COMMIT of
\* another run opens it only if that is a rival whose feed has it.
LEMMA ClosedStep ==
    ASSUME IInv, NEW r \in Run, Step(r)
    PROVE  ClosedDecided'
<1> SUFFICES ASSUME NEW q \in Run, NEW p \in Posting,
                    pc'[q] = "closing", at'[q] = CompanyOf[p], SaysClosed(q, p)'
             PROVE  ClosesSoFar(q, p)'
  BY DEF ClosedDecided
<1> USE DEF IInv
<1>1. CASE q # r
  <2>1. pc[q] = "closing" /\ at[q] = CompanyOf[p] /\ SaysClosed(q, p)
    BY <1>1, OthersStay, SameFeedSaysTheSame
  <2>2. ClosesSoFar(q, p)
    BY <2>1 DEF ClosedDecided
  <2>3. CASE \E s \in rivals[q] : SaysOpen(s, p)
    BY <1>1, <2>3, RivalsStay DEF ClosesSoFar
  <2>4. CASE job[p] # "open" /\ job'[p] = "open"
    <3>1. SaysOpen(r, p) /\ r \in rivals[q]
      BY <1>1, <2>1, <2>4, RowsChangeInCommits
    <3> QED
      BY <1>1, <3>1, RivalsStay DEF ClosesSoFar
  <2>5. CASE job[p] # "open" /\ job'[p] # "open"
    BY <2>5 DEF ClosesSoFar
  <2>6. CASE p \in left[q] \/ write[q][p] = "close"
    BY <1>1, <2>6, OthersStay DEF ClosesSoFar
  <2> QED
    BY <2>2, <2>3, <2>4, <2>5, <2>6 DEF ClosesSoFar
<1>2. CASE q = r
  <2> USE <1>2 DEF TypeOK
  <2>1. CASE Start(r) \/ Seed(r) \/ FetchBoards(r) \/ Finish(r) \/ Commit(r) \/ Rollback(r)
    <3>1. at'[r] = None
      BY <2>1 DEF Start, Seed, FetchBoards, Finish, Commit, Rollback, run
    <3> QED
      BY <3>1, NoneIsNoCompany
  <2>2. ~ (\E c \in Company : Begin(r, c)) /\ ~ (\E x \in Posting : Select(r, x))
        /\ ~ Flush(r)
    BY DEF Begin, Select, Flush, Goto, PendingOK, ChangeFits
  <2>3. CASE CloseScan(r)
    <3>1. /\ at[r] = CompanyOf[p] /\ SaysClosed(r, p) /\ job' = job
          /\ left'[r] = IF Usable(feed[r][at[r]]) = {} /\ feed[r][at[r]] # {} THEN {}
                        ELSE OpenPostings(at[r]) \ Usable(feed[r][at[r]])
      BY <2>3, SameFeedSaysTheSame DEF CloseScan, run
    <3>2. left'[r] = OpenPostings(at[r]) \ Usable(feed[r][at[r]])
      BY <3>1 DEF SaysClosed
    <3>3. p \notin Usable(feed[r][at[r]])
      BY <3>1 DEF SaysClosed
    <3> QED
      BY <3>1, <3>2, <3>3 DEF ClosesSoFar, OpenPostings, PostingsOf
  <2>4. ASSUME NEW x \in Posting, CloseRow(r, x) PROVE ClosesSoFar(r, p)'
    <3>1. /\ pc[r] = "closing" /\ at[r] = CompanyOf[p] /\ feed' = feed
          /\ rivals' = rivals /\ job' = job /\ left'[r] = left[r] \ {x}
          /\ write'[r] = [write[r] EXCEPT ![x] = "close"]
      BY <2>4 DEF CloseRow, run
    <3>2. ClosesSoFar(r, p) /\ \A s \in rivals[r] : SaysOpen(s, p) => SaysOpen(s, p)'
      BY <3>1, SameFeedSaysTheSame DEF ClosedDecided
    <3>3. CASE p = x
      BY <3>1, <3>3 DEF ClosesSoFar
    <3>4. CASE p # x
      <4>1. write'[r][p] = write[r][p]
        BY <3>1, <3>4
      <4> QED
        BY <3>1, <3>2, <3>4, <4>1 DEF ClosesSoFar
    <3> QED
      BY <3>3, <3>4
  <2> QED
    BY <2>1, <2>2, <2>3, <2>4 DEF Step
<1> QED
  BY <1>1, <1>2

-----------------------------------------------------------------------------
(* The theorems                                                            *)

\* Before the first run there is nothing to decide.
LEMMA Initially == Init => IInv
<1> SUFFICES ASSUME Init PROVE IInv
  OBVIOUS
<1>1. TypeOK
  BY TypeInitially
<1>2. \A r \in Run : /\ pc[r] = "idle" /\ at[r] = None /\ left[r] = {} /\ todo[r] = {}
                     /\ pending[r] = NoChange /\ rivals[r] = {} /\ write[r] = NoWrites
  BY DEF Init
<1>3. \A r \in Run, p \in Posting : write[r][p] = "none" /\ CompanyOf[p] # at[r]
  BY <1>2, NoneIsNoCompany DEF NoWrites
<1> QED
  BY <1>1, <1>2, <1>3 DEF IInv, FeedsAreKept, RivalsAreKnown, LeftOK, PendingOK, WritesOK,
                          OpenDecided, ClosedDecided

\* The invariant is about the variables only.
LEMMA Stuttering ==
    ASSUME IInv, UNCHANGED vars
    PROVE  IInv'
<1> USE DEF vars, run, IInv
<1>1. TypeOK' /\ FeedsAreKept' /\ RivalsAreKnown'
  BY DEF TypeOK, FeedsAreKept, RivalsAreKnown, Fetched
<1>2. LeftOK' /\ PendingOK' /\ WritesOK'
  BY SameFeedSaysTheSame DEF LeftOK, PendingOK, ChangeFits, WritesOK, SaysOpen,
                             SaysClosed, Usable
<1>3. OpenDecided' /\ ClosedDecided'
  BY DEF OpenDecided, ClosedDecided, OpensSoFar, ClosesSoFar, SaysOpen, SaysClosed, Usable
<1> QED
  BY <1>1, <1>2, <1>3

\* The inductive invariant holds throughout.
THEOREM Inductive == Spec => []IInv
<1>1. IInv /\ [Next]_vars => IInv'
  BY StepsOfRuns, Stuttering, TypeStep, FeedsStep, RivalsStep, LeftStep, PendingStep,
     WritesStep, OpenStep, ClosedStep DEF IInv
<1> QED
  BY Initially, <1>1, PTL DEF Spec

\* The type invariant.
THEOREM TypeCorrect == Spec => []TypeOK
BY Inductive, PTL DEF IInv

\* A step in which a run ends its work on a company without failing is its COMMIT.
LEMMA PersistsInCommit ==
    ASSUME IInv, [Next]_vars, NEW r \in Run, Persists(r)
    PROVE  Commit(r)
<1> USE DEF Persists, IInv
<1>1. ~ UNCHANGED vars
  BY DEF vars, run
<1>2. PICK q \in Run : Step(q)
  BY <1>1, StepsOfRuns
<1>3. q = r
  BY <1>2, OthersStay
<1> QED
  BY <1>2, <1>3 DEF Step, Start, Seed, FetchBoards, Begin, Select, Flush, CloseScan,
                    CloseRow, Finish, Rollback, Goto, TypeOK, run

\* A posting opens or closes only in the commit of a run at work on its company whose
\* own feed says so.
THEOREM FeedsDecide == Spec => ChangesComeFromFeeds
<1> DEFINE A == \A p \in Posting : job[p] # job'[p] =>
                    \E r \in Run : /\ Persists(r) /\ at[r] = CompanyOf[p]
                                   /\ IF job'[p] = "open" THEN SaysOpen(r, p)
                                      ELSE SaysClosed(r, p)
<1>1. ASSUME IInv, [Next]_vars PROVE A
  <2> SUFFICES ASSUME NEW p \in Posting, job[p] # job'[p]
               PROVE  \E r \in Run : /\ Persists(r) /\ at[r] = CompanyOf[p]
                                     /\ IF job'[p] = "open" THEN SaysOpen(r, p)
                                        ELSE SaysClosed(r, p)
    OBVIOUS
  <2>1. PICK r \in Run : Step(r)
    BY <1>1, StepsOfRuns DEF vars
  <2>2. /\ Commit(r) /\ at[r] = CompanyOf[p]
        /\ \/ job'[p] = "open" /\ SaysOpen(r, p)
           \/ job'[p] = "closed" /\ SaysClosed(r, p)
    BY <1>1, <2>1, RowsChangeInCommits
  <2>3. Persists(r)
    BY <1>1, <2>2, NoneIsNoCompany DEF Commit, Persists, Goto, IInv, TypeOK
  <2> QED
    BY <2>2, <2>3
<1>2. IInv /\ [Next]_vars => [A]_vars
  BY <1>1
<1> QED
  BY Inductive, <1>2, PTL DEF Spec, ChangesComeFromFeeds

\* What a commit leaves of a posting, unless a rival's feed says the opposite.
LEMMA CommitDecides ==
    ASSUME IInv, NEW r \in Run, Commit(r), NEW p \in PostingsOf(at[r])
    PROVE  /\ SaysOpen(r, p) /\ job'[p] # "open" => \E s \in rivals[r] : SaysClosed(s, p)
           /\ SaysClosed(r, p) /\ job'[p] = "open" => \E s \in rivals[r] : SaysOpen(s, p)
<1>1. p \in Posting /\ at[r] = CompanyOf[p]
  BY DEF PostingsOf
<1>2. pc[r] = "closing" /\ left[r] = {} /\ pending[r].kind = "none"
  BY DEF Commit, IInv, PendingOK, ChangeFits, NoChange
<1>3. /\ write[r][p] = "open" => job'[p] = "open"
      /\ write[r][p] = "close" => job'[p] = "closed"
      /\ write[r][p] \notin {"open", "close"} => job'[p] = job[p]
  BY <1>1, CommitWritesRows
<1>4. ASSUME SaysOpen(r, p), job'[p] # "open" PROVE \E s \in rivals[r] : SaysClosed(s, p)
  <2>1. OpensSoFar(r, p)
    BY <1>1, <1>4 DEF IInv, OpenDecided
  <2>2. write[r][p] # "close"
    BY <1>1, <1>4, FeedsAreConsistent DEF IInv, WritesOK
  <2> QED
    BY <1>2, <1>3, <1>4, <2>1, <2>2 DEF OpensSoFar
<1>5. ASSUME SaysClosed(r, p), job'[p] = "open" PROVE \E s \in rivals[r] : SaysOpen(s, p)
  <2>1. ClosesSoFar(r, p)
    BY <1>1, <1>2, <1>5 DEF IInv, ClosedDecided
  <2>2. write[r][p] # "open"
    BY <1>1, <1>5, FeedsAreConsistent DEF IInv, WritesOK
  <2> QED
    BY <1>2, <1>3, <1>5, <2>1, <2>2 DEF ClosesSoFar
<1> QED
  BY <1>4, <1>5

\* What a commit leaves is what the feed says, posting by posting, unless another run
\* at work on the company at the same time has a feed that says the opposite.
THEOREM FeedDecides == Spec => FeedDecidesUnlessContested
<1> DEFINE A == \A r \in Run : Persists(r) =>
                    \A p \in PostingsOf(at[r]) :
                        /\ SaysOpen(r, p) /\ job'[p] # "open" =>
                               \E s \in rivals[r] : SaysClosed(s, p)
                        /\ SaysClosed(r, p) /\ job'[p] = "open" =>
                               \E s \in rivals[r] : SaysOpen(s, p)
<1>1. IInv /\ [Next]_vars => [A]_vars
  BY PersistsInCommit, CommitDecides
<1> QED
  BY Inductive, <1>1, PTL DEF Spec, FeedDecidesUnlessContested

-----------------------------------------------------------------------------
(* Runs that do not overlap                                                *)

\* No two runs persist the same company at once.
NoOverlap == \A r \in Run : at[r] # None => rivals[r] = {}

\* The open postings of c are all in the feed of a run that has read it.
FeedIsOpenSet(c) ==
    \E r \in Run : /\ Fetched(r)
                   /\ \A p \in PostingsOf(c) : job[p] = "open" => SaysOpen(r, p)

\* Run r has not committed a feed with usable postings of c.
NotPersisted(r, c) ==
    \/ ~ Fetched(r)
    \/ c \in todo[r]
    \/ at[r] = c
    \/ pc[r] = "failed"
    \/ feed[r][c] = Unreachable
    \/ Usable(feed[r][c]) = {}

PersistedOK ==
    /\ \A r \in Run : pc[r] = "done" => todo[r] = {}
    /\ \A c \in Company : FeedIsOpenSet(c) \/ \A r \in Run : NotPersisted(r, c)

\* A run that nobody overlaps leaves open nothing that its feed lacks.
LEMMA CommitLeavesTheFeed ==
    ASSUME IInv, NoOverlap, NEW r \in Run, Commit(r), Usable(feed[r][at[r]]) # {}
    PROVE  /\ Fetched(r)'
           /\ \A p \in PostingsOf(at[r]) : job'[p] = "open" => SaysOpen(r, p)'
<1>1. Fetched(r) /\ Step(r) /\ at[r] # None /\ feed[r][at[r]] # Unreachable
  BY DEF Commit, Fetched, Step, IInv, TypeOK, FeedsAreKept
<1>2. Fetched(r)' /\ feed'[r] = feed[r]
  BY <1>1, FeedsStay
<1>3. ASSUME NEW p \in PostingsOf(at[r]), job'[p] = "open" PROVE SaysOpen(r, p)'
  <2>1. ~ SaysClosed(r, p)
    BY <1>1, <1>3, CommitDecides DEF NoOverlap
  <2>2. CompanyOf[p] = at[r]
    BY DEF PostingsOf
  <2>3. SaysOpen(r, p)
    BY <1>1, <2>1, <2>2 DEF SaysOpen, SaysClosed
  <2> QED
    BY <1>2, <2>3, SameFeedSaysTheSame
<1> QED
  BY <1>2, <1>3

\* Before the first run nothing is persisted.
LEMMA PersistedInitially == Init => PersistedOK
BY DEF Init, PersistedOK, NotPersisted, Fetched

\* A COMMIT makes the open postings those of its feed; no other step opens one.
LEMMA PersistedStep ==
    ASSUME IInv, PersistedOK, NoOverlap, NEW r \in Run, Step(r)
    PROVE  PersistedOK'
<1> USE DEF IInv
<1>1. ASSUME NEW q \in Run, pc'[q] = "done" PROVE todo'[q] = {}
  <2>1. CASE q # r
    BY <1>1, <2>1, OthersStay DEF PersistedOK
  <2>2. CASE q = r
    BY <1>1, <2>2 DEF Step, Start, Seed, FetchBoards, Begin, Select, Flush, CloseScan,
                      CloseRow, Commit, Finish, Rollback, Goto, run, TypeOK, PersistedOK,
                      PendingOK, ChangeFits
  <2> QED
    BY <2>1, <2>2
<1>2. ASSUME NEW c \in Company PROVE FeedIsOpenSet(c)' \/ \A q \in Run : NotPersisted(q, c)'
  <2>1. ASSUME Commit(r), at[r] = c, Usable(feed[r][c]) # {} PROVE FeedIsOpenSet(c)'
    BY <2>1, CommitLeavesTheFeed DEF FeedIsOpenSet, PostingsOf
  <2>2. ASSUME NEW p \in PostingsOf(c), job'[p] = "open", job[p] # "open"
        PROVE  Commit(r) /\ at[r] = c /\ Usable(feed[r][c]) # {}
    <3>1. p \in Posting /\ CompanyOf[p] = c
      BY DEF PostingsOf
    <3>2. Commit(r) /\ at[r] = c /\ SaysOpen(r, p)
      BY <2>2, <3>1, RowsChangeInCommits
    <3> QED
      BY <3>1, <3>2 DEF SaysOpen
  <2>3. CASE FeedIsOpenSet(c)
    <3>1. PICK s \in Run : /\ Fetched(s)
                           /\ \A p \in PostingsOf(c) : job[p] = "open" => SaysOpen(s, p)
      BY <2>3 DEF FeedIsOpenSet
    <3>2. Fetched(s)' /\ feed'[s] = feed[s]
      BY <3>1, FeedsStay
    <3>3. CASE \A p \in PostingsOf(c) : job'[p] = "open" => job[p] = "open"
      BY <3>1, <3>2, <3>3, SameFeedSaysTheSame DEF FeedIsOpenSet, PostingsOf
    <3> QED
      BY <2>1, <2>2, <3>3
  <2>4. CASE \A q \in Run : NotPersisted(q, c)
    <3>1. ASSUME NEW q \in Run, q # r PROVE NotPersisted(q, c)'
      BY <2>4, <3>1, OthersStay DEF NotPersisted, Fetched
    <3>2. FeedIsOpenSet(c)' \/ NotPersisted(r, c)'
      <4> USE <2>4 DEF TypeOK, NotPersisted, Fetched, Goto, run
      <4>1. CASE Start(r) \/ Seed(r) \/ Finish(r) \/ Rollback(r)
        BY <4>1 DEF Start, Seed, Finish, Rollback
      <4>2. CASE FetchBoards(r)
        <5>1. PICK f \in Boards :
                  /\ feed' = [feed EXCEPT ![r] = f]
                  /\ todo' = [todo EXCEPT ![r] = {x \in Company : f[x] # Unreachable}]
          BY <4>2 DEF FetchBoards
        <5>2. feed'[r] = f /\ todo'[r] = {x \in Company : f[x] # Unreachable}
          BY <5>1
        <5> QED
          BY <5>2
      <4>3. CASE \E x \in Company : Begin(r, x)
        <5>1. PICK x \in Company : Begin(r, x)
          BY <4>3
        <5>2. /\ pc[r] = "next" /\ pc'[r] = "reading" /\ feed' = feed
              /\ todo'[r] = todo[r] \ {x} /\ at'[r] = x
          BY <5>1 DEF Begin
        <5>3. Fetched(r) /\ pc[r] # "failed" /\ at[r] # c
          BY <5>2, NoneAssumption
        <5>4. c \in todo[r] \/ feed[r][c] = Unreachable \/ Usable(feed[r][c]) = {}
          BY <5>3
        <5> QED
          BY <5>2, <5>4 DEF Usable
      <4>4. CASE \/ \E p \in Posting : Select(r, p)
                 \/ Flush(r) \/ CloseScan(r)
                 \/ \E p \in Posting : CloseRow(r, p)
        BY <4>4 DEF Select, Flush, CloseScan, CloseRow
      <4>5. CASE Commit(r)
        BY <4>5, <2>1 DEF Commit
      <4> QED
        BY <4>1, <4>2, <4>3, <4>4, <4>5 DEF Step
    <3> QED
      BY <3>1, <3>2
  <2> QED
    BY <2>3, <2>4 DEF PersistedOK
<1> QED
  BY <1>1, <1>2 DEF PersistedOK

\* As long as no two runs persist the same company at once, the open postings of a
\* company are those of one feed when all runs have succeeded: overlapping runs are
\* the only reason for what the run ingestion_overlap shows.
THEOREM OpenSetWithoutOverlap ==
    ASSUME Run # {}
    PROVE  Spec /\ []NoOverlap => []OpenSetIsAFeed
<1>1. IInv /\ PersistedOK /\ NoOverlap /\ [Next]_vars => PersistedOK'
  <2>1. ASSUME PersistedOK, UNCHANGED vars PROVE PersistedOK'
    BY <2>1 DEF vars, run, PersistedOK, FeedIsOpenSet, NotPersisted, Fetched, SaysOpen,
                Usable
  <2> QED
    BY <2>1, PersistedStep, StepsOfRuns
<1>2. ASSUME IInv, PersistedOK PROVE OpenSetIsAFeed
  <2> SUFFICES ASSUME \A r \in Run : pc[r] = "done", NEW c \in Company,
                      \A r \in Run : feed[r][c] # Unreachable /\ Usable(feed[r][c]) # {}
               PROVE  \E r \in Run : OpenPostings(c) \subseteq Usable(feed[r][c])
    BY DEF OpenSetIsAFeed
  <2>1. PICK r \in Run : TRUE
    OBVIOUS
  <2>2. at[r] = None /\ todo[r] = {} /\ c # None
    BY <1>2, NoneAssumption DEF IInv, TypeOK, PersistedOK
  <2>3. ~ NotPersisted(r, c)
    BY <2>2 DEF NotPersisted, Fetched
  <2>4. PICK s \in Run : \A p \in PostingsOf(c) : job[p] = "open" => SaysOpen(s, p)
    BY <1>2, <2>3 DEF PersistedOK, FeedIsOpenSet
  <2> QED
    BY <2>4 DEF OpenPostings, PostingsOf, SaysOpen
<1>3. IInv /\ PersistedOK => OpenSetIsAFeed
  BY <1>2
<1> QED
  BY Inductive, PersistedInitially, <1>1, <1>3, PTL DEF Spec
=============================================================================
