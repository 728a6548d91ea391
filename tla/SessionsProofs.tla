--------------------------- MODULE SessionsProofs ---------------------------
(***************************************************************************)
(* Theorems about Sessions, for every set of requests and accounts.        *)
(*                                                                         *)
(* None of the properties is inductive by itself: what a request does at   *)
(* its commit rests on what its SELECT saw earlier.  IInv adds what a      *)
(* request remembers between its steps: the arguments it works on          *)
(* (CallOK), the locks it holds (LocksOK), and what it has read (ReadOK).  *)
(***************************************************************************)
EXTENDS Sessions, TLAPS

\* The labels of a refresh that has found its token, up to its commit.
Refreshing == {"rotate", "expire", "commitExpired", "sweep", "sweeping"}
LoggingOut == {"logout", "commitLogout"}

\* The arguments a request carries from its SELECT to its answer.
CallOK == \A r \in Request :
    /\ pc[r] = "insertUser" => call[r].op = "register"
    /\ pc[r] = "issue" => call[r].op \in {"register", "login", "refresh"}
    /\ pc[r] \in Refreshing \cup {"expired", "reuse"} => call[r].op = "refresh"
    /\ pc[r] \in LoggingOut => call[r].op = "logout"
    /\ pc[r] \in Refreshing \cup LoggingOut \cup {"insertUser", "issue", "expired", "reuse"}
       => call[r].usr \in User
    /\ pc[r] \in LoggingOut
          \/ /\ call[r].op = "refresh"
             /\ pc[r] \in Refreshing \cup {"issue", "tokens", "expired", "reuse"}
       => call[r].tok \in Request /\ owner[call[r].tok] = call[r].usr
    /\ pc[r] # "tokens" => owner[r] = None
    /\ pc[r] = "tokens" => owner[r] = call[r].usr /\ owner[r] \in User

\* The row locks a request holds, and the rows its bulk UPDATE has yet to lock.
LocksOK == \A r \in Request :
    /\ pc[r] \notin {"issue", "commitExpired", "commitLogout", "sweeping"} => held[r] = {}
    /\ pc[r] \in {"commitExpired", "commitLogout"} => held[r] = {call[r].tok}
    /\ pc[r] = "issue" => held[r] = IF call[r].op = "refresh" THEN {call[r].tok} ELSE {}
    /\ pc[r] # "sweeping" => todo[r] = {}
    /\ pc[r] = "sweeping" => \A t \in held[r] \cup todo[r] : owner[t] = call[r].usr

\* What a request has read, or been told by its snapshot, is still so.
ReadOK == \A r \in Request :
    /\ seen[r] \subseteq Answered
    /\ Exchanging(r) => \A s \in seen[r] : ~ Exchanged(s, call[r].tok)
    /\ call[r].op = "refresh" /\ pc[r] \in {"sweep", "sweeping", "reuse", "tokens"} =>
          call[r].tok \in revoked
    /\ pc[r] \in {"expire", "commitExpired", "expired"} => call[r].tok \in expired
    /\ pc[r] = "sweeping" =>
          \A t \in seen[r] : owner[t] = call[r].usr =>
              t \in revoked \cup held[r] \cup todo[r]

\* Only issued tokens are revoked, and each for a reason a client could name.
RevokedOK ==
    /\ \A t \in revoked : Issued(t)
    /\ RevocationIsExplained

\* An account comes of one registration that was answered, and every token
\* belongs to an account.
AccountsOK ==
    /\ \A r \in Request : Issued(r) => owner[r] \in registered
    /\ \A r \in Request :
          pc[r] = "issue" /\ call[r].op # "register" => call[r].usr \in registered
    /\ \A u \in registered : \E r \in Request :
          call[r].op = "register" /\ call[r].usr = u /\ pc[r] = "tokens"
    /\ \A r, s \in Request :
          /\ call[r].op = "register" /\ pc[r] \in {"issue", "tokens"}
          /\ call[s].op = "register" /\ pc[s] \in {"issue", "tokens"}
          /\ call[r].usr = call[s].usr
          => r = s

\* The inductive invariant.
IInv ==
    /\ TypeOK
    /\ CallOK
    /\ LocksOK
    /\ ReadOK
    /\ SweepCoversEarlierSessions
    /\ RevokedOK
    /\ AccountsOK

\* Before the first request every variable has its type.
LEMMA TypeInit == Init => TypeOK
  BY NoneAssumption DEF Init, TypeOK, NoCall, Operations, Answers, Working

\* The steps of Sessions, one by one; a deadlock victim fails like any other request.
LEMMA Steps ==
    ASSUME [Next]_vars
    PROVE  \/ \E r \in Request, u \in User : Register(r, u)
           \/ \E r \in Request : InsertUser(r)
           \/ \E r \in Request, u \in User, ok \in BOOLEAN : Login(r, u, ok)
           \/ \E r, t \in Request : Refresh(r, t)
           \/ \E r \in Request : RevokeRow(r)
           \/ \E r \in Request : SweepStart(r)
           \/ \E r, t \in Request : SweepRow(r, t)
           \/ \E r, t \in Request, u \in User : Logout(r, u, t)
           \/ \E r \in Request : CommitIssue(r)
           \/ \E r \in Request : CommitRevocation(r)
           \/ \E r \in Request : Fail(r)
           \/ \E t \in Request : Expire(t)
           \/ UNCHANGED vars
<1>1. ASSUME NEW r \in Request, DeadlockVictim(r) PROVE Fail(r)
  BY <1>1 DEF DeadlockVictim, Fail, Working
<1> QED
  BY <1>1 DEF Next, Arrive, Serve, Served

\* No step of a handler takes a variable out of its type.
LEMMA TypeStep ==
    ASSUME TypeOK, CallOK, [Next]_vars
    PROVE  TypeOK'
<1>1. ASSUME NEW r \in Request, NEW u \in User, Register(r, u) PROVE TypeOK'
  BY <1>1 DEF TypeOK, Register, Receive, Goto, store, Operations, Answers, Working
<1>2. ASSUME NEW r \in Request, InsertUser(r) PROVE TypeOK'
  BY <1>2 DEF TypeOK, InsertUser, Goto, store, Answers, Working
<1>3. ASSUME NEW r \in Request, NEW u \in User, NEW ok \in BOOLEAN, Login(r, u, ok)
      PROVE TypeOK'
  BY <1>3 DEF TypeOK, Login, Receive, Goto, store, Operations, Answers, Working
<1>4. ASSUME NEW r \in Request, NEW t \in Request, Refresh(r, t) PROVE TypeOK'
  BY <1>4
     DEF TypeOK, Refresh, Receive, Goto, Verdict, Issued, Answered, store, Operations,
         Answers, Working
<1>5. ASSUME NEW r \in Request, RevokeRow(r) PROVE TypeOK'
  BY <1>5
     DEF TypeOK, CallOK, Refreshing, LoggingOut, RevokeRow, AfterRevoke, Goto, store,
         Answers, Working
<1>6. ASSUME NEW r \in Request, SweepStart(r) PROVE TypeOK'
  BY <1>6 DEF TypeOK, SweepStart, Goto, Answered, store, Answers, Working
<1>7. ASSUME NEW r \in Request, NEW t \in Request, SweepRow(r, t) PROVE TypeOK'
  BY <1>7 DEF TypeOK, SweepRow, store
<1>8. ASSUME NEW r \in Request, NEW u \in User, NEW t \in Request, Logout(r, u, t)
      PROVE TypeOK'
  BY <1>8 DEF TypeOK, Logout, Receive, Goto, store, Operations, Answers, Working
<1>9. ASSUME NEW r \in Request, CommitIssue(r) PROVE TypeOK'
  BY <1>9 DEF TypeOK, CallOK, Refreshing, LoggingOut, CommitIssue, Goto, Answers, Working
<1>10. ASSUME NEW r \in Request, CommitRevocation(r) PROVE TypeOK'
  BY <1>10 DEF TypeOK, CommitRevocation, Commits, Goto, Answers, Working
<1>11. ASSUME NEW r \in Request, Fail(r) PROVE TypeOK'
  BY <1>11 DEF TypeOK, Fail, Rollback, Goto, store, Answers, Working
<1>12. ASSUME NEW t \in Request, Expire(t) PROVE TypeOK'
  BY <1>12 DEF TypeOK, Expire, store
<1>13. CASE UNCHANGED vars
  BY <1>13 DEF TypeOK, vars
<1> QED
  BY <1>1, <1>2, <1>3, <1>4, <1>5, <1>6, <1>7, <1>8, <1>9, <1>10, <1>11, <1>12, <1>13,
     Steps

\* A handler's arguments are those of the request, and its token's row, until it answers.
LEMMA CallStep ==
    ASSUME TypeOK, CallOK, [Next]_vars
    PROVE  CallOK'
<1>1. ASSUME NEW r \in Request, NEW u \in User, Register(r, u) PROVE CallOK'
  BY <1>1, NoneAssumption
     DEF TypeOK, CallOK, Refreshing, LoggingOut, Answers, Working, Register, Receive,
         Goto, store
<1>2. ASSUME NEW r \in Request, InsertUser(r) PROVE CallOK'
  BY <1>2
     DEF TypeOK, CallOK, Refreshing, LoggingOut, Answers, Working, InsertUser, Goto,
         store
<1>3. ASSUME NEW r \in Request, NEW u \in User, NEW ok \in BOOLEAN, Login(r, u, ok)
      PROVE CallOK'
  BY <1>3
     DEF TypeOK, CallOK, Refreshing, LoggingOut, Answers, Working, Login, Receive, Goto,
         store
<1>4. ASSUME NEW r \in Request, NEW t \in Request, Refresh(r, t) PROVE CallOK'
  BY <1>4, NoneAssumption
     DEF TypeOK, CallOK, Refreshing, LoggingOut, Answers, Working, Refresh, Verdict,
         Issued, Receive, Goto, store
<1>5. ASSUME NEW r \in Request, RevokeRow(r) PROVE CallOK'
  BY <1>5
     DEF TypeOK, CallOK, Refreshing, LoggingOut, Answers, Working, RevokeRow,
         AfterRevoke, Goto, store
<1>6. ASSUME NEW r \in Request, SweepStart(r) PROVE CallOK'
  BY <1>6
     DEF TypeOK, CallOK, Refreshing, LoggingOut, Answers, Working, SweepStart, Goto,
         store
<1>7. ASSUME NEW r \in Request, NEW t \in Request, SweepRow(r, t) PROVE CallOK'
  BY <1>7 DEF TypeOK, CallOK, Refreshing, LoggingOut, Answers, Working, SweepRow, store
<1>8. ASSUME NEW r \in Request, NEW u \in User, NEW t \in Request, Logout(r, u, t)
      PROVE CallOK'
  BY <1>8
     DEF TypeOK, CallOK, Refreshing, LoggingOut, Answers, Working, Logout, Receive,
         Goto, store
<1>9. ASSUME NEW r \in Request, CommitIssue(r) PROVE CallOK'
  BY <1>9, NoneAssumption
     DEF TypeOK, CallOK, Refreshing, LoggingOut, Answers, Working, CommitIssue, Goto
<1>10. ASSUME NEW r \in Request, CommitRevocation(r) PROVE CallOK'
  BY <1>10
     DEF TypeOK, CallOK, Refreshing, LoggingOut, Answers, Working, CommitRevocation,
         Commits, Goto
<1>11. ASSUME NEW r \in Request, Fail(r) PROVE CallOK'
  BY <1>11
     DEF TypeOK, CallOK, Refreshing, LoggingOut, Answers, Working, Fail, Rollback, Goto,
         store
<1>12. ASSUME NEW r \in Request, Expire(r) PROVE CallOK'
  BY <1>12 DEF TypeOK, CallOK, Refreshing, LoggingOut, Answers, Working, Expire, store
<1>13. CASE UNCHANGED vars
  BY <1>13 DEF TypeOK, CallOK, Refreshing, LoggingOut, Answers, Working, vars
<1> QED
  BY <1>1, <1>2, <1>3, <1>4, <1>5, <1>6, <1>7, <1>8, <1>9, <1>10, <1>11, <1>12, <1>13, Steps

\* A handler locks the rows its statements touch and lets go of them at its commit.
LEMMA LocksStep ==
    ASSUME TypeOK, CallOK, LocksOK, [Next]_vars
    PROVE  LocksOK'
<1>1. ASSUME NEW r \in Request, NEW u \in User, Register(r, u) PROVE LocksOK'
  BY <1>1
     DEF TypeOK, CallOK, LocksOK, Refreshing, LoggingOut, Answers, Working, Register,
         Receive, Goto, store
<1>2. ASSUME NEW r \in Request, InsertUser(r) PROVE LocksOK'
  BY <1>2
     DEF TypeOK, CallOK, LocksOK, Refreshing, LoggingOut, Answers, Working, InsertUser,
         Goto, store
<1>3. ASSUME NEW r \in Request, NEW u \in User, NEW ok \in BOOLEAN, Login(r, u, ok)
      PROVE LocksOK'
  BY <1>3
     DEF TypeOK, CallOK, LocksOK, Refreshing, LoggingOut, Answers, Working, Login,
         Receive, Goto, store
<1>4. ASSUME NEW r \in Request, NEW t \in Request, Refresh(r, t) PROVE LocksOK'
  BY <1>4
     DEF TypeOK, CallOK, LocksOK, Refreshing, LoggingOut, Answers, Working, Refresh,
         Verdict, Issued, Receive, Goto, store
<1>5. ASSUME NEW r \in Request, RevokeRow(r) PROVE LocksOK'
  <2> SUFFICES ASSUME NEW q \in Request PROVE LocksOK!(q)'
    BY DEF LocksOK
  <2>1. CASE q = r
    BY <1>5, <2>1
       DEF TypeOK, CallOK, LocksOK, Refreshing, LoggingOut, Answers, Working, RevokeRow,
           AfterRevoke, Goto, store
  <2>2. CASE q # r
    BY <1>5, <2>2
       DEF TypeOK, CallOK, LocksOK, Refreshing, LoggingOut, Answers, Working, RevokeRow,
           AfterRevoke, Goto, store
  <2> QED
    BY <2>1, <2>2
<1>6. ASSUME NEW r \in Request, SweepStart(r) PROVE LocksOK'
  BY <1>6
     DEF TypeOK, CallOK, LocksOK, Refreshing, LoggingOut, Answers, Working, SweepStart,
         Goto, store
<1>7. ASSUME NEW r \in Request, NEW t \in Request, SweepRow(r, t) PROVE LocksOK'
  <2> SUFFICES ASSUME NEW q \in Request PROVE LocksOK!(q)'
    BY DEF LocksOK
  <2>1. CASE q = r
    BY <1>7, <2>1
       DEF TypeOK, CallOK, LocksOK, Refreshing, LoggingOut, Answers, Working, SweepRow,
           store
  <2>2. CASE q # r
    BY <1>7, <2>2
       DEF TypeOK, CallOK, LocksOK, Refreshing, LoggingOut, Answers, Working, SweepRow,
           store
  <2> QED
    BY <2>1, <2>2
<1>8. ASSUME NEW r \in Request, NEW u \in User, NEW t \in Request, Logout(r, u, t)
      PROVE LocksOK'
  BY <1>8
     DEF TypeOK, CallOK, LocksOK, Refreshing, LoggingOut, Answers, Working, Logout,
         Receive, Goto, store
<1>9. ASSUME NEW r \in Request, CommitIssue(r) PROVE LocksOK'
  <2> SUFFICES ASSUME NEW q \in Request PROVE LocksOK!(q)'
    BY DEF LocksOK
  <2>1. CASE q = r
    BY <1>9, <2>1, NoneAssumption
       DEF TypeOK, CallOK, LocksOK, Refreshing, LoggingOut, Answers, Working,
           CommitIssue, Goto
  <2>2. CASE q # r
    BY <1>9, <2>2, NoneAssumption
       DEF TypeOK, CallOK, LocksOK, Refreshing, LoggingOut, Answers, Working,
           CommitIssue, Goto
  <2> QED
    BY <2>1, <2>2
<1>10. ASSUME NEW r \in Request, CommitRevocation(r) PROVE LocksOK'
  <2> SUFFICES ASSUME NEW q \in Request PROVE LocksOK!(q)'
    BY DEF LocksOK
  <2>1. CASE q = r
    BY <1>10, <2>1
       DEF TypeOK, CallOK, LocksOK, Refreshing, LoggingOut, Answers, Working,
           CommitRevocation, Commits, Goto
  <2>2. CASE q # r
    BY <1>10, <2>2
       DEF TypeOK, CallOK, LocksOK, Refreshing, LoggingOut, Answers, Working,
           CommitRevocation, Commits, Goto
  <2> QED
    BY <2>1, <2>2
<1>11. ASSUME NEW r \in Request, Fail(r) PROVE LocksOK'
  BY <1>11
     DEF TypeOK, CallOK, LocksOK, Refreshing, LoggingOut, Answers, Working, Fail,
         Rollback, Goto, store
<1>12. ASSUME NEW r \in Request, Expire(r) PROVE LocksOK'
  BY <1>12
     DEF TypeOK, CallOK, LocksOK, Refreshing, LoggingOut, Answers, Working, Expire,
         store
<1>13. CASE UNCHANGED vars
  BY <1>13 DEF TypeOK, CallOK, LocksOK, Refreshing, LoggingOut, Answers, Working, vars
<1> QED
  BY <1>1, <1>2, <1>3, <1>4, <1>5, <1>6, <1>7, <1>8, <1>9, <1>10, <1>11, <1>12, <1>13, Steps

\* What a handler has read of a row it acts on, no other handler's commit undoes.
LEMMA ReadStep ==
    ASSUME TypeOK, CallOK, LocksOK, ReadOK, [Next]_vars
    PROVE  ReadOK'
<1>1. ASSUME NEW r \in Request, NEW u \in User, Register(r, u) PROVE ReadOK'
  BY <1>1
     DEF TypeOK, CallOK, LocksOK, ReadOK, Exchanging, Exchanged, Answered, Refreshing,
         LoggingOut, Answers, Working, Register, Receive, Goto, store
<1>2. ASSUME NEW r \in Request, InsertUser(r) PROVE ReadOK'
  BY <1>2
     DEF TypeOK, CallOK, LocksOK, ReadOK, Exchanging, Exchanged, Answered, Refreshing,
         LoggingOut, Answers, Working, InsertUser, Goto, store
<1>3. ASSUME NEW r \in Request, NEW u \in User, NEW ok \in BOOLEAN, Login(r, u, ok)
      PROVE ReadOK'
  BY <1>3
     DEF TypeOK, CallOK, LocksOK, ReadOK, Exchanging, Exchanged, Answered, Refreshing,
         LoggingOut, Answers, Working, Login, Receive, Goto, store
<1>4. ASSUME NEW r \in Request, NEW t \in Request, Refresh(r, t) PROVE ReadOK'
  BY <1>4
     DEF TypeOK, CallOK, LocksOK, ReadOK, Exchanging, Exchanged, Answered, Refreshing,
         LoggingOut, Answers, Working, Refresh, Verdict, Issued, Receive, Goto, store
<1>5. ASSUME NEW r \in Request, RevokeRow(r) PROVE ReadOK'
  BY <1>5
     DEF TypeOK, CallOK, LocksOK, ReadOK, Exchanging, Exchanged, Answered, Refreshing,
         LoggingOut, Answers, Working, RevokeRow, AfterRevoke, Goto, store
<1>6. ASSUME NEW r \in Request, SweepStart(r) PROVE ReadOK'
  BY <1>6
     DEF TypeOK, CallOK, LocksOK, ReadOK, Exchanging, Exchanged, Answered, Refreshing,
         LoggingOut, Answers, Working, SweepStart, Goto, store
<1>7. ASSUME NEW r \in Request, NEW t \in Request, SweepRow(r, t) PROVE ReadOK'
  BY <1>7
     DEF TypeOK, CallOK, LocksOK, ReadOK, Exchanging, Exchanged, Answered, Refreshing,
         LoggingOut, Answers, Working, SweepRow, store
<1>8. ASSUME NEW r \in Request, NEW u \in User, NEW t \in Request, Logout(r, u, t)
      PROVE ReadOK'
  BY <1>8
     DEF TypeOK, CallOK, LocksOK, ReadOK, Exchanging, Exchanged, Answered, Refreshing,
         LoggingOut, Answers, Working, Logout, Receive, Goto, store
<1>9. ASSUME NEW r \in Request, CommitIssue(r) PROVE ReadOK'
  BY <1>9
     DEF TypeOK, CallOK, LocksOK, ReadOK, Exchanging, Exchanged, Answered, Refreshing,
         LoggingOut, Answers, Working, CommitIssue, Goto
<1>10. ASSUME NEW r \in Request, CommitRevocation(r) PROVE ReadOK'
  BY <1>10
     DEF TypeOK, CallOK, LocksOK, ReadOK, Exchanging, Exchanged, Answered, Refreshing,
         LoggingOut, Answers, Working, CommitRevocation, Commits, Goto
<1>11. ASSUME NEW r \in Request, Fail(r) PROVE ReadOK'
  BY <1>11
     DEF TypeOK, CallOK, LocksOK, ReadOK, Exchanging, Exchanged, Answered, Refreshing,
         LoggingOut, Answers, Working, Fail, Rollback, Goto, store
<1>12. ASSUME NEW r \in Request, Expire(r) PROVE ReadOK'
  BY <1>12
     DEF TypeOK, CallOK, LocksOK, ReadOK, Exchanging, Exchanged, Answered, Refreshing,
         LoggingOut, Answers, Working, Expire, store
<1>13. CASE UNCHANGED vars
  BY <1>13
     DEF TypeOK, CallOK, LocksOK, ReadOK, Exchanging, Exchanged, Answered, Refreshing,
         LoggingOut, Answers, Working, vars
<1> QED
  BY <1>1, <1>2, <1>3, <1>4, <1>5, <1>6, <1>7, <1>8, <1>9, <1>10, <1>11, <1>12, <1>13, Steps

\* A commit leaves no session behind that an earlier answer had ended.
LEMMA SweepStep ==
    ASSUME TypeOK, CallOK, LocksOK, ReadOK, SweepCoversEarlierSessions, [Next]_vars
    PROVE  SweepCoversEarlierSessions'
<1>1. ASSUME NEW r \in Request, NEW u \in User, Register(r, u)
      PROVE SweepCoversEarlierSessions'
  BY <1>1
     DEF TypeOK, CallOK, LocksOK, ReadOK, SweepCoversEarlierSessions, Answered,
         Refreshing, LoggingOut, Answers, Working, Register, Receive, Goto, store
<1>2. ASSUME NEW r \in Request, InsertUser(r) PROVE SweepCoversEarlierSessions'
  BY <1>2
     DEF TypeOK, CallOK, LocksOK, ReadOK, SweepCoversEarlierSessions, Answered,
         Refreshing, LoggingOut, Answers, Working, InsertUser, Goto, store
<1>3. ASSUME NEW r \in Request, NEW u \in User, NEW ok \in BOOLEAN, Login(r, u, ok)
      PROVE SweepCoversEarlierSessions'
  BY <1>3
     DEF TypeOK, CallOK, LocksOK, ReadOK, SweepCoversEarlierSessions, Answered,
         Refreshing, LoggingOut, Answers, Working, Login, Receive, Goto, store
<1>4. ASSUME NEW r \in Request, NEW t \in Request, Refresh(r, t)
      PROVE SweepCoversEarlierSessions'
  BY <1>4
     DEF TypeOK, CallOK, LocksOK, ReadOK, SweepCoversEarlierSessions, Answered,
         Refreshing, LoggingOut, Answers, Working, Refresh, Verdict, Issued, Receive,
         Goto, store
<1>5. ASSUME NEW r \in Request, RevokeRow(r) PROVE SweepCoversEarlierSessions'
  BY <1>5
     DEF TypeOK, CallOK, LocksOK, ReadOK, SweepCoversEarlierSessions, Answered,
         Refreshing, LoggingOut, Answers, Working, RevokeRow, AfterRevoke, Goto, store
<1>6. ASSUME NEW r \in Request, SweepStart(r) PROVE SweepCoversEarlierSessions'
  BY <1>6
     DEF TypeOK, CallOK, LocksOK, ReadOK, SweepCoversEarlierSessions, Answered,
         Refreshing, LoggingOut, Answers, Working, SweepStart, Goto, store
<1>7. ASSUME NEW r \in Request, NEW t \in Request, SweepRow(r, t)
      PROVE SweepCoversEarlierSessions'
  BY <1>7
     DEF TypeOK, CallOK, LocksOK, ReadOK, SweepCoversEarlierSessions, Answered,
         Refreshing, LoggingOut, Answers, Working, SweepRow, store
<1>8. ASSUME NEW r \in Request, NEW u \in User, NEW t \in Request, Logout(r, u, t)
      PROVE SweepCoversEarlierSessions'
  BY <1>8
     DEF TypeOK, CallOK, LocksOK, ReadOK, SweepCoversEarlierSessions, Answered,
         Refreshing, LoggingOut, Answers, Working, Logout, Receive, Goto, store
<1>9. ASSUME NEW r \in Request, CommitIssue(r) PROVE SweepCoversEarlierSessions'
  BY <1>9
     DEF TypeOK, CallOK, LocksOK, ReadOK, SweepCoversEarlierSessions, Answered,
         Refreshing, LoggingOut, Answers, Working, CommitIssue, Goto
<1>10. ASSUME NEW r \in Request, CommitRevocation(r) PROVE SweepCoversEarlierSessions'
  BY <1>10
     DEF TypeOK, CallOK, LocksOK, ReadOK, SweepCoversEarlierSessions, Answered,
         Refreshing, LoggingOut, Answers, Working, CommitRevocation, Commits, Goto
<1>11. ASSUME NEW r \in Request, Fail(r) PROVE SweepCoversEarlierSessions'
  BY <1>11
     DEF TypeOK, CallOK, LocksOK, ReadOK, SweepCoversEarlierSessions, Answered,
         Refreshing, LoggingOut, Answers, Working, Fail, Rollback, Goto, store
<1>12. ASSUME NEW r \in Request, Expire(r) PROVE SweepCoversEarlierSessions'
  BY <1>12
     DEF TypeOK, CallOK, LocksOK, ReadOK, SweepCoversEarlierSessions, Answered,
         Refreshing, LoggingOut, Answers, Working, Expire, store
<1>13. CASE UNCHANGED vars
  BY <1>13
     DEF TypeOK, CallOK, LocksOK, ReadOK, SweepCoversEarlierSessions, Answered,
         Refreshing, LoggingOut, Answers, Working, vars
<1> QED
  BY <1>1, <1>2, <1>3, <1>4, <1>5, <1>6, <1>7, <1>8, <1>9, <1>10, <1>11, <1>12, <1>13, Steps

\* The unique index on the e-mail address keeps registrations apart.
LEMMA AccountsStep ==
    ASSUME TypeOK, CallOK, LocksOK, AccountsOK, [Next]_vars
    PROVE  AccountsOK'
<1>1. ASSUME NEW r \in Request, NEW u \in User, Register(r, u) PROVE AccountsOK'
  BY <1>1
     DEF TypeOK, CallOK, LocksOK, AccountsOK, Issued, Refreshing, LoggingOut, Answers,
         Working, Register, Receive, Goto, store
<1>2. ASSUME NEW r \in Request, InsertUser(r) PROVE AccountsOK'
  BY <1>2, NoneAssumption
     DEF Claimed, TypeOK, CallOK, LocksOK, AccountsOK, Issued, Refreshing, LoggingOut,
         Answers, Working, InsertUser, Goto, store
<1>3. ASSUME NEW r \in Request, NEW u \in User, NEW ok \in BOOLEAN, Login(r, u, ok)
      PROVE AccountsOK'
  BY <1>3
     DEF TypeOK, CallOK, LocksOK, AccountsOK, Issued, Refreshing, LoggingOut, Answers,
         Working, Login, Receive, Goto, store
<1>4. ASSUME NEW r \in Request, NEW t \in Request, Refresh(r, t) PROVE AccountsOK'
  BY <1>4
     DEF TypeOK, CallOK, LocksOK, AccountsOK, Issued, Refreshing, LoggingOut, Answers,
         Working, Refresh, Verdict, Issued, Receive, Goto, store
<1>5. ASSUME NEW r \in Request, RevokeRow(r) PROVE AccountsOK'
  BY <1>5, NoneAssumption
     DEF TypeOK, CallOK, LocksOK, AccountsOK, Issued, Refreshing, LoggingOut, Answers,
         Working, RevokeRow, AfterRevoke, Goto, store
<1>6. ASSUME NEW r \in Request, SweepStart(r) PROVE AccountsOK'
  BY <1>6
     DEF TypeOK, CallOK, LocksOK, AccountsOK, Issued, Refreshing, LoggingOut, Answers,
         Working, SweepStart, Goto, store
<1>7. ASSUME NEW r \in Request, NEW t \in Request, SweepRow(r, t) PROVE AccountsOK'
  BY <1>7
     DEF TypeOK, CallOK, LocksOK, AccountsOK, Issued, Refreshing, LoggingOut, Answers,
         Working, SweepRow, store
<1>8. ASSUME NEW r \in Request, NEW u \in User, NEW t \in Request, Logout(r, u, t)
      PROVE AccountsOK'
  BY <1>8
     DEF TypeOK, CallOK, LocksOK, AccountsOK, Issued, Refreshing, LoggingOut, Answers,
         Working, Logout, Receive, Goto, store
<1>9. ASSUME NEW r \in Request, CommitIssue(r) PROVE AccountsOK'
  BY <1>9, NoneAssumption
     DEF TypeOK, CallOK, LocksOK, AccountsOK, Issued, Refreshing, LoggingOut, Answers,
         Working, CommitIssue, Goto
<1>10. ASSUME NEW r \in Request, CommitRevocation(r) PROVE AccountsOK'
  BY <1>10
     DEF TypeOK, CallOK, LocksOK, AccountsOK, Issued, Refreshing, LoggingOut, Answers,
         Working, CommitRevocation, Commits, Goto
<1>11. ASSUME NEW r \in Request, Fail(r) PROVE AccountsOK'
  BY <1>11
     DEF TypeOK, CallOK, LocksOK, AccountsOK, Issued, Refreshing, LoggingOut, Answers,
         Working, Fail, Rollback, Goto, store
<1>12. ASSUME NEW r \in Request, Expire(r) PROVE AccountsOK'
  BY <1>12
     DEF TypeOK, CallOK, LocksOK, AccountsOK, Issued, Refreshing, LoggingOut, Answers,
         Working, Expire, store
<1>13. CASE UNCHANGED vars
  BY <1>13
     DEF TypeOK, CallOK, LocksOK, AccountsOK, Issued, Refreshing, LoggingOut, Answers,
         Working, vars
<1> QED
  BY <1>1, <1>2, <1>3, <1>4, <1>5, <1>6, <1>7, <1>8, <1>9, <1>10, <1>11, <1>12, <1>13, Steps

\* A commit that revokes a token is one of the three that may: a rotation, a logout, a sweep.
LEMMA RevokedStep ==
    ASSUME TypeOK, CallOK, LocksOK, ReadOK, RevokedOK, [Next]_vars
    PROVE  RevokedOK'
<1>1. ASSUME NEW r \in Request, NEW u \in User, Register(r, u) PROVE RevokedOK'
  BY <1>1
     DEF TypeOK, CallOK, LocksOK, ReadOK, RevokedOK, RevocationIsExplained, Explains,
         Exchanged, Issued, Refreshing, LoggingOut, Answers, Working, Register, Receive,
         Goto, store
<1>2. ASSUME NEW r \in Request, InsertUser(r) PROVE RevokedOK'
  BY <1>2
     DEF TypeOK, CallOK, LocksOK, ReadOK, RevokedOK, RevocationIsExplained, Explains,
         Exchanged, Issued, Refreshing, LoggingOut, Answers, Working, InsertUser, Goto,
         store
<1>3. ASSUME NEW r \in Request, NEW u \in User, NEW ok \in BOOLEAN, Login(r, u, ok)
      PROVE RevokedOK'
  BY <1>3
     DEF TypeOK, CallOK, LocksOK, ReadOK, RevokedOK, RevocationIsExplained, Explains,
         Exchanged, Issued, Refreshing, LoggingOut, Answers, Working, Login, Receive,
         Goto, store
<1>4. ASSUME NEW r \in Request, NEW t \in Request, Refresh(r, t) PROVE RevokedOK'
  BY <1>4
     DEF TypeOK, CallOK, LocksOK, ReadOK, RevokedOK, RevocationIsExplained, Explains,
         Exchanged, Issued, Refreshing, LoggingOut, Answers, Working, Refresh, Verdict,
         Issued, Receive, Goto, store
<1>5. ASSUME NEW r \in Request, RevokeRow(r) PROVE RevokedOK'
  BY <1>5
     DEF TypeOK, CallOK, LocksOK, ReadOK, RevokedOK, RevocationIsExplained, Explains,
         Exchanged, Issued, Refreshing, LoggingOut, Answers, Working, RevokeRow,
         AfterRevoke, Goto, store
<1>6. ASSUME NEW r \in Request, SweepStart(r) PROVE RevokedOK'
  BY <1>6
     DEF TypeOK, CallOK, LocksOK, ReadOK, RevokedOK, RevocationIsExplained, Explains,
         Exchanged, Issued, Refreshing, LoggingOut, Answers, Working, SweepStart, Goto,
         store
<1>7. ASSUME NEW r \in Request, NEW t \in Request, SweepRow(r, t) PROVE RevokedOK'
  BY <1>7
     DEF TypeOK, CallOK, LocksOK, ReadOK, RevokedOK, RevocationIsExplained, Explains,
         Exchanged, Issued, Refreshing, LoggingOut, Answers, Working, SweepRow, store
<1>8. ASSUME NEW r \in Request, NEW u \in User, NEW t \in Request, Logout(r, u, t)
      PROVE RevokedOK'
  BY <1>8
     DEF TypeOK, CallOK, LocksOK, ReadOK, RevokedOK, RevocationIsExplained, Explains,
         Exchanged, Issued, Refreshing, LoggingOut, Answers, Working, Logout, Receive,
         Goto, store
<1>9. ASSUME NEW r \in Request, CommitIssue(r) PROVE RevokedOK'
  <2>1. \A t \in revoked : owner[t] # None /\ owner'[t] = owner[t]
    BY <1>9 DEF TypeOK, CallOK, RevokedOK, Issued, CommitIssue
  <2>2. \A t \in held[r] : /\ t \in Request /\ t = call[r].tok /\ call[r].op = "refresh"
                         /\ owner[t] = call[r].usr /\ call[r].usr \in User
    BY <1>9 DEF TypeOK, CallOK, LocksOK, CommitIssue
  <2>3. \A t \in held[r] : owner'[t] = call[r].usr /\ owner'[r] = call[r].usr
    BY <1>9, <2>2 DEF TypeOK, CommitIssue
  <2>4. ASSUME NEW t \in revoked PROVE \E s \in Request : Explains(s, t)'
    <3>1. PICK s \in Request : Explains(s, t)
      BY DEF RevokedOK, RevocationIsExplained
    <3>2. pc[s] # "issue" /\ pc'[s] = pc[s] /\ s # r
      BY <1>9, <3>1 DEF TypeOK, Explains, Exchanged, CommitIssue, Goto
    <3>3. owner'[s] = owner[s] /\ call' = call /\ expired' = expired
          /\ revoked \subseteq revoked'
      BY <1>9, <3>2 DEF TypeOK, CommitIssue
    <3>4. pc[s] = "reuse" => owner'[call[s].tok] = owner[call[s].tok]
      BY <2>1, <3>1 DEF Explains, Exchanged
    <3> QED
      BY <2>1, <3>1, <3>2, <3>3, <3>4 DEF Explains, Exchanged
  <2>5. ASSUME NEW t \in held[r] PROVE Explains(r, t)'
    BY <1>9, <2>2, <2>3 DEF TypeOK, Explains, Exchanged, CommitIssue, Goto
  <2>6. \A t \in revoked' : Issued(t)'
    BY <1>9, <2>1, <2>2, <2>3, NoneAssumption DEF CommitIssue, Issued
  <2> QED
    BY <1>9, <2>4, <2>5, <2>6 DEF RevokedOK, RevocationIsExplained, CommitIssue
<1>10. ASSUME NEW r \in Request, CommitRevocation(r) PROVE RevokedOK'
  BY <1>10, NoneAssumption
     DEF TypeOK, CallOK, LocksOK, ReadOK, RevokedOK, RevocationIsExplained, Explains,
         Exchanged, Issued, Refreshing, LoggingOut, Answers, Working, CommitRevocation,
         Commits, Goto
<1>11. ASSUME NEW r \in Request, Fail(r) PROVE RevokedOK'
  BY <1>11
     DEF TypeOK, CallOK, LocksOK, ReadOK, RevokedOK, RevocationIsExplained, Explains,
         Exchanged, Issued, Refreshing, LoggingOut, Answers, Working, Fail, Rollback,
         Goto, store
<1>12. ASSUME NEW r \in Request, Expire(r) PROVE RevokedOK'
  BY <1>12
     DEF TypeOK, CallOK, LocksOK, ReadOK, RevokedOK, RevocationIsExplained, Explains,
         Exchanged, Issued, Refreshing, LoggingOut, Answers, Working, Expire, store
<1>13. CASE UNCHANGED vars
  BY <1>13
     DEF TypeOK, CallOK, LocksOK, ReadOK, RevokedOK, RevocationIsExplained, Explains,
         Exchanged, Issued, Refreshing, LoggingOut, Answers, Working, vars
<1> QED
  BY <1>1, <1>2, <1>3, <1>4, <1>5, <1>6, <1>7, <1>8, <1>9, <1>10, <1>11, <1>12, <1>13, Steps

-----------------------------------------------------------------------------
\* The inductive invariant holds of the empty tables.
LEMMA InvInit == Init => IInv
  BY TypeInit, NoneAssumption
     DEF Init, IInv, CallOK, LocksOK, ReadOK, SweepCoversEarlierSessions, RevokedOK,
         RevocationIsExplained, AccountsOK, Issued, Exchanging, NoCall, Refreshing,
         LoggingOut

\* Every step of the specification preserves the inductive invariant.
LEMMA InvStep == IInv /\ [Next]_vars => IInv'
  BY TypeStep, CallStep, LocksStep, ReadStep, SweepStep, RevokedStep, AccountsStep DEF IInv

\* The inductive invariant holds in every reachable state.
THEOREM Inductive == Spec => []IInv
  BY InvInit, InvStep, PTL DEF Spec

\* Every variable keeps its type: tokens belong to accounts, locks and snapshots
\* to rows that requests have issued.
THEOREM TypeCorrect == Spec => []TypeOK
<1>1. IInv => TypeOK
  BY DEF IInv
<1> QED
  BY Inductive, <1>1, PTL

\* However many requests there are, two of them are given a successor of one token
\* only when both were in flight at once.
THEOREM ReuseDetected == Spec => []ReuseDetectedUnlessConcurrent
<1>1. IInv => ReuseDetectedUnlessConcurrent
  BY DEF IInv, ReadOK, ReuseDetectedUnlessConcurrent, Exchanging, Exchanged
<1> QED
  BY Inductive, <1>1, PTL

\* The answer to a reused token has ended every session that was there before it.
THEOREM SweepCovers == Spec => []SweepCoversEarlierSessions
<1>1. IInv => SweepCoversEarlierSessions
  BY DEF IInv
<1> QED
  BY Inductive, <1>1, PTL

\* No revocation without a request that explains it, whatever fails in between.
THEOREM Explained == Spec => []RevocationIsExplained
<1>1. IInv => RevocationIsExplained
  BY DEF IInv, RevokedOK
<1> QED
  BY Inductive, <1>1, PTL

\* One registration per e-mail address, and no token without one.
THEOREM OneRegistration == Spec => []OneRegistrationPerAccount
<1>1. IInv => OneRegistrationPerAccount
  <2> SUFFICES ASSUME IInv, NEW u \in User PROVE OneRegistrationPerAccount!(u)
    BY DEF OneRegistrationPerAccount
  <2>1. \A r \in Request : owner[r] = u => u \in registered
    BY NoneAssumption DEF IInv, AccountsOK, Issued
  <2> QED
    BY <2>1 DEF IInv, AccountsOK
<1> QED
  BY Inductive, <1>1, PTL

-----------------------------------------------------------------------------
\* The steps the ledger does not see leave its three variables alone.
Unseen == UNCHANGED <<owner, revoked, parent>>

\* Every step of the tables is a step of the ledger or leaves it alone.
LEMMA LedgerStep ==
    ASSUME IInv, [Next]_vars
    PROVE  [Ledger!Next]_(Ledger!ledgerVars)
<1>1. ASSUME NEW r \in Request, NEW u \in User, Register(r, u) PROVE Unseen
  BY <1>1 DEF IInv, TypeOK, Unseen, parent, Register, Receive, Goto, store
<1>2. ASSUME NEW r \in Request, InsertUser(r) PROVE Unseen
  BY <1>2 DEF IInv, TypeOK, Unseen, parent, InsertUser, Goto, store
<1>3. ASSUME NEW r \in Request, NEW u \in User, NEW ok \in BOOLEAN, Login(r, u, ok)
      PROVE Unseen
  BY <1>3 DEF IInv, TypeOK, Unseen, parent, Login, Receive, Goto, store
<1>4. ASSUME NEW r \in Request, NEW t \in Request, Refresh(r, t) PROVE Unseen
  BY <1>4 DEF IInv, TypeOK, Unseen, parent, Refresh, Verdict, Receive, Goto, store
<1>5. ASSUME NEW r \in Request, RevokeRow(r) PROVE Unseen
  BY <1>5 DEF IInv, TypeOK, Unseen, parent, RevokeRow, AfterRevoke, Goto, store
<1>6. ASSUME NEW r \in Request, SweepStart(r) PROVE Unseen
  BY <1>6 DEF IInv, TypeOK, Unseen, parent, SweepStart, Goto, store
<1>7. ASSUME NEW r \in Request, NEW t \in Request, SweepRow(r, t) PROVE Unseen
  BY <1>7 DEF IInv, TypeOK, Unseen, parent, SweepRow, store
<1>8. ASSUME NEW r \in Request, NEW u \in User, NEW t \in Request, Logout(r, u, t)
      PROVE Unseen
  BY <1>8 DEF IInv, TypeOK, Unseen, parent, Logout, Receive, Goto, store
<1>9. ASSUME NEW r \in Request, CommitIssue(r) PROVE Ledger!Next
  <2>1. pc[r] = "issue" /\ owner[r] = None /\ call[r].usr \in User
    BY <1>9 DEF IInv, TypeOK, CallOK, CommitIssue
  <2>2. owner' = [owner EXCEPT ![r] = call[r].usr] /\ revoked' = revoked \cup held[r]
    BY <1>9 DEF CommitIssue
  <2>3. CASE call[r].op = "refresh"
    <3>1. held[r] = {call[r].tok} /\ call[r].tok \in Request
          /\ owner[call[r].tok] = call[r].usr
      BY <2>1, <2>3 DEF IInv, CallOK, LocksOK
    <3>2. parent' = [parent EXCEPT ![r] = call[r].tok]
      BY <1>9, <2>3 DEF IInv, TypeOK, parent, CommitIssue, Goto
    <3>3. Ledger!Exchange(call[r].tok, r)
      BY <2>1, <2>2, <3>1, <3>2, NoneAssumption DEF Ledger!Exchange, Ledger!Granted
    <3> QED
      BY <3>1, <3>3 DEF Ledger!Next
  <2>4. CASE call[r].op # "refresh"
    <3>1. held[r] = {}
      BY <2>1, <2>4 DEF IInv, LocksOK
    <3>2. parent' = parent
      BY <1>9, <2>4 DEF IInv, TypeOK, parent, CommitIssue, Goto
    <3>3. Ledger!SignIn(r, call[r].usr)
      BY <2>1, <2>2, <3>1, <3>2 DEF Ledger!SignIn, Ledger!Granted
    <3> QED
      BY <2>1, <3>3 DEF Ledger!Next
  <2> QED
    BY <2>3, <2>4
<1>10. ASSUME NEW r \in Request, CommitRevocation(r) PROVE Ledger!Next
  <2>1. held[r] \in SUBSET Request /\ call[r].usr \in User
        /\ \A t \in held[r] : owner[t] = call[r].usr
    BY <1>10
       DEF IInv, TypeOK, CallOK, LocksOK, CommitRevocation, Commits, Refreshing,
           LoggingOut
  <2>2. parent' = parent
    BY <1>10 DEF IInv, TypeOK, parent, CommitRevocation, Commits, Goto
  <2>3. Ledger!End(held[r], call[r].usr)
    BY <1>10, <2>1, <2>2 DEF Ledger!End, CommitRevocation
  <2> QED
    BY <2>1, <2>3 DEF Ledger!Next
<1>11. ASSUME NEW r \in Request, Fail(r) PROVE Unseen
  BY <1>11 DEF IInv, TypeOK, Unseen, parent, Fail, Rollback, Goto, store, Working
<1>12. ASSUME NEW r \in Request, Expire(r) PROVE Unseen
  BY <1>12 DEF IInv, TypeOK, Unseen, parent, Expire, store
<1>13. ASSUME UNCHANGED vars PROVE Unseen
  BY <1>13 DEF Unseen, parent, vars
<1>14. Unseen => UNCHANGED Ledger!ledgerVars
  BY DEF Unseen, Ledger!ledgerVars
<1> QED
  BY <1>1, <1>2, <1>3, <1>4, <1>5, <1>6, <1>7, <1>8, <1>9, <1>10, <1>11, <1>12, <1>13,
     <1>14, Steps

\* The tables implement the ledger: every step of the service grants one token,
\* exchanges one, ends a batch of one user's tokens, or changes nothing a client sees.
THEOREM ImplementsLedger == Spec => RefinesLedger
<1>1. Init => Ledger!Init
  BY DEF Init, Ledger!Init, parent, NoCall
<1>2. IInv /\ [Next]_vars => [Ledger!Next]_(Ledger!ledgerVars)
  BY LedgerStep
<1> QED
  BY <1>1, <1>2, Inductive, PTL DEF Spec, RefinesLedger, Ledger!Spec

-----------------------------------------------------------------------------
(* What the two disagreements with the documentation come from *************)

\* r has read its token as live and has not committed yet.
Rotating(r) == Exchanging(r) /\ pc[r] # "tokens"

\* No token is presented again while a rotation of it is under way.
NoDoubleSubmit ==
    \A r, s \in Request : Rotating(r) /\ Rotating(s) /\ call[r].tok = call[s].tok => r = s

\* No token of a user is rotated while the user's tokens are being revoked.
NoRotationDuringSweep ==
    \A r, s \in Request :
        pc[r] \in {"sweep", "sweeping"} /\ Rotating(s) => call[r].usr # call[s].usr

\* One request at most goes on to exchange a token, or has exchanged it.
OneExchange ==
    \A r, s \in Request : Exchanging(r) /\ Exchanging(s) /\ call[r].tok = call[s].tok => r = s

\* A successor of a token that a bulk UPDATE covers was there before the UPDATE, too.
NoEscape ==
    \A r, s \in Request :
        /\ pc[r] \in {"sweeping", "reuse"}
        /\ Exchanging(s)
        /\ call[s].tok \in seen[r]
        /\ call[s].usr = call[r].usr
        => s \in seen[r]

\* s reads a live token and goes on to exchange it.
Accepted(s) ==
    \E t \in Request :
        /\ call'[s].tok = t /\ call'[s].usr = owner[t] /\ Issued(t) /\ t \notin revoked
        /\ pc'[s] = "rotate" /\ pc[s] = "idle"
        /\ \A r \in Request \ {s} : pc'[r] = pc[r] /\ call'[r] = call[r] /\ seen'[r] = seen[r]

\* The exchange of a token begins with the SELECT that finds it live.
LEMMA Exchangers ==
    ASSUME IInv, [Next]_vars, NEW s \in Request, Exchanging(s)'
    PROVE  (Exchanging(s) /\ call'[s] = call[s]) \/ Accepted(s)
<1> DEFINE Goal == (Exchanging(s) /\ call'[s] = call[s]) \/ Accepted(s)
<1> SUFFICES Goal
  OBVIOUS
<1> USE DEF IInv, TypeOK, CallOK, Exchanging, store, Answers, Working, Refreshing, LoggingOut
<1>1. ASSUME NEW r \in Request, NEW u \in User, Register(r, u)
      PROVE Goal
  BY <1>1 DEF Register, Receive, Goto
<1>2. ASSUME NEW r \in Request, InsertUser(r)
      PROVE Goal
  BY <1>2 DEF InsertUser, Goto
<1>3. ASSUME NEW r \in Request, NEW u \in User, NEW ok \in BOOLEAN, Login(r, u, ok)
      PROVE Goal
  BY <1>3 DEF Login, Receive, Goto
<1>4. ASSUME NEW r \in Request, NEW t \in Request, Refresh(r, t)
      PROVE Goal
  <2>1. CASE s = r
    BY <1>4, <2>1 DEF Refresh, Receive, Goto, Verdict, Accepted
  <2>2. CASE s # r
    BY <1>4, <2>2 DEF Refresh, Receive, Goto
  <2> QED
    BY <2>1, <2>2
<1>5. ASSUME NEW r \in Request, RevokeRow(r)
      PROVE Goal
  BY <1>5 DEF RevokeRow, AfterRevoke, Goto
<1>6. ASSUME NEW r \in Request, SweepStart(r)
      PROVE Goal
  BY <1>6 DEF SweepStart, Goto
<1>7. ASSUME NEW r \in Request, NEW t \in Request, SweepRow(r, t)
      PROVE Goal
  BY <1>7 DEF SweepRow
<1>8. ASSUME NEW r \in Request, NEW u \in User, NEW t \in Request, Logout(r, u, t)
      PROVE Goal
  BY <1>8 DEF Logout, Receive, Goto
<1>9. ASSUME NEW r \in Request, CommitIssue(r)
      PROVE Goal
  BY <1>9 DEF CommitIssue, Goto
<1>10. ASSUME NEW r \in Request, CommitRevocation(r)
      PROVE Goal
  BY <1>10 DEF CommitRevocation, Commits, Goto
<1>11. ASSUME NEW r \in Request, Fail(r)
      PROVE Goal
  BY <1>11 DEF Fail, Rollback, Goto
<1>12. ASSUME NEW r \in Request, Expire(r)
      PROVE Goal
  BY <1>12 DEF Expire
<1>13. ASSUME UNCHANGED vars PROVE Goal
  BY <1>13 DEF vars
<1> QED
  BY <1>1, <1>2, <1>3, <1>4, <1>5, <1>6, <1>7, <1>8, <1>9, <1>10, <1>11, <1>12, <1>13,
     Steps

\* A bulk UPDATE keeps its arguments and its snapshot.
LEMMA Sweepers ==
    ASSUME IInv, [Next]_vars, NEW s \in Request, pc'[s] \in {"sweeping", "reuse"}
    PROVE  \/ /\ pc[s] \in {"sweeping", "reuse"} /\ call'[s] = call[s] /\ seen'[s] = seen[s]
              /\ pc[s] = "reuse" => pc'[s] = "reuse"
           \/ SweepStart(s)
<1> DEFINE Goal ==
      \/ /\ pc[s] \in {"sweeping", "reuse"} /\ call'[s] = call[s] /\ seen'[s] = seen[s]
         /\ pc[s] = "reuse" => pc'[s] = "reuse"
      \/ SweepStart(s)
<1> SUFFICES Goal
  OBVIOUS
<1> USE DEF IInv, TypeOK, CallOK, store, Answers, Working, Refreshing, LoggingOut
<1>1. ASSUME NEW r \in Request, NEW u \in User, Register(r, u)
      PROVE Goal
  BY <1>1 DEF Register, Receive, Goto
<1>2. ASSUME NEW r \in Request, InsertUser(r)
      PROVE Goal
  BY <1>2 DEF InsertUser, Goto
<1>3. ASSUME NEW r \in Request, NEW u \in User, NEW ok \in BOOLEAN, Login(r, u, ok)
      PROVE Goal
  BY <1>3 DEF Login, Receive, Goto
<1>4. ASSUME NEW r \in Request, NEW t \in Request, Refresh(r, t)
      PROVE Goal
  BY <1>4 DEF Refresh, Receive, Goto, Verdict
<1>5. ASSUME NEW r \in Request, RevokeRow(r)
      PROVE Goal
  BY <1>5 DEF RevokeRow, AfterRevoke, Goto
<1>6. ASSUME NEW r \in Request, SweepStart(r)
      PROVE Goal
  BY <1>6 DEF SweepStart, Goto
<1>7. ASSUME NEW r \in Request, NEW t \in Request, SweepRow(r, t)
      PROVE Goal
  BY <1>7 DEF SweepRow
<1>8. ASSUME NEW r \in Request, NEW u \in User, NEW t \in Request, Logout(r, u, t)
      PROVE Goal
  BY <1>8 DEF Logout, Receive, Goto
<1>9. ASSUME NEW r \in Request, CommitIssue(r)
      PROVE Goal
  BY <1>9 DEF CommitIssue, Goto
<1>10. ASSUME NEW r \in Request, CommitRevocation(r)
      PROVE Goal
  BY <1>10 DEF CommitRevocation, Commits, Goto
<1>11. ASSUME NEW r \in Request, Fail(r)
      PROVE Goal
  BY <1>11 DEF Fail, Rollback, Goto
<1>12. ASSUME NEW r \in Request, Expire(r)
      PROVE Goal
  BY <1>12 DEF Expire
<1>13. ASSUME UNCHANGED vars PROVE Goal
  BY <1>13 DEF vars
<1> QED
  BY <1>1, <1>2, <1>3, <1>4, <1>5, <1>6, <1>7, <1>8, <1>9, <1>10, <1>11, <1>12, <1>13,
     Steps

\* A second SELECT finds the token revoked, or being rotated.
LEMMA OneExchangeStep ==
    ASSUME IInv, OneExchange, NoDoubleSubmit', [Next]_vars
    PROVE  OneExchange'
<1> SUFFICES ASSUME NEW r \in Request, NEW s \in Request, Exchanging(r)', Exchanging(s)',
                    call'[r].tok = call'[s].tok, r # s
             PROVE  FALSE
  BY DEF OneExchange, Exchanging
<1>1. ASSUME NEW q \in Request, NEW x \in Request, q # x, Accepted(q), Exchanging(q)',
             Exchanging(x)', call'[x].tok = call'[q].tok
      PROVE  FALSE
  <2>1. PICK t \in Request : /\ call'[q].tok = t /\ t \notin revoked /\ pc'[q] = "rotate"
                             /\ pc'[x] = pc[x] /\ call'[x] = call[x]
    BY <1>1 DEF Accepted
  <2>2. pc[x] # "tokens"
    BY <1>1, <2>1 DEF IInv, ReadOK, Exchanging
  <2>3. Rotating(x)' /\ Rotating(q)'
    BY <1>1, <2>1, <2>2 DEF Rotating
  <2> QED
    BY <1>1, <2>3 DEF NoDoubleSubmit
<1>2. CASE Accepted(r)
  BY <1>1, <1>2
<1>3. CASE Accepted(s)
  BY <1>1, <1>3
<1>4. CASE ~ Accepted(r) /\ ~ Accepted(s)
  BY <1>4, Exchangers DEF OneExchange
<1> QED
  BY <1>2, <1>3, <1>4

\* A rotation that begins after the bulk UPDATE finds its token revoked.
LEMMA NoEscapeStep ==
    ASSUME IInv, NoEscape, NoRotationDuringSweep, NoRotationDuringSweep', [Next]_vars
    PROVE  NoEscape'
<1> SUFFICES ASSUME NEW r \in Request, NEW s \in Request, pc'[r] \in {"sweeping", "reuse"},
                    Exchanging(s)', call'[s].tok \in seen'[r], call'[s].usr = call'[r].usr
             PROVE  s \in seen'[r]
  BY DEF NoEscape, Exchanging
<1>1. CASE SweepStart(r)
  <2>1. /\ pc[r] = "sweep" /\ call' = call /\ seen'[r] = Answered
        /\ Exchanging(s)
    BY <1>1 DEF SweepStart, IInv, TypeOK, Exchanging, Goto
  <2>2. pc[s] = "tokens"
    BY <2>1 DEF NoRotationDuringSweep, Rotating
  <2> QED
    BY <2>1, <2>2 DEF Answered, Answers
<1>2. CASE ~ SweepStart(r)
  <2>1. /\ pc[r] \in {"sweeping", "reuse"} /\ call'[r] = call[r] /\ seen'[r] = seen[r]
        /\ pc[r] = "reuse" => pc'[r] = "reuse"
    BY <1>2, Sweepers
  <2>2. CASE Exchanging(s) /\ call'[s] = call[s]
    BY <2>1, <2>2 DEF NoEscape
  <2>3. CASE Accepted(s)
    <3>1. PICK t \in Request : /\ call'[s].tok = t /\ call'[s].usr = owner[t]
                               /\ t \notin revoked /\ pc'[s] = "rotate" /\ pc[s] = "idle"
      BY <2>3 DEF Accepted
    <3>2. pc[r] # "reuse"
      BY <2>1, <3>1 DEF IInv, SweepCoversEarlierSessions
    <3>3. pc'[r] = "sweeping"
      BY <2>1, <2>3, <3>1, <3>2 DEF Accepted
    <3> QED
      BY <3>1, <3>3 DEF NoRotationDuringSweep, Rotating
  <2> QED
    BY <2>2, <2>3, Exchangers
<1> QED
  BY <1>1, <1>2

\* A token is exchanged once, as app/core/openapi.py says, as long as it is not presented
\* again while it is being rotated: the double submit of the run
\* sessions_double_exchange is the only way to a second successor.
THEOREM ExchangedOnceUnlessDoubleSubmit ==
    Spec /\ []NoDoubleSubmit => []ExchangedAtMostOnce
<1>1. Init => OneExchange
  BY DEF Init, OneExchange, Exchanging
<1>2. IInv /\ OneExchange /\ NoDoubleSubmit' /\ [Next]_vars => OneExchange'
  BY OneExchangeStep
<1>3. OneExchange => ExchangedAtMostOnce
  BY DEF OneExchange, ExchangedAtMostOnce, Exchanged, Exchanging
<1> QED
  BY <1>1, <1>2, <1>3, Inductive, PTL DEF Spec

\* "All sessions have been revoked" is true of the sessions and their successors, as
\* long as none of them is being rotated meanwhile: a rotation that overlaps the bulk
\* UPDATE, as in the run sessions_sweep_escape, is the only way out.
THEOREM SweptUnlessRotating ==
    Spec /\ []NoRotationDuringSweep => []SweptSessionsEnd
<1>1. Init => NoEscape
  BY DEF Init, NoEscape
<1>2. /\ IInv /\ NoEscape /\ NoRotationDuringSweep /\ NoRotationDuringSweep' /\ [Next]_vars
      => NoEscape'
  BY NoEscapeStep
<1>3. ASSUME IInv, NoEscape PROVE SweptSessionsEnd
  <2> SUFFICES ASSUME NEW r \in Request, NEW s \in Request, pc[r] = "reuse",
                      Exchanged(s, call[s].tok), call[s].tok \in seen[r], owner[s] = call[r].usr
               PROVE  s \in revoked
    BY DEF SweptSessionsEnd
  <2>1. Exchanging(s) /\ call[s].usr = call[r].usr
    BY <1>3 DEF Exchanged, Exchanging, IInv, CallOK
  <2>2. s \in seen[r]
    BY <1>3, <2>1 DEF NoEscape
  <2> QED
    BY <1>3, <2>2 DEF IInv, SweepCoversEarlierSessions
<1>4. IInv /\ NoEscape => SweptSessionsEnd
  BY <1>3
<1> QED
  BY <1>1, <1>2, <1>4, Inductive, PTL DEF Spec

=============================================================================
