--------------------------- MODULE GatewayProofs ---------------------------
(***************************************************************************)
(* Theorems about Gateway, for every set of requests and users, in every   *)
(* environment and however often Redis and the application stop.           *)
(*                                                                         *)
(* A request passes its checks one after the other, and what it does at    *)
(* the end rests on what it was let through with at the start: IInv adds   *)
(* the credential and the row a request works with at each of its steps    *)
(* (CallOK), when it has been counted (CountedOK), that whoever was told of *)
(* a revocation was told of a committed one (RevokedOK), and that somebody *)
(* has asked for every revocation (AskedOK).                               *)
(***************************************************************************)
EXTENDS Gateway, TLAPS

\* What revoke_api_key goes through, and what it has found.
Revoking == {"findKey", "revoke", "commit", "revokedOk", "notFound"}
HasKey == {"revoke", "commit", "revokedOk"}

\* A request works with the credential it came with and the row it has found.
CallOK == \A r \in Request :
    /\ pc[r] = "touch" => call[r].cred.kind = "key"
    /\ pc[r] \in {"mint", "reread", "created"} =>
           call[r].op = "mint" /\ call[r].cred.kind = "bearer"
    /\ pc[r] \in Revoking => call[r].op = "revoke" /\ call[r].cred.kind = "bearer"
    /\ pc[r] = "commit" => held[r] = {call[r].target}
    /\ pc[r] # "idle" => call[r].op # "none"
    /\ call[r].op = "revoke" => call[r].target \in Request
    /\ pc[r] \in HasKey => owner[call[r].target] = call[r].cred.of
    /\ pc[r] \in {"reread", "created"} => owner[r] = call[r].cred.of
    /\ owner[r] # None => /\ pc[r] \in {"reread", "created", "error"}
                          /\ call[r].op = "mint" /\ call[r].cred.kind = "bearer"
                          /\ owner[r] = call[r].cred.of

\* Redis counts a request once it has a principal, and what production serves.
CountedOK ==
    /\ \A r \in counted : pc[r] \notin {"idle", "touch", "limit"}
    /\ ServedIsCounted

\* A revocation that was answered is committed.
RevokedOK == \A r \in Revocations : call[r].target \in revoked

\* A revocation was asked for by a request that has succeeded or failed since.
AskedOK == \A k \in revoked : \E r \in Request :
    /\ pc[r] \in {"revokedOk", "error"} /\ call[r].op = "revoke"
    /\ call[r].target = k /\ call[r].cred = [kind |-> "bearer", of |-> owner[k]]

\* The inductive invariant.
IInv ==
    /\ TypeOK
    /\ CallOK
    /\ CountedOK
    /\ RevokedOK
    /\ RevocationIsImmediate
    /\ AskedOK

\* A credential says of whom: a key of the request that minted it, a bearer token of
\* a user.
LEMMA CredentialOf ==
    ASSUME NEW c \in Credential
    PROVE  /\ c.kind \in {"key", "bearer", "none", "unknown"}
           /\ c.kind = "key" => c.of \in Request
           /\ c.kind = "bearer" => c.of \in User
           /\ c = [kind |-> c.kind, of |-> c.of]
  BY DEF Credential

\* resolve_principal rejects the request or lets it go on, with a live key or none.
LEMMA Resolved ==
    ASSUME NEW c \in Credential
    PROVE  /\ Resolve(c) \in {"unauthorized", "touch", "limit"}
           /\ Resolve(c) = "touch" => c.kind = "key"
           /\ c.kind = "key" /\ Resolve(c) # "unauthorized" => Live(c.of)
  BY CredentialOf DEF Resolve

\* Behind the limiter a request is served, or manages keys with a bearer token.
LEMMA Limited ==
    ASSUME TypeOK, CallOK, NEW r \in Request, pc[r] = "limit"
    PROVE  /\ AfterLimit(r) \in {"served", "mint", "findKey", "unauthorized"}
           /\ AfterLimit(r) = "mint" => call[r].op = "mint" /\ call[r].cred.kind = "bearer"
           /\ AfterLimit(r) = "findKey" =>
                  call[r].op = "revoke" /\ call[r].cred.kind = "bearer"
  BY DEF TypeOK, CallOK, AfterLimit, Operations

\* Before the first request nothing is minted, counted or revoked.
LEMMA InitOK == Init => IInv
  BY NoneAssumption
     DEF Init, IInv, TypeOK, CallOK, CountedOK, RevokedOK, Revocations, Revoking, HasKey,
         RevocationIsImmediate, AskedOK, ServedIsCounted, NoCall,
         Operations, Answers, Working, Credential

\* The steps of Gateway, one by one.
LEMMA Steps ==
    ASSUME [Next]_vars
    PROVE  \/ \E r \in Request, op \in {"visit", "mint", "revoke"}, c \in Presented,
                 k \in Request \cup {None} :
                 (op = "revoke" <=> k \in Request) /\ Arrive(r, op, c, k)
           \/ \E r \in Request : Touch(r)
           \/ \E r \in Request, allowed \in BOOLEAN : Count(r, allowed)
           \/ \E r \in Request : CountFails(r)
           \/ \E r \in Request, ack \in BOOLEAN : Mint(r, ack)
           \/ \E r \in Request : Reread(r)
           \/ \E r \in Request : FindKey(r)
           \/ \E r \in Request : RevokeRow(r)
           \/ \E r \in Request, ack \in BOOLEAN : Commit(r, ack)
           \/ \E r \in Request : Fail(r)
           \/ \E restart \in BOOLEAN : RedisStops(restart)
           \/ RedisStarts
           \/ Restart
           \/ UNCHANGED vars
  BY NoneAssumption DEF Next, Serve

\* No step takes a variable out of its type.
LEMMA TypeStep ==
    ASSUME TypeOK, CallOK, [Next]_vars
    PROVE  TypeOK'
<1> USE DEF TypeOK, CallOK, Revoking, HasKey, Operations, Goto, keys, limiter, Answers,
            Working
<1>1. ASSUME NEW r \in Request, NEW op \in {"visit", "mint", "revoke"}, NEW c \in Presented,
             NEW k \in Request \cup {None}, op = "revoke" <=> k \in Request,
             Arrive(r, op, c, k)
      PROVE TypeOK'
  BY <1>1, Resolved, CredentialOf DEF Arrive, Presented, Revocations
<1>2. ASSUME NEW r \in Request, Touch(r) PROVE TypeOK'
  BY <1>2 DEF Touch
<1>3. ASSUME NEW r \in Request, NEW allowed \in BOOLEAN, Count(r, allowed) PROVE TypeOK'
  BY <1>3, Limited DEF Count
<1>4. ASSUME NEW r \in Request, CountFails(r) PROVE TypeOK'
  BY <1>4, Limited DEF CountFails
<1>5. ASSUME NEW r \in Request, NEW ack \in BOOLEAN, Mint(r, ack) PROVE TypeOK'
  BY <1>5, CredentialOf DEF Mint
<1>6. ASSUME NEW r \in Request, FindKey(r) PROVE TypeOK'
  BY <1>6, CredentialOf DEF FindKey
<1>7. ASSUME NEW r \in Request, RevokeRow(r) PROVE TypeOK'
  BY <1>7 DEF RevokeRow
<1>8. ASSUME NEW r \in Request, NEW ack \in BOOLEAN, Commit(r, ack) PROVE TypeOK'
  BY <1>8 DEF Commit
<1>9. ASSUME NEW r \in Request, Fail(r) PROVE TypeOK'
  BY <1>9 DEF Fail
<1>10. ASSUME NEW restart \in BOOLEAN, RedisStops(restart) PROVE TypeOK'
  BY <1>10 DEF RedisStops
<1>11. CASE RedisStarts
  BY <1>11 DEF RedisStarts
<1>12. CASE Restart
  BY <1>12 DEF Restart
<1>13. ASSUME NEW r \in Request, Reread(r) PROVE TypeOK'
  BY <1>13 DEF Reread
<1>14. CASE UNCHANGED vars
  BY <1>14 DEF vars
<1> QED
  BY <1>1, <1>2, <1>3, <1>4, <1>5, <1>6, <1>7, <1>8, <1>9, <1>10, <1>11, <1>12, <1>13, <1>14,
     Steps

\* Nobody changes the credential of a request, or the user of the key it has found.
LEMMA CallStep ==
    ASSUME TypeOK, CallOK, [Next]_vars
    PROVE  CallOK'
<1> USE NoneAssumption DEF TypeOK, CallOK, Revoking, HasKey, Goto, keys, limiter,
                           Answers, Working
<1>1. ASSUME NEW r \in Request, NEW op \in {"visit", "mint", "revoke"}, NEW c \in Presented,
             NEW k \in Request \cup {None}, op = "revoke" <=> k \in Request,
             Arrive(r, op, c, k)
      PROVE CallOK'
  BY <1>1, Resolved, CredentialOf DEF Arrive, Presented, Revocations
<1>2. ASSUME NEW r \in Request, Touch(r) PROVE CallOK'
  BY <1>2 DEF Touch
<1>3. ASSUME NEW r \in Request, NEW allowed \in BOOLEAN, Count(r, allowed) PROVE CallOK'
  BY <1>3, Limited DEF Count
<1>4. ASSUME NEW r \in Request, CountFails(r) PROVE CallOK'
  BY <1>4, Limited DEF CountFails
<1>5. ASSUME NEW r \in Request, NEW ack \in BOOLEAN, Mint(r, ack) PROVE CallOK'
  BY <1>5, CredentialOf DEF Mint
<1>6. ASSUME NEW r \in Request, FindKey(r) PROVE CallOK'
  BY <1>6, CredentialOf DEF FindKey
<1>7. ASSUME NEW r \in Request, RevokeRow(r) PROVE CallOK'
  BY <1>7 DEF RevokeRow
<1>8. ASSUME NEW r \in Request, NEW ack \in BOOLEAN, Commit(r, ack) PROVE CallOK'
  BY <1>8 DEF Commit
<1>9. ASSUME NEW r \in Request, Fail(r) PROVE CallOK'
  BY <1>9 DEF Fail
<1>10. ASSUME NEW restart \in BOOLEAN, RedisStops(restart) PROVE CallOK'
  BY <1>10 DEF RedisStops
<1>11. CASE RedisStarts
  BY <1>11 DEF RedisStarts
<1>12. CASE Restart
  BY <1>12 DEF Restart
<1>13. ASSUME NEW r \in Request, Reread(r) PROVE CallOK'
  BY <1>13 DEF Reread
<1>14. CASE UNCHANGED vars
  BY <1>14 DEF vars
<1> QED
  BY <1>1, <1>2, <1>3, <1>4, <1>5, <1>6, <1>7, <1>8, <1>9, <1>10, <1>11, <1>12, <1>13, <1>14,
     Steps

\* A request is counted as it passes the limiter; only outside production it may pass without.
LEMMA CountedStep ==
    ASSUME TypeOK, CallOK, CountedOK, [Next]_vars
    PROVE  CountedOK'
<1> USE DEF TypeOK, CountedOK, ServedIsCounted, Goto, keys, limiter, Answers, Working
<1>1. ASSUME NEW r \in Request, NEW op \in {"visit", "mint", "revoke"}, NEW c \in Presented,
             NEW k \in Request \cup {None}, op = "revoke" <=> k \in Request,
             Arrive(r, op, c, k)
      PROVE CountedOK'
  BY <1>1, Resolved, CredentialOf DEF Arrive, Presented, Revocations
<1>2. ASSUME NEW r \in Request, Touch(r) PROVE CountedOK'
  BY <1>2 DEF Touch
<1>3. ASSUME NEW r \in Request, NEW allowed \in BOOLEAN, Count(r, allowed) PROVE CountedOK'
  BY <1>3, Limited DEF Count
<1>4. ASSUME NEW r \in Request, CountFails(r) PROVE CountedOK'
  BY <1>4, Limited DEF CountFails
<1>5. ASSUME NEW r \in Request, NEW ack \in BOOLEAN, Mint(r, ack) PROVE CountedOK'
  BY <1>5, CredentialOf DEF Mint
<1>6. ASSUME NEW r \in Request, FindKey(r) PROVE CountedOK'
  BY <1>6, CredentialOf DEF FindKey
<1>7. ASSUME NEW r \in Request, RevokeRow(r) PROVE CountedOK'
  BY <1>7 DEF RevokeRow
<1>8. ASSUME NEW r \in Request, NEW ack \in BOOLEAN, Commit(r, ack) PROVE CountedOK'
  BY <1>8 DEF Commit
<1>9. ASSUME NEW r \in Request, Fail(r) PROVE CountedOK'
  BY <1>9 DEF Fail
<1>10. ASSUME NEW restart \in BOOLEAN, RedisStops(restart) PROVE CountedOK'
  BY <1>10 DEF RedisStops
<1>11. CASE RedisStarts
  BY <1>11 DEF RedisStarts
<1>12. CASE Restart
  BY <1>12 DEF Restart
<1>13. ASSUME NEW r \in Request, Reread(r) PROVE CountedOK'
  BY <1>13 DEF Reread
<1>14. CASE UNCHANGED vars
  BY <1>14 DEF vars
<1> QED
  BY <1>1, <1>2, <1>3, <1>4, <1>5, <1>6, <1>7, <1>8, <1>9, <1>10, <1>11, <1>12, <1>13, <1>14,
     Steps

\* A handler commits the revocation it answers, and no revocation is undone.
LEMMA RevokedStep ==
    ASSUME TypeOK, CallOK, RevokedOK, [Next]_vars
    PROVE  RevokedOK'
<1> USE DEF TypeOK, CallOK, RevokedOK, Revoking, HasKey, Revocations, Goto, keys,
            limiter, Answers, Working
<1>1. ASSUME NEW r \in Request, NEW op \in {"visit", "mint", "revoke"}, NEW c \in Presented,
             NEW k \in Request \cup {None}, op = "revoke" <=> k \in Request,
             Arrive(r, op, c, k)
      PROVE RevokedOK'
  BY <1>1, Resolved, CredentialOf DEF Arrive, Presented
<1>2. ASSUME NEW r \in Request, Touch(r) PROVE RevokedOK'
  BY <1>2 DEF Touch
<1>3. ASSUME NEW r \in Request, NEW allowed \in BOOLEAN, Count(r, allowed) PROVE RevokedOK'
  BY <1>3, Limited DEF Count
<1>4. ASSUME NEW r \in Request, CountFails(r) PROVE RevokedOK'
  BY <1>4, Limited DEF CountFails
<1>5. ASSUME NEW r \in Request, NEW ack \in BOOLEAN, Mint(r, ack) PROVE RevokedOK'
  BY <1>5, CredentialOf DEF Mint
<1>6. ASSUME NEW r \in Request, FindKey(r) PROVE RevokedOK'
  BY <1>6, CredentialOf DEF FindKey
<1>7. ASSUME NEW r \in Request, RevokeRow(r) PROVE RevokedOK'
  BY <1>7 DEF RevokeRow
<1>8. ASSUME NEW r \in Request, NEW ack \in BOOLEAN, Commit(r, ack) PROVE RevokedOK'
  <2> SUFFICES ASSUME NEW q \in Revocations' PROVE call'[q].target \in revoked'
    OBVIOUS
  <2>1. CASE q = r
    BY <1>8, <2>1 DEF Commit
  <2>2. CASE q # r
    BY <1>8, <2>2 DEF Commit
  <2> QED
    BY <2>1, <2>2
<1>9. ASSUME NEW r \in Request, Fail(r) PROVE RevokedOK'
  BY <1>9 DEF Fail
<1>10. ASSUME NEW restart \in BOOLEAN, RedisStops(restart) PROVE RevokedOK'
  BY <1>10 DEF RedisStops
<1>11. CASE RedisStarts
  BY <1>11 DEF RedisStarts
<1>12. CASE Restart
  BY <1>12 DEF Restart
<1>13. ASSUME NEW r \in Request, Reread(r) PROVE RevokedOK'
  BY <1>13 DEF Reread
<1>14. CASE UNCHANGED vars
  BY <1>14 DEF vars
<1> QED
  BY <1>1, <1>2, <1>3, <1>4, <1>5, <1>6, <1>7, <1>8, <1>9, <1>10, <1>11, <1>12, <1>13, <1>14,
     Steps

\* A request with a revoked key stops at resolve_principal.
LEMMA ImmediateStep ==
    ASSUME TypeOK, CallOK, CountedOK, RevokedOK, RevocationIsImmediate, [Next]_vars
    PROVE  RevocationIsImmediate'
<1> USE DEF TypeOK, CountedOK, RevokedOK, Revocations, RevocationIsImmediate, Goto, keys,
            limiter, Answers, Working
<1>1. ASSUME NEW r \in Request, NEW op \in {"visit", "mint", "revoke"}, NEW c \in Presented,
             NEW k \in Request \cup {None}, op = "revoke" <=> k \in Request,
             Arrive(r, op, c, k)
      PROVE RevocationIsImmediate'
  <2> SUFFICES ASSUME NEW q \in Request PROVE RevocationIsImmediate!(q)'
    OBVIOUS
  <2>1. CASE q = r
    <3>1. call'[r].cred = c /\ pc'[r] = Resolve(c) /\ r \notin counted'
      BY <1>1 DEF Arrive
    <3>2. ASSUME c.kind = "key", c.of \in ended'[r] PROVE c.of \in revoked
      BY <1>1, <3>2 DEF Arrive
    <3> QED
      BY <2>1, <3>1, <3>2, Resolved DEF Presented, Live
  <2>2. CASE q # r
    BY <1>1, <2>2 DEF Arrive
  <2> QED
    BY <2>1, <2>2
<1>2. ASSUME NEW r \in Request, Touch(r) PROVE RevocationIsImmediate'
  BY <1>2 DEF Touch
<1>3. ASSUME NEW r \in Request, NEW allowed \in BOOLEAN, Count(r, allowed)
      PROVE RevocationIsImmediate'
  BY <1>3, Limited DEF Count
<1>4. ASSUME NEW r \in Request, CountFails(r) PROVE RevocationIsImmediate'
  BY <1>4, Limited DEF CountFails
<1>5. ASSUME NEW r \in Request, NEW ack \in BOOLEAN, Mint(r, ack) PROVE RevocationIsImmediate'
  BY <1>5, CredentialOf DEF Mint
<1>6. ASSUME NEW r \in Request, FindKey(r) PROVE RevocationIsImmediate'
  BY <1>6, CredentialOf DEF FindKey
<1>7. ASSUME NEW r \in Request, RevokeRow(r) PROVE RevocationIsImmediate'
  BY <1>7 DEF RevokeRow
<1>8. ASSUME NEW r \in Request, NEW ack \in BOOLEAN, Commit(r, ack)
      PROVE RevocationIsImmediate'
  BY <1>8 DEF Commit
<1>9. ASSUME NEW r \in Request, Fail(r) PROVE RevocationIsImmediate'
  BY <1>9 DEF Fail
<1>10. ASSUME NEW restart \in BOOLEAN, RedisStops(restart) PROVE RevocationIsImmediate'
  BY <1>10 DEF RedisStops
<1>11. CASE RedisStarts
  BY <1>11 DEF RedisStarts
<1>12. CASE Restart
  BY <1>12 DEF Restart
<1>13. ASSUME NEW r \in Request, Reread(r) PROVE RevocationIsImmediate'
  BY <1>13 DEF Reread
<1>14. CASE UNCHANGED vars
  BY <1>14 DEF vars
<1> QED
  BY <1>1, <1>2, <1>3, <1>4, <1>5, <1>6, <1>7, <1>8, <1>9, <1>10, <1>11, <1>12, <1>13, <1>14,
     Steps

\* Only revoke_api_key revokes a key, one of the user that asks for it.
LEMMA AskedStep ==
    ASSUME TypeOK, CallOK, AskedOK, [Next]_vars
    PROVE  AskedOK'
<1> USE NoneAssumption DEF TypeOK, CallOK, Revoking, HasKey, Goto, keys, limiter,
                           Answers, Working
<1>1. ASSUME NEW r \in Request, NEW op \in {"visit", "mint", "revoke"}, NEW c \in Presented,
             NEW k \in Request \cup {None}, op = "revoke" <=> k \in Request,
             Arrive(r, op, c, k)
      PROVE AskedOK'
  BY <1>1, Resolved, CredentialOf DEF Arrive, Presented, Revocations,
                                      AskedOK
<1>2. ASSUME NEW r \in Request, Touch(r) PROVE AskedOK'
  BY <1>2 DEF Touch, AskedOK
<1>3. ASSUME NEW r \in Request, NEW allowed \in BOOLEAN, Count(r, allowed)
      PROVE AskedOK'
  BY <1>3, Limited DEF Count, AskedOK
<1>4. ASSUME NEW r \in Request, CountFails(r) PROVE AskedOK'
  BY <1>4, Limited DEF CountFails, AskedOK
<1>5. ASSUME NEW r \in Request, NEW ack \in BOOLEAN, Mint(r, ack) PROVE AskedOK'
  <2> SUFFICES ASSUME NEW k \in revoked' PROVE AskedOK!(k)'
    BY DEF AskedOK
  <2>1. owner[r] = None /\ r \notin revoked
    <3>1. owner[r] = None
      BY <1>5 DEF Mint
    <3>2. SUFFICES ASSUME NEW s \in Request, call[s].cred = [kind |-> "bearer", of |-> None]
                   PROVE FALSE
      BY <3>1 DEF AskedOK
    <3>3. call[s].cred \in Credential
      OBVIOUS
    <3> QED
      BY <3>2, <3>3, CredentialOf
  <2>2. CASE k = r
    <3>1. call[r].cred = [kind |-> "bearer", of |-> owner'[r]]
      BY <1>5, CredentialOf DEF Mint
    <3> QED
      BY <1>5, <2>1, <2>2, <3>1 DEF Mint
  <2>3. CASE k # r
    BY <1>5, <2>3 DEF Mint, AskedOK
  <2> QED
    BY <2>2, <2>3
<1>6. ASSUME NEW r \in Request, FindKey(r) PROVE AskedOK'
  BY <1>6, CredentialOf DEF FindKey, AskedOK
<1>7. ASSUME NEW r \in Request, RevokeRow(r) PROVE AskedOK'
  BY <1>7 DEF RevokeRow, AskedOK
<1>8. ASSUME NEW r \in Request, NEW ack \in BOOLEAN, Commit(r, ack) PROVE AskedOK'
  <2> SUFFICES ASSUME NEW k \in revoked' PROVE AskedOK!(k)'
    BY DEF AskedOK
  <2>1. CASE k \in held[r]
    <3>1. call[r].target = k /\ pc[r] = "commit" /\ call[r].cred.of = owner[k]
      BY <1>8, <2>1 DEF Commit
    <3>2. call[r].cred = [kind |-> "bearer", of |-> owner[k]]
      BY <3>1, CredentialOf
    <3> QED
      BY <1>8, <3>1, <3>2 DEF Commit, AskedOK
  <2>2. CASE k \notin held[r]
    BY <1>8, <2>2 DEF Commit, AskedOK
  <2> QED
    BY <2>1, <2>2
<1>9. ASSUME NEW r \in Request, Fail(r) PROVE AskedOK'
  BY <1>9 DEF Fail, AskedOK
<1>10. ASSUME NEW restart \in BOOLEAN, RedisStops(restart) PROVE AskedOK'
  BY <1>10 DEF RedisStops, AskedOK
<1>11. CASE RedisStarts
  BY <1>11 DEF RedisStarts, AskedOK
<1>12. CASE Restart
  <2> SUFFICES ASSUME NEW k \in revoked' PROVE AskedOK!(k)'
    BY DEF AskedOK
  <2>1. \A r \in Request : pc[r] \in {"created", "revokedOk"} => pc'[r] = pc[r]
    BY <1>12 DEF Restart
  <2> QED
    BY <1>12, <2>1 DEF Restart, AskedOK
<1>13. ASSUME NEW r \in Request, Reread(r) PROVE AskedOK'
  BY <1>13 DEF Reread, AskedOK
<1>14. CASE UNCHANGED vars
  BY <1>14 DEF vars, AskedOK
<1> QED
  BY <1>1, <1>2, <1>3, <1>4, <1>5, <1>6, <1>7, <1>8, <1>9, <1>10, <1>11, <1>12, <1>13, <1>14,
     Steps

\* The inductive invariant holds throughout.
LEMMA Inductive == Spec => []IInv
<1>1. IInv /\ [Next]_vars => IInv'
  BY TypeStep, CallStep, CountedStep, RevokedStep, ImmediateStep, AskedStep DEF IInv
<1> QED
  BY InitOK, <1>1, PTL DEF Spec

\* Every variable of Gateway keeps its type, and a row of api_keys is locked only by
\* the request that is about to commit its revocation.
THEOREM TypeCorrect == Spec => []TypeOK
<1>1. IInv => TypeOK
  BY DEF IInv
<1> QED
  BY Inductive, <1>1, PTL

\* Once revoke_api_key has answered, a request that comes with that key is refused
\* by resolve_principal and leaves no trace in the limiter (jobs_service.py).
THEOREM Immediate == Spec => []RevocationIsImmediate
<1>1. IInv => RevocationIsImmediate
  BY DEF IInv
<1> QED
  BY Inductive, <1>1, PTL

\* A key that create_api_key gives away exists and a revocation that is answered is
\* committed; every row of api_keys and every revoked_at goes back to a request with a
\* bearer token of the key's user, which has succeeded or has failed at or after its
\* commit (api_key_service.py), whatever was lost.
THEOREM Managed == Spec => []KeysAreManagedBySessions
<1>1. ASSUME TypeOK, CallOK, RevokedOK, AskedOK PROVE KeysAreManagedBySessions
  <2> SUFFICES ASSUME NEW k \in Request PROVE KeysAreManagedBySessions!(k)
    BY DEF KeysAreManagedBySessions
  <2>1. pc[k] = "created" => owner[k] # None
    <3> SUFFICES ASSUME pc[k] = "created" PROVE owner[k] # None
      OBVIOUS
    <3>1. call[k].cred \in Credential /\ call[k].cred.kind = "bearer"
          /\ owner[k] = call[k].cred.of
      BY <1>1 DEF TypeOK, CallOK
    <3> QED
      BY <3>1, CredentialOf, NoneAssumption
  <2>2. owner[k] # None =>
           /\ pc[k] \in {"reread", "created", "error"} /\ call[k].op = "mint"
           /\ call[k].cred = [kind |-> "bearer", of |-> owner[k]]
    <3> SUFFICES ASSUME owner[k] # None
                 PROVE  /\ pc[k] \in {"reread", "created", "error"} /\ call[k].op = "mint"
                        /\ call[k].cred = [kind |-> "bearer", of |-> owner[k]]
      OBVIOUS
    <3>1. /\ call[k].cred \in Credential /\ call[k].cred.kind = "bearer"
          /\ owner[k] = call[k].cred.of
          /\ pc[k] \in {"reread", "created", "error"} /\ call[k].op = "mint"
      BY <1>1 DEF TypeOK, CallOK
    <3> QED
      BY <3>1, CredentialOf
  <2>3. pc[k] = "revokedOk" => call[k].target \in revoked
    BY <1>1 DEF CallOK, Revoking, RevokedOK, Revocations
  <2> QED
    BY <1>1, <2>1, <2>2, <2>3 DEF AskedOK
<1>2. IInv => KeysAreManagedBySessions
  BY <1>1 DEF IInv
<1> QED
  BY Inductive, <1>2, PTL

\* In production apply_rate_limit lets nothing through that Redis has not counted,
\* through any number of restarts of Redis and of the application.
THEOREM Counted == Spec => []ServedIsCounted
<1>1. IInv => ServedIsCounted
  BY DEF IInv, CountedOK
<1> QED
  BY Inductive, <1>1, PTL

-----------------------------------------------------------------------------
(* Why production answers 503 while Redis is up ****************************)

\* Redis does not lose the script it has loaded.
KeepsTheScript == cached => cached'

\* The call fails only while Redis is down.
ScriptOK == (sha => cached) /\ foundUp = {}

\* No step makes the application call a script that Redis lacks, unless Redis loses it.
LEMMA ScriptStep ==
    ASSUME ScriptOK, [KeepsTheScript]_vars, [Next]_vars
    PROVE  ScriptOK'
<1> USE DEF ScriptOK, keys, limiter
<1>1. ASSUME NEW r \in Request, NEW op \in {"visit", "mint", "revoke"}, NEW c \in Presented,
             NEW k \in Request \cup {None}, Arrive(r, op, c, k)
      PROVE ScriptOK'
  BY <1>1 DEF Arrive
<1>2. ASSUME NEW r \in Request, Serve(r) \/ Fail(r) PROVE ScriptOK'
  BY <1>2 DEF Serve, Touch, Count, CountFails, ScriptRuns, Mint, Reread, FindKey, RevokeRow,
              Commit, Fail
<1>3. ASSUME NEW restart \in BOOLEAN, RedisStops(restart) PROVE ScriptOK'
  <2>1. vars' # vars
    BY <1>3 DEF RedisStops, vars, limiter
  <2> QED
    BY <1>3, <2>1 DEF RedisStops, KeepsTheScript
<1>4. CASE RedisStarts
  BY <1>4 DEF RedisStarts
<1>5. CASE Restart
  <2>1. sha' = redisUp /\ foundUp' = {}
    BY <1>5 DEF Restart
  <2>2. redisUp => cached'
    BY <1>5, Zenon DEF Restart
  <2> QED
    BY <2>1, <2>2
<1>6. CASE UNCHANGED vars
  BY <1>6 DEF vars
<1> QED
  BY <1>1, <1>2, <1>3, <1>4, <1>5, <1>6 DEF Next

\* check_rate_limit answers "Rate limiter unavailable" only while Redis is down, as long
\* as Redis does not lose the script: what the run gateway_restart shows comes from
\* nothing else, whatever else stops.
THEOREM UnavailableOnlyByTheScript ==
    Spec /\ [][KeepsTheScript]_vars => []UnavailableOnlyWhileDown
<1>1. Init => ScriptOK
  BY DEF Init, ScriptOK
<1>2. ScriptOK /\ [KeepsTheScript]_vars /\ [Next]_vars => ScriptOK'
  BY ScriptStep
<1>3. ScriptOK => UnavailableOnlyWhileDown
  BY DEF ScriptOK, UnavailableOnlyWhileDown
<1> QED
  BY <1>1, <1>2, <1>3, PTL DEF Spec
=============================================================================
