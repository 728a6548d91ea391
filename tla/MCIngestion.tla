---------------------------- MODULE MCIngestion ----------------------------
(***************************************************************************)
(* Instances of Ingestion for TLC.  To check liveness on two companies,    *)
(* FairSpecFew starts from two of the states of Init: new tables, where    *)
(* everything is inserted, and tables with p1 closed and the others open.  *)
(***************************************************************************)
EXTENDS Ingestion

CONSTANTS c1, c2, p1, p2, q1

\* q1 is the only posting of c2, the others are c1's.
Placed == [p \in Posting |-> IF p = q1 THEN c2 ELSE c1]

FewInit == Init /\ (seeded => \A p \in Posting : job[p] = IF p = p1 THEN "closed" ELSE "open")
FairSpecFew == FewInit /\ [][Next]_vars /\ \A r \in Run : WF_vars(Serve(r))
=============================================================================
