---------------------------- MODULE MCSessions ----------------------------
(***************************************************************************)
(* Instances of Sessions for TLC.  Requests are interchangeable, and so    *)
(* are accounts, as long as only safety is checked from the empty database.*)
(*                                                                         *)
(* A reused token and two bulk revocations at once need several sessions   *)
(* to exist first.  WarmInit is the state three requests leave when they   *)
(* are served one after the other: a1 registers alice, a2 logs her in once *)
(* more and a3 exchanges a1's token; two more requests follow.  ColdInit   *)
(* is an empty database on which two logins have been refused; three       *)
(* requests follow.  Spec reaches both.                                    *)
(***************************************************************************)
EXTENDS Sessions, TLC

CONSTANTS alice, a1, a2, a3

Symmetry == Permutations(Request) \cup Permutations(User)

Served0 == {a1, a2, a3}

NothingPending ==
    /\ expired = {}
    /\ held = [r \in Request |-> {}]
    /\ todo = [r \in Request |-> {}]

WarmInit ==
    /\ registered = {alice}
    /\ owner = [r \in Request |-> IF r \in Served0 THEN alice ELSE None]
    /\ revoked = {a1}
    /\ NothingPending
    /\ call = [r \in Request |->
                 CASE r = a1 -> [op |-> "register", usr |-> alice, tok |-> None]
                   [] r = a2 -> [op |-> "login", usr |-> alice, tok |-> None]
                   [] r = a3 -> [op |-> "refresh", usr |-> alice, tok |-> a1]
                   [] OTHER -> NoCall]
    /\ pc = [r \in Request |-> IF r \in Served0 THEN "tokens" ELSE "idle"]
    /\ seen = [r \in Request |-> IF r = a3 THEN {a1, a2} ELSE {}]

ColdInit ==
    /\ registered = {}
    /\ owner = [r \in Request |-> None]
    /\ revoked = {}
    /\ NothingPending
    /\ call = [r \in Request |-> IF r \in Served0 THEN NoCall
                                 ELSE [op |-> "login", usr |-> alice, tok |-> None]]
    /\ pc = [r \in Request |-> IF r \in Served0 THEN "idle" ELSE "unauthorized"]
    /\ seen = [r \in Request |-> {}]

FairWarmOrCold ==
    /\ WarmInit \/ ColdInit
    /\ [][Next]_vars
    /\ \A r \in Request : WF_vars(Serve(r))
=============================================================================
