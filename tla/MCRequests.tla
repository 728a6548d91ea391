----------------------------- MODULE MCRequests -----------------------------
(***************************************************************************)
(* Instance of Requests for TLC.  Placeholder secrets only matter in       *)
(* production, where they keep the process from starting.  Of the other    *)
(* settings two are kept: production with Redis, whose limiter has every   *)
(* answer that any setting gives, and neither, where it has only one.      *)
(***************************************************************************)
EXTENDS Requests

FewInit ==
    /\ Init
    /\ settings.production = settings.redisUrl
    /\ settings.placeholders => settings.production

FairSpecFew == FewInit /\ [][Next]_vars /\ \A r \in Request : WF_vars(Serve(r))
=============================================================================
