--------------------------- MODULE SessionLedger ---------------------------
(***************************************************************************)
(* What the refresh-token store promises to the rest of the API, with no   *)
(* requests, transactions or locks in it: a ledger of tokens.  A token is  *)
(* granted once and belongs to one user for ever; a token granted in       *)
(* exchange for another one names it, belongs to the same user, and        *)
(* appears in the very step that ends the old one; tokens end in batches   *)
(* that never cross from one user to another; nothing brings an ended      *)
(* token back.  Sessions.tla implements this ledger.                       *)
(*                                                                         *)
(* The ledger does not say that the exchanged token was still live: the    *)
(* code does not promise it (see ExchangedAtMostOnce in Sessions.tla).     *)
(***************************************************************************)
CONSTANTS Token, User, None

VARIABLES
    owner,     \* owner[t]: the user t belongs to, None before t is granted
    ended,     \* the tokens that can no longer be exchanged
    parent     \* parent[t]: the token t was given for, None after a sign-in

ledgerVars == <<owner, ended, parent>>

Granted(t) == owner[t] # None

\* A new ledger, or what earlier grants and exchanges have left.
Init ==
    /\ owner \in [Token -> User \cup {None}]
    /\ ended \subseteq {t \in Token : Granted(t)}
    /\ parent \in [Token -> ended \cup {None}]
    /\ \A t \in Token : parent[t] # None => owner[t] = owner[parent[t]]

\* A registration or a login: a token that replaces none.
SignIn(t, u) ==
    /\ ~ Granted(t)
    /\ owner' = [owner EXCEPT ![t] = u]
    /\ UNCHANGED <<ended, parent>>

\* A rotation: old ends and new begins, for the same user, in one step.
Exchange(old, new) ==
    /\ Granted(old)
    /\ ~ Granted(new)
    /\ owner' = [owner EXCEPT ![new] = owner[old]]
    /\ ended' = ended \cup {old}
    /\ parent' = [parent EXCEPT ![new] = old]

\* A logout, an expiry or the answer to a reused token.
End(T, u) ==
    /\ \A t \in T : owner[t] = u
    /\ ended' = ended \cup T
    /\ UNCHANGED <<owner, parent>>

Next ==
    \/ \E t \in Token, u \in User : SignIn(t, u)
    \/ \E old, new \in Token : Exchange(old, new)
    \/ \E T \in SUBSET Token, u \in User : End(T, u)

Spec == Init /\ [][Next]_ledgerVars
=============================================================================
