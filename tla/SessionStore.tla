----------------------------- MODULE SessionStore -----------------------------
(***************************************************************************)
(* What the whitelist of refresh tokens is, seen from its commits: tokens  *)
(* that are live until they are revoked for good, each the session of one  *)
(* account.  A request takes hold of a live token.  It rotates it in one   *)
(* step, whatever became of the token since, or lets it go.                *)
(***************************************************************************)
CONSTANTS
    Requests,
    Accounts,
    Tokens,
    None

VARIABLES
    live,        \* the tokens that were issued and not revoked
    dead,        \* those that were revoked
    owner,       \* whose session each is
    parent,      \* the token it was rotated from
    holds        \* the token each request has presented

Init ==
    /\ live = {} /\ dead = {}
    /\ owner = [t \in Tokens |-> None]
    /\ parent = [t \in Tokens |-> None]
    /\ holds = [r \in Requests |-> None]

Issue(t, a, from) ==
    /\ t \notin live \cup dead
    /\ owner' = [owner EXCEPT ![t] = a]
    /\ parent' = [parent EXCEPT ![t] = from]

SignIn(t, a) ==
    /\ Issue(t, a, None)
    /\ live' = live \cup {t}
    /\ UNCHANGED <<dead, holds>>

Present(r, t) ==
    /\ holds[r] = None
    /\ t \in live
    /\ holds' = [holds EXCEPT ![r] = t]
    /\ UNCHANGED <<live, dead, owner, parent>>

Release(r) ==
    /\ holds' = [holds EXCEPT ![r] = None]
    /\ UNCHANGED <<live, dead, owner, parent>>

Rotate(r, t) ==
    LET old == holds[r]
    IN  /\ old # None
        /\ Issue(t, owner[old], old)
        /\ live' = (live \ {old}) \cup {t}
        /\ dead' = dead \cup {old}
        /\ holds' = [holds EXCEPT ![r] = None]

Revoke(t) ==
    /\ t \in live
    /\ live' = live \ {t}
    /\ dead' = dead \cup {t}
    /\ UNCHANGED <<owner, parent, holds>>

Next ==
    \/ \E t \in Tokens : Revoke(t) \/ \E a \in Accounts : SignIn(t, a)
    \/ \E r \in Requests :
          \/ Release(r)
          \/ \E t \in Tokens : Present(r, t) \/ Rotate(r, t)

Spec == Init /\ [][Next]_<<live, dead, owner, parent, holds>>
=============================================================================
