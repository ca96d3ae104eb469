------------------------------- MODULE Budget -------------------------------
(***************************************************************************)
(* What a quota of enforce_ai_limits() is: a budget of one user and one    *)
(* period that is spent after the fact.  A request is let in while the     *)
(* budget is not used up, holds a reservation of at most MaxTokens that    *)
(* nobody counts, and then spends what it needed, or nothing.  A new       *)
(* period starts with nothing used and forgets the old reservations.       *)
(***************************************************************************)
EXTENDS Integers

CONSTANTS
    Holders,     \* who may hold a reservation
    Limit,
    MaxTokens

VARIABLES
    used,        \* what was spent in this period
    held         \* the holders of a reservation of this period

Init == used = 0 /\ held = {}

Reserve(h) ==
    /\ used < Limit
    /\ h \notin held
    /\ held' = held \cup {h}
    /\ UNCHANGED used

Spend(h) ==
    /\ h \in held
    /\ held' = held \ {h}
    /\ used <= used' /\ used' <= used + MaxTokens

\* The process restarts: no reservation is left.
ForgetAll == held' = {} /\ UNCHANGED used

NewPeriod == used' = 0 /\ held' = {}

Next ==
    \/ \E h \in Holders : Reserve(h) \/ Spend(h)
    \/ ForgetAll
    \/ NewPeriod

Spec == Init /\ [][Next]_<<used, held>>
=============================================================================
