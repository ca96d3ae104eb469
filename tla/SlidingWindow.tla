---------------------------- MODULE SlidingWindow ----------------------------
(***************************************************************************)
(* What the README promises of the rate limiter (Layer 4), to within Lag   *)
(* of its clock: of the requests of one key, at most Limit are counted in  *)
(* any Window, one more is rejected only when as many have been, and the   *)
(* limiter fails open.                                                     *)
(***************************************************************************)
EXTENDS Integers, FiniteSets

CONSTANTS
    Members,   \* identities of counted requests; reused once out of the window
    Limit,
    Window,
    Lag        \* how far the time of a request may be from its being counted

VARIABLES
    since,     \* per identity, the ticks since it was counted, up to Oldest
    last       \* how the last request was answered

Oldest == Window + Lag
Within(period) == {m \in Members : since[m] < period}

Init ==
    /\ since = [m \in Members |-> Oldest]
    /\ last = "none"

Count(m) ==
    /\ m \notin Within(Window)
    /\ Cardinality(Within(Window - Lag)) < Limit
    /\ since' = [since EXCEPT ![m] = 0]

Admit == last' = "admitted" /\ \E m \in Members : Count(m)

Reject ==
    /\ Cardinality(Within(Window + Lag)) >= Limit
    /\ last' = "rejected"
    /\ UNCHANGED since

\* Redis cannot be asked, or its answer is lost: the request proceeds, counted
\* or not.
FailOpen ==
    /\ last' = "open"
    /\ UNCHANGED since \/ \E m \in Members : Count(m)

Tick ==
    /\ since' = [m \in Members |-> IF since[m] < Oldest THEN since[m] + 1 ELSE Oldest]
    /\ UNCHANGED last

Next == Admit \/ Reject \/ FailOpen \/ Tick

Spec == Init /\ [][Next]_<<since, last>>
=============================================================================
