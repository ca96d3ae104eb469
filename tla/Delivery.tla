------------------------------- MODULE Delivery -------------------------------
(***************************************************************************)
(* What a caller may rely on of a background task, whatever happens to the *)
(* workers: once sent it waits until it is begun or a cancellation has it  *)
(* discarded; it is in one body at a time, and begun a limited number of   *)
(* times; once it is over it is over for good.                             *)
(***************************************************************************)
EXTENDS Naturals

CONSTANTS
    Tasks,
    Starts       \* how often each may be begun

VARIABLES
    stage,       \* "unsent", "waiting", "running", "over"
    begun,       \* how often each was begun
    cancelled

Init ==
    /\ stage = [t \in Tasks |-> "unsent"]
    /\ begun = [t \in Tasks |-> 0]
    /\ cancelled = {}

Move(t, from, to) ==
    /\ stage[t] = from
    /\ stage' = [stage EXCEPT ![t] = to]

Send(t) == Move(t, "unsent", "waiting") /\ UNCHANGED <<begun, cancelled>>

Begin(t) ==
    /\ Move(t, "waiting", "running")
    /\ begun[t] < Starts[t]
    /\ begun' = [begun EXCEPT ![t] = @ + 1]
    /\ UNCHANGED cancelled

\* Only a task that may be begun again waits again.
Again(t) ==
    /\ Move(t, "running", "waiting")
    /\ begun[t] < Starts[t]
    /\ UNCHANGED <<begun, cancelled>>

End(t) == Move(t, "running", "over") /\ UNCHANGED <<begun, cancelled>>

Discard(t) ==
    /\ Move(t, "waiting", "over")
    /\ t \in cancelled
    /\ UNCHANGED <<begun, cancelled>>

Cancel(t) ==
    /\ cancelled' = cancelled \cup {t}
    /\ UNCHANGED <<stage, begun>>

Next ==
    \E t \in Tasks :
        Send(t) \/ Begin(t) \/ Again(t) \/ End(t) \/ Discard(t) \/ Cancel(t)

Spec == Init /\ [][Next]_<<stage, begun, cancelled>>
=============================================================================
