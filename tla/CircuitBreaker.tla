--------------------------- MODULE CircuitBreaker ---------------------------
(***************************************************************************)
(* The in-memory circuit breaker that stands in front of the AI provider:  *)
(* class CircuitBreaker of app/core/ai_guard.py.  Each method of the class *)
(* runs without an await, so it is one operator on the breaker's value;    *)
(* AIGateway composes them into the steps of a request.                    *)
(*                                                                         *)
(* Data abstraction.  The code compares _failures with the threshold only, *)
(* so the count saturates there.  It compares the wall clock with          *)
(* _opened_at only through their difference, so the model keeps the age of *)
(* the opening, saturating at the cooldown; _opened_at = 0.0 is `~open`.   *)
(***************************************************************************)
EXTENDS Integers

CONSTANTS
    Threshold,    \* AI_CIRCUIT_BREAKER_THRESHOLD
    Cooldown      \* AI_CIRCUIT_BREAKER_COOLDOWN_SECONDS, in ticks of the model

ASSUME BreakerAssumption ==
    /\ Threshold \in Nat \ {0}
    /\ Cooldown \in Nat \ {0}

Breakers == [failures : 0..Threshold, open : BOOLEAN, age : 0..Cooldown]

\* __init__, and what record_success() leaves.
NewBreaker == [failures |-> 0, open |-> FALSE, age |-> 0]

Capped(n) == IF n < Threshold THEN n ELSE Threshold

\* Faulty variants of the definitions below, for mutation tests.
RecordFailureUncounted(b) ==
    [failures |-> b.failures + 1, open |-> b.failures >= Threshold, age |-> 0]
RecordSuccessKeepsCount(b) == [b EXCEPT !.open = FALSE, !.age = 0]
RejectsByCount(b) == b.failures >= Threshold

\* record_failure(): at the threshold every further failure restarts the clock.
RecordFailure(b) ==
    LET failures == Capped(b.failures + 1)
    IN  IF failures >= Threshold
          THEN [failures |-> failures, open |-> TRUE, age |-> 0]
          ELSE [b EXCEPT !.failures = failures]

\* A failed provider call: call_with_timeout() records the failure and
\* re-raises, and the except clause of ai_request() records it again, with no
\* await in between.
RecordFailedCall(b) == RecordFailure(RecordFailure(b))

RecordSuccess(b) == NewBreaker

\* guard() raises while the cooldown runs ...
Rejects(b) == b.open /\ b.age < Cooldown

\* ... and otherwise clears _opened_at, keeping the failure count.
AfterGuard(b) == [b EXCEPT !.open = FALSE, !.age = 0]

\* The wall clock, seen through `time.time() - self._opened_at`.
Aged(b) == [b EXCEPT !.age = @ + 1]
=============================================================================
