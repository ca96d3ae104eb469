----------------------------- MODULE MCSessions -----------------------------
(* Symmetry and a bound for the runs of Sessions.                           *)
EXTENDS Sessions, TLC

\* Actions and properties treat the members of each set alike.
Symmetry == Permutations(Requests) \cup Permutations(Tokens)

\* An account of which passwords are guessed has no more than two sessions: the
\* lockout counts between sign-ins and reads no token, so that longer lines of
\* tokens are explored without wrong passwords.
LockoutOrRotation ==
    \A a \in Accounts : wrong[a] > 0 => Cardinality(issued) <= 2
=============================================================================
