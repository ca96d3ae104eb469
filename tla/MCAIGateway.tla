----------------------------- MODULE MCAIGateway -----------------------------
(* Values for the constants of AIGateway that a .cfg file cannot write.     *)
EXTENDS AIGateway, TLC

\* A call too cheap to cost a micro-USD, and one that costs the dearest price.
SmallCalls == {[in |-> 1, out |-> 0], [in |-> 0, out |-> 1]}

\* A provider that omits its usage metadata reports no tokens.
FreeCalls == {NoUse}

\* Days 0 and 1 are one month, day 2 starts the next.
TwoMonths == [d \in Days |-> IF d < 2 THEN 0 ELSE 2]
OneMonth == [d \in Days |-> 0]

Symmetry == Permutations(Slots)
=============================================================================
