--------------------------- MODULE AIGatewayProofs ---------------------------
(***************************************************************************)
(* Proofs about AIGateway: type correctness, the bounds on how far         *)
(* concurrent requests can overshoot a token quota, and what opens the     *)
(* circuit breaker, for any number of users, slots, days and tokens.       *)
(*                                                                         *)
(* The quota invariants are not inductive by themselves: the bound on the  *)
(* ledger has to leave room for what the requests past the check may still *)
(* add.  WithinBound says so, by weighing every such request at MaxTokens. *)
(***************************************************************************)
EXTENDS AIGateway, Counting

\* What TypeOK leaves open of a request: only an idle slot has no user, its
\* dates are not in the future, and it began no later than it was checked.
Dated ==
    \A s \in Slots :
        /\ pc[s] # "idle" => user[s] \in Users
        /\ born[s] <= day
        /\ today[s] <= day
        /\ pc[s] \notin {"idle", "arrived"} => born[s] <= today[s]

\* No row is dated after today.
NoFutureRows ==
    \A u \in Users, d \in Days : day < d => tokensSince[u][d] = 0

PastDaily == {"monthly", "spend", "calling", "recording"}
PastMonthly == {"spend", "calling", "recording"}

\* The requests past a check whose row will count in the window from `first`.
Committed(u, first, past) ==
    {s \in Slots : pc[s] \in past /\ user[s] = u /\ first <= born[s]}

Weight(S) == Cardinality(S) * MaxTokens

WithinBound(u, first, past, limit) ==
    tokensSince[u][first] + Weight(Committed(u, first, past))
        <= limit - 1 + AllSlotsUse

QuotaInv ==
    \A u \in Users :
        /\ WithinBound(u, day, PastDaily, DailyTokenLimit)
        /\ WithinBound(u, MonthStart[day], PastMonthly, MonthlyTokenLimit)

-----------------------------------------------------------------------------
(***************************************************************************)
(* Arithmetic of weights.                                                  *)
(***************************************************************************)

LEMMA SlotsFinite ==
    ASSUME NEW S \in SUBSET Slots
    PROVE  IsFiniteSet(S) /\ Cardinality(S) \in Nat
  BY GatewayAssumption, FS_Subset, FS_CardinalityType

\* At any price per slot, a subset of the slots costs no more than the whole.
LEMMA PriceMonotone ==
    ASSUME NEW price \in Nat, NEW B \in SUBSET Slots, NEW A \in SUBSET B
    PROVE  /\ Cardinality(A) * price \in Nat /\ Cardinality(B) * price \in Nat
           /\ Cardinality(A) * price <= Cardinality(B) * price
  <1> DEFINE a == Cardinality(A)
             b == Cardinality(B)
  <1>1. a \in Nat /\ b \in Nat /\ a <= b
    BY SlotsFinite, FS_Subset
  <1> HIDE DEF a, b
  <1>2. PICK c \in Nat : b = a + c
    <2>1. b - a \in Nat /\ b = a + (b - a)
      BY <1>1
    <2> QED
      BY <2>1
  <1>3. b * price = a * price + c * price
    BY <1>1, <1>2
  <1>4. a * price \in Nat /\ c * price \in Nat
    BY <1>1, <1>2
  <1> QED
    BY <1>3, <1>4 DEF a, b

\* Removing one slot takes its price off the cost of a set.
LEMMA PriceRemove ==
    ASSUME NEW price \in Nat, NEW B \in SUBSET Slots, NEW x \in B,
           NEW A \in SUBSET (B \ {x})
    PROVE  /\ Cardinality(A) * price \in Nat /\ Cardinality(B) * price \in Nat
           /\ Cardinality(A) * price + price <= Cardinality(B) * price
  <1> DEFINE c == Cardinality(B \ {x})
  <1>1. c \in Nat /\ Cardinality(B) = c + 1
    BY SlotsFinite, FS_RemoveElement
  <1>2. (c + 1) * price = c * price + price
    <2> HIDE DEF c
    <2> QED
      BY <1>1
  <1>3. /\ Cardinality(A) * price \in Nat /\ c * price \in Nat
        /\ Cardinality(A) * price <= c * price
    BY PriceMonotone
  <1> HIDE DEF c
  <1> QED
    BY <1>1, <1>2, <1>3

\* The same of the weight, which is the cost at MaxTokens.
LEMMA WeightMonotone ==
    ASSUME NEW B \in SUBSET Slots, NEW A \in SUBSET B
    PROVE  Weight(A) \in Nat /\ Weight(B) \in Nat /\ Weight(A) <= Weight(B)
  BY PriceMonotone, GatewayAssumption DEF Weight

LEMMA WeightRemove ==
    ASSUME NEW B \in SUBSET Slots, NEW x \in B, NEW A \in SUBSET (B \ {x})
    PROVE  /\ Weight(A) \in Nat /\ Weight(B) \in Nat
           /\ Weight(A) + MaxTokens <= Weight(B)
  BY PriceRemove, GatewayAssumption DEF Weight
-----------------------------------------------------------------------------
(***************************************************************************)
(* Type correctness.                                                       *)
(***************************************************************************)

\* No call is billed for more than MaxTokens.
LEMMA BillBounded ==
    ASSUME NEW use \in Usages \cup {NoUse}
    PROVE  Total(use) \in Nat /\ Total(use) <= MaxTokens
  BY GatewayAssumption DEF Total, NoUse

LEMMA MicroUSDType ==
    ASSUME NEW use \in Usages \cup {NoUse}
    PROVE  MicroUSD(use) \in Nat
  <1>1. use.in \in Nat /\ use.out \in Nat
    BY GatewayAssumption DEF NoUse
  <1>2. use.in * InputPrice \in Nat /\ use.out * OutputPrice \in Nat
    BY <1>1, GatewayAssumption
  <1>3. NanoUSD(use) \in Nat
    BY <1>2 DEF NanoUSD
  <1> QED
    BY <1>3 DEF MicroUSD

\* What Charge does to the answer of a query.
LEMMA ChargeQuery ==
    ASSUME NEW since \in [Users -> [Days -> Nat]], NEW u \in Users,
           NEW d \in Days, NEW amount \in Nat
    PROVE  /\ Charge(since, u, d, amount) \in [Users -> [Days -> Nat]]
           /\ \A v \in Users, e \in Days :
                 Charge(since, u, d, amount)[v][e] =
                     IF v = u /\ e <= d THEN since[v][e] + amount
                                        ELSE since[v][e]
  BY DEF Charge

\* The breaker's methods stay within its type.
LEMMA BreakerType ==
    ASSUME NEW b \in Breakers
    PROVE  /\ NewBreaker \in Breakers
           /\ RecordFailure(b) \in Breakers
           /\ RecordSuccess(b) \in Breakers
           /\ AfterGuard(b) \in Breakers
           /\ b.age < Cooldown => Aged(b) \in Breakers
  <1> USE BreakerAssumption DEF Breakers
  <1>1. NewBreaker \in Breakers /\ RecordSuccess(b) \in Breakers
    BY DEF NewBreaker, RecordSuccess
  <1>2. RecordFailure(b) \in Breakers
    <2>1. Capped(b.failures + 1) \in 0..Threshold
      BY DEF Capped
    <2> HIDE DEF Capped
    <2>2. [failures |-> Capped(b.failures + 1), open |-> TRUE, age |-> 0] \in Breakers
      BY <2>1
    <2>3. [b EXCEPT !.failures = Capped(b.failures + 1)] \in Breakers
      BY <2>1
    <2> QED
      BY <2>2, <2>3 DEF RecordFailure
  <1>3. AfterGuard(b) \in Breakers
    BY 0 \in 0..Cooldown DEF AfterGuard
  <1>4. ASSUME b.age < Cooldown
        PROVE  Aged(b) \in Breakers
    BY <1>4 DEF Aged
  <1> QED
    BY <1>1, <1>2, <1>3, <1>4

LEMMA FailedCallType ==
    ASSUME NEW b \in Breakers
    PROVE  RecordFailedCall(b) \in Breakers
  BY BreakerType DEF RecordFailedCall

LEMMA NoBillType == NoBill \in Bills
  BY DEF NoBill, Bills, Statuses

\* What each slot would owe the ledger if it were to write its row.
Owed == [s \in Slots |-> Total(bill[s].use)]

LEMMA OwedType ==
    ASSUME NEW b \in [Slots -> Bills]
    PROVE  LET owed == [s \in Slots |-> Total(b[s].use)]
           IN  Summable(owed, Slots) /\ \A s \in Slots : owed[s] \in Nat
  <1>1. \A s \in Slots : b[s].use \in Usages \cup {NoUse}
    BY DEF Bills
  <1>2. QED
    BY <1>1, BillBounded, GatewayAssumption DEF Summable

\* The sum that Owing takes is the sum over what the slots owe.
LEMMA DueIsOwed ==
    ASSUME TypeOK, NEW u
    PROVE  Owing(u) = SumOver(Owed, Recording(u))
  <1> DEFINE R == Recording(u)
  <1>1. ASSUME NEW U \in SUBSET R, U # {}
        PROVE  Owed[First(U)] = Due(First(U))
    <2>1. First(U) \in Slots
      BY <1>1 DEF First, Recording
    <2>2. QED
      BY <2>1 DEF Owed, Due
  <1> HIDE DEF R
  <1>2. ASSUME NEW g
        PROVE  Adds(g, Owed, R) <=>
                  g = [U \in SUBSET R |->
                         IF U = {} THEN 0 ELSE Due(First(U)) + g[U \ {First(U)}]]
    BY <1>1 DEF Adds
  <1>3. (CHOOSE g : Adds(g, Owed, R)) =
           CHOOSE g : g = [U \in SUBSET R |->
                              IF U = {} THEN 0 ELSE Due(First(U)) + g[U \ {First(U)}]]
    BY <1>2, Zenon
  <1>4. SumOver(Owed, R) = (CHOOSE g : Adds(g, Owed, R))[R]
    BY Zenon DEF SumOver, MapThenSumSet, MapThenFoldSet, Adds, First
  <1>5. MapThenSumSet(Due, R) = SumOver(Owed, R)
    BY <1>3, <1>4, Zenon DEF MapThenSumSet, MapThenFoldSet, First
  <1>6. QED
    BY <1>5, Zenon DEF Owing, R

LEMMA OwingType ==
    ASSUME TypeOK, NEW u
    PROVE  Owing(u) \in Nat
  <1>1. PICK b \in [Slots -> Bills] : b = bill
    BY DEF TypeOK
  <1>2. Summable(Owed, Slots) /\ Recording(u) \in SUBSET Slots
    BY <1>1, OwedType DEF Owed, Recording
  <1>3. SumOver(Owed, Recording(u)) \in Nat
    BY <1>2, SumType
  <1>4. QED
    BY <1>3, DueIsOwed

\* What the provider bills is counted, and lost, in whole tokens.
LEMMA BilledType ==
    ASSUME TypeOK, NEW u \in Users, NEW use \in Usages \cup {NoUse}
    PROVE  /\ Consume(u, use) => consumed' \in [Users -> Nat]
           /\ Lose(u, use) => lost' \in [Users -> Nat]
  <1>1. PICK tokens \in Nat : tokens = Total(use)
    BY BillBounded
  <1>2. /\ [consumed EXCEPT ![u] = @ + tokens] \in [Users -> Nat]
        /\ [lost EXCEPT ![u] = @ + tokens] \in [Users -> Nat]
    BY DEF TypeOK
  <1>3. QED
    BY <1>1, <1>2 DEF Consume, Lose

\* Days are ordered numbers from 0.
LEMMA DayOrder == 0 \in Days /\ (\A d \in Days : d \in Int /\ 0 <= d)
  BY GatewayAssumption DEF Days

LEMMA StepNames ==
    {"idle", "arrived", "daily", "monthly", "spend", "calling", "recording"} = Steps
  BY DEF Steps

LEMMA InitTyped == Init => TypeOK /\ Dated
  BY NoBillType, BreakerAssumption, GatewayAssumption
     DEF Init, TypeOK, Dated, Days, Steps, NewBreaker, Breakers

LEMMA StepTyped == TypeOK /\ Dated /\ [Next]_vars => TypeOK' /\ Dated'
  <1> SUFFICES ASSUME TypeOK, Dated, [Next]_vars
               PROVE  TypeOK' /\ Dated'
    OBVIOUS
  <1> USE GatewayAssumption DEF TypeOK, Dated
  <1>1. ASSUME NEW s \in Slots, NEW u \in Users, Begin(s, u)
        PROVE  TypeOK' /\ Dated'
    <2>1. TypeOK'
      BY <1>1, StepNames DEF Begin, ledger, history
    <2>2. Dated'
      BY <1>1, DayOrder DEF Begin, At
    <2> QED
      BY <2>1, <2>2
  <1>2. ASSUME NEW s \in Slots, Leave(s), day' = day,
               UNCHANGED <<tokensSince, spendSince>>, breaker' \in Breakers,
               configured' = configured, faults' \in 0..MaxFaults,
               consumed' \in [Users -> Nat],
               lost' \in [Users -> Nat], failedCalls' \in 0..Threshold
        PROVE  TypeOK' /\ Dated'
    <2>1. TypeOK'
      BY <1>2, NoBillType, DayOrder, StepNames DEF Leave
    <2>2. Dated'
      BY <1>2, DayOrder DEF Leave
    <2> QED
      BY <2>1, <2>2
  <1>3. ASSUME NEW s \in Slots, Admitted(s)
        PROVE  TypeOK' /\ Dated'
    <2>1. TypeOK'
      BY <1>3, StepNames DEF Admitted, ledger, history
    <2>2. Dated'
      BY <1>3, DayOrder DEF Admitted, At
    <2> QED
      BY <2>1, <2>2
  <1>4. ASSUME NEW s \in Slots, NEW next \in Steps,
               pc[s] \notin {"idle", "arrived"}, Advance(s, next),
               breaker' \in Breakers,
               UNCHANGED <<configured, ledger, day, faults, history>>
        PROVE  TypeOK' /\ Dated'
    BY <1>4 DEF Advance, ledger, history
  <1>5. ASSUME NEW s \in Slots, NEW row \in Bills,
               pc[s] \notin {"idle", "arrived"}, ToRecord(s, row),
               breaker' \in Breakers, UNCHANGED <<configured, ledger, day, faults>>,
               consumed' \in [Users -> Nat], lost' \in [Users -> Nat],
               failedCalls' \in 0..Threshold
        PROVE  TypeOK' /\ Dated'
    BY <1>5 DEF ToRecord, ledger, Steps
  <1>6. ASSUME NEW s \in Slots, NEW step \in Steps, NEW next \in Steps,
               step \notin {"idle", "arrived"}, NEW within,
               Quota(s, step, next, within)
        PROVE  TypeOK' /\ Dated'
    <2>1. CASE Advance(s, next)
      BY <1>6, <1>4, <2>1 DEF Quota, At, ledger, history
    <2>2. CASE Leave(s)
      BY <1>6, <1>2, <2>2 DEF Quota, ledger, history
    <2> QED
      BY <1>6, <2>1, <2>2 DEF Quota
  <1>7. ASSUME NEW s \in Slots, TurnedAway(s) \/ NotDispatched(s)
        PROVE  TypeOK' /\ Dated'
    BY <1>7, <1>2 DEF TurnedAway, NotDispatched, ledger, history
  <1>8. ASSUME NEW s \in Slots, Rejected(s)
        PROVE  TypeOK' /\ Dated'
    <2>1. [use |-> NoUse, status |-> "error"] \in Bills
      BY DEF Bills, Statuses
    <2> QED
      BY <1>8, <1>5, <2>1, BreakerType DEF Rejected, At, history
  <1>9. ASSUME NEW s \in Slots, Dispatched(s)
        PROVE  TypeOK' /\ Dated'
    BY <1>9, <1>4, BreakerType DEF Dispatched, At, Steps
  <1>10. ASSUME NEW s \in Slots, NEW status \in Statuses,
                NEW use \in Usages \cup {NoUse}, CallFailed(s, status, use)
         PROVE  TypeOK' /\ Dated'
    <2>1. [use |-> NoUse, status |-> status] \in Bills
      BY DEF Bills
    <2>2. failedCalls' \in 0..Threshold
      BY <1>10, BreakerAssumption DEF CallFailed, Capped
    <2>3. user[s] \in Users
      BY <1>10 DEF CallFailed, At
    <2>4. consumed' \in [Users -> Nat] /\ lost' \in [Users -> Nat]
      BY <1>10, <2>3, BilledType DEF CallFailed
    <2> QED
      BY <1>10, <1>5, <2>1, <2>2, <2>4, FailedCallType DEF CallFailed, At
  <1>11. ASSUME NEW s \in Slots, NEW use \in Usages, TakeAnswer(s, use)
         PROVE  /\ user[s] \in Users
                /\ consumed' \in [Users -> Nat] /\ breaker' \in Breakers
                /\ failedCalls' \in 0..Threshold
    <2>1. user[s] \in Users
      BY <1>11 DEF TakeAnswer, At
    <2>2. consumed' \in [Users -> Nat]
      BY <1>11, <2>1, BilledType DEF TakeAnswer
    <2> QED
      BY <1>11, <2>1, <2>2, BreakerType, BreakerAssumption DEF TakeAnswer
  <1>12. ASSUME NEW s \in Slots, NEW use \in Usages, Answered(s, use)
         PROVE  TypeOK' /\ Dated'
    <2>1. [use |-> use, status |-> "ok"] \in Bills
      BY DEF Bills, Statuses
    <2> QED
      BY <1>12, <1>11, <1>5, <2>1 DEF Answered, TakeAnswer, At
  <1>13. ASSUME NEW s \in Slots, NEW use \in Usages, Unparsable(s, use)
         PROVE  TypeOK' /\ Dated'
    <2>1. lost' \in [Users -> Nat]
      BY <1>13, <1>11, BilledType DEF Unparsable
    <2> QED
      BY <1>13, <1>11, <1>2, <2>1 DEF Unparsable, ledger
  <1>14. ASSUME NEW s \in Slots, Record(s)
         PROVE  TypeOK' /\ Dated'
    <2>1. /\ user[s] \in Users /\ born[s] \in Days
          /\ bill[s].use \in Usages \cup {NoUse}
      BY <1>14 DEF Record, At, Bills
    <2>2. /\ tokensSince' \in [Users -> [Days -> Nat]]
          /\ spendSince' \in [Users -> [Days -> Nat]]
      <3>1. PICK due \in Nat, cost \in Nat :
                due = Total(bill[s].use) /\ cost = MicroUSD(bill[s].use)
        BY <2>1, BillBounded, MicroUSDType
      <3>2. /\ tokensSince \in [Users -> [Days -> Nat]]
            /\ spendSince \in [Users -> [Days -> Nat]]
        OBVIOUS
      <3>3. /\ tokensSince' = Charge(tokensSince, user[s], born[s], due)
            /\ spendSince' = Charge(spendSince, user[s], born[s], cost)
        BY ONLY <1>14, <3>1 DEF Record
      <3>4. /\ Charge(tokensSince, user[s], born[s], due) \in [Users -> [Days -> Nat]]
            /\ Charge(spendSince, user[s], born[s], cost) \in [Users -> [Days -> Nat]]
        BY ONLY <2>1, <3>1, <3>2, ChargeQuery
      <3> QED
        BY ONLY <3>3, <3>4
    <2> QED
      <3>1. TypeOK'
        BY <1>14, <2>2, NoBillType, DayOrder, StepNames DEF Record, Leave, history
      <3>2. Dated'
        BY <1>14, DayOrder DEF Record, Leave
      <3> QED
        BY <3>1, <3>2
  <1>15. ASSUME NEW s \in Slots, RecordRefused(s) \/ End(s)
         PROVE  TypeOK' /\ Dated'
    <2>1. user[s] \in Users /\ bill[s].use \in Usages \cup {NoUse}
      BY <1>15 DEF RecordRefused, End, At, Bills
    <2>2. CASE RecordRefused(s)
      <3>1. lost' \in [Users -> Nat]
        BY <2>1, <2>2, BilledType DEF RecordRefused
      <3> QED
        BY <2>2, <1>2, <3>1 DEF RecordRefused, ledger
    <2>3. CASE End(s)
      <3>1. consumed' \in [Users -> Nat] /\ lost' \in [Users -> Nat]
        BY <2>1, <2>3, BilledType DEF End
      <3>2. faults' \in 0..MaxFaults
        BY <2>3 DEF End
      <3> QED
        BY <2>3, <1>2, <3>1, <3>2 DEF End, ledger
    <2> QED
      BY <1>15, <2>2, <2>3
  <1>16. CASE Midnight
    <2>1. day' \in Days /\ day < day'
      BY <1>16 DEF Midnight, Days
    <2>2. TypeOK'
      BY <1>16, <2>1 DEF Midnight, request, ledger, history
    <2>3. Dated'
      <3> SUFFICES ASSUME NEW s \in Slots
                   PROVE  born[s] <= day' /\ today[s] <= day'
        BY <1>16 DEF Midnight, request
      <3>1. /\ born[s] \in Int /\ today[s] \in Int
            /\ day \in Int /\ day' \in Int
        BY <2>1, DayOrder
      <3> QED
        BY <2>1, <3>1
    <2> QED
      BY <2>2, <2>3
  <1>17. CASE Tick
    BY <1>17, BreakerType DEF Tick, request, ledger, history
  <1>18. CASE Restart
    <2>1. consumed' \in [Users -> Nat] /\ lost' \in [Users -> Nat]
      <3>1. PICK unseen \in [Users -> 0..MaxConsumed] :
               /\ consumed' = [u \in Users |-> consumed[u] + unseen[u]]
               /\ lost' = [u \in Users |-> lost[u] + unseen[u] + Owing(u)]
        BY <1>18 DEF Restart
      <3> QED
        BY <3>1, OwingType
    <2> QED
      <3>1. TypeOK'
        <4>1. 0 \in 0..Threshold /\ faults' \in 0..MaxFaults
          BY <1>18, BreakerAssumption DEF Restart
        <4>2. /\ pc' \in [Slots -> Steps]
              /\ user' \in [Slots -> Users \cup {Nobody}]
              /\ born' \in [Slots -> Days]
              /\ today' \in [Slots -> Days]
              /\ bill' \in [Slots -> Bills]
          BY <1>18, NoBillType, DayOrder, StepNames DEF Restart
        <4>3. breaker' \in Breakers /\ configured' \in BOOLEAN
          BY <1>18, BreakerType DEF Restart
        <4> QED
          BY <1>18, <2>1, <4>1, <4>2, <4>3 DEF Restart, ledger
      <3>2. Dated'
        BY <1>18, DayOrder DEF Restart
      <3> QED
        BY <3>1, <3>2
  <1>19. CASE UNCHANGED vars
    BY <1>19 DEF vars, request, ledger, history
  <1> QED
    <2>1. ASSUME NEW s \in Slots, DailyQuota(s) \/ MonthlyQuota(s)
          PROVE  TypeOK' /\ Dated'
      BY <2>1, <1>6 DEF DailyQuota, MonthlyQuota, Steps
    <2>2. ASSUME NEW s \in Slots, Handle(s) \/ Environment(s)
          PROVE  TypeOK' /\ Dated'
      BY <2>2, <2>1, <1>1, <1>3, <1>7, <1>8, <1>9, <1>10, <1>12, <1>13, <1>14,
         <1>15 DEF Handle, Environment, Statuses
    <2> QED
      BY <2>2, <1>16, <1>17, <1>18, <1>19 DEF Next

\* Every reachable state of the gateway is well typed, and no request carries a
\* date of the future.
THEOREM TypeCorrect == Spec => [](TypeOK /\ Dated)
  BY InitTyped, StepTyped, PTL DEF Spec

-----------------------------------------------------------------------------
(***************************************************************************)
(* Quotas.                                                                 *)
(***************************************************************************)

\* A step that charges nothing, leaves the day alone and takes no request past
\* the check: the committed requests can only become fewer.
Quiet(past) ==
    /\ tokensSince' = tokensSince
    /\ \A s \in Slots : pc'[s] \in past =>
          pc[s] \in past /\ user'[s] = user[s] /\ born'[s] = born[s]

LEMMA CommittedSlots ==
    ASSUME NEW u, NEW first, NEW past
    PROVE  Committed(u, first, past) \in SUBSET Slots
  BY DEF Committed

\* The facts about the numbers in a bound that arithmetic needs.
LEMMA BoundNumbers ==
    ASSUME TypeOK, NEW u \in Users, NEW first \in Days, NEW past
    PROVE  /\ tokensSince[u][first] \in Nat
           /\ Weight(Committed(u, first, past)) \in Nat
           /\ AllSlotsUse \in Nat
           /\ Weight(Committed(u, first, past)) <= AllSlotsUse
  <1>1. tokensSince[u][first] \in Nat
    BY DEF TypeOK
  <1>2. /\ Weight(Slots) = AllSlotsUse
        /\ Weight(Committed(u, first, past)) \in Nat
        /\ Weight(Slots) \in Nat
        /\ Weight(Committed(u, first, past)) <= Weight(Slots)
    BY CommittedSlots, WeightMonotone DEF Weight, AllSlotsUse
  <1> QED
    BY <1>1, <1>2

\* With fewer committed requests and the same tokens, a bound is kept.
LEMMA ShrinkKeepsBound ==
    ASSUME TypeOK, TypeOK', NEW u \in Users, NEW first \in Days, NEW past,
           NEW limit \in Nat, tokensSince' = tokensSince,
           Committed(u, first, past)' \subseteq Committed(u, first, past),
           WithinBound(u, first, past, limit)
    PROVE  WithinBound(u, first, past, limit)'
  <1>1. /\ Weight(Committed(u, first, past)') \in Nat
        /\ Weight(Committed(u, first, past)) \in Nat
        /\ Weight(Committed(u, first, past)') <= Weight(Committed(u, first, past))
    BY CommittedSlots, WeightMonotone
  <1>2. tokensSince[u][first] \in Nat /\ AllSlotsUse \in Nat
    BY BoundNumbers
  <1> QED
    BY <1>1, <1>2 DEF WithinBound, Weight, AllSlotsUse

LEMMA QuietKeepsBound ==
    ASSUME TypeOK, TypeOK', NEW u \in Users, NEW first \in Days, NEW past,
           NEW limit \in Nat, Quiet(past), WithinBound(u, first, past, limit)
    PROVE  WithinBound(u, first, past, limit)'
  <1>1. Committed(u, first, past)' \subseteq Committed(u, first, past)
    BY DEF Quiet, Committed
  <1> QED
    BY <1>1, ShrinkKeepsBound DEF Quiet

\* A request that passes a check sees fewer tokens than the limit, and all the
\* slots together weigh no more than AllSlotsUse.
LEMMA AdmissionKeepsBound ==
    ASSUME TypeOK, TypeOK', NEW u \in Users, NEW first \in Days, NEW past,
           NEW limit \in Nat, tokensSince' = tokensSince,
           tokensSince[u][first] < limit
    PROVE  WithinBound(u, first, past, limit)'
  <1>1. /\ Committed(u, first, past)' \in SUBSET Slots
        /\ Weight(Slots) = AllSlotsUse
    BY DEF Committed, Weight, AllSlotsUse
  <1>2. /\ Weight(Committed(u, first, past)') \in Nat
        /\ AllSlotsUse \in Nat
        /\ Weight(Committed(u, first, past)') <= AllSlotsUse
    BY <1>1, WeightMonotone
  <1>3. tokensSince[u][first] \in Nat
    BY DEF TypeOK
  <1> QED
    BY <1>2, <1>3 DEF WithinBound, Weight, AllSlotsUse

\* A row that commits trades the weight of its request for its tokens.
LEMMA RecordKeepsBound ==
    ASSUME TypeOK, Dated, TypeOK', NEW u \in Users, NEW first \in Days, NEW past,
           "recording" \in past, "idle" \notin past,
           NEW limit \in Nat, NEW s \in Slots, Record(s),
           WithinBound(u, first, past, limit)
    PROVE  WithinBound(u, first, past, limit)'
  <1> DEFINE C == Committed(u, first, past)
             use == bill[s].use
  <1>1. /\ user[s] \in Users /\ born[s] \in Days
        /\ use \in Usages \cup {NoUse}
    BY DEF Record, At, TypeOK, Dated, Bills
  <1>2. Total(use) \in Nat /\ Total(use) <= MaxTokens
    BY <1>1, BillBounded
  <1>3. tokensSince'[u][first] = IF u = user[s] /\ first <= born[s]
                                   THEN tokensSince[u][first] + Total(use)
                                   ELSE tokensSince[u][first]
    <2>1. tokensSince \in [Users -> [Days -> Nat]]
      BY DEF TypeOK
    <2>2. tokensSince' = Charge(tokensSince, user[s], born[s], Total(use))
      BY DEF Record
    <2>3. user[s] \in Users /\ born[s] \in Days /\ Total(use) \in Nat
      BY <1>1, <1>2
    <2> HIDE DEF use
    <2> QED
      BY <2>1, <2>2, <2>3 DEF Charge
  <1>4. C' \subseteq C \ {s}
    BY DEF Record, Leave, Committed, TypeOK
  <1>5. /\ tokensSince[u][first] \in Nat /\ tokensSince'[u][first] \in Nat
        /\ AllSlotsUse \in Nat /\ MaxTokens \in Nat
        /\ Weight(C) \in Nat /\ C \in SUBSET Slots
    <2>1. tokensSince'[u][first] \in Nat
      BY DEF TypeOK
    <2> QED
      BY <2>1, BoundNumbers, CommittedSlots, GatewayAssumption
  <1>6. CASE u = user[s] /\ first <= born[s]
    <2>1. s \in C
      BY <1>6 DEF Committed, Record, At
    <2>2. Weight(C') \in Nat /\ Weight(C') + MaxTokens <= Weight(C)
      BY <1>4, <1>5, <2>1, WeightRemove
    <2> HIDE DEF C, use
    <2>3. tokensSince'[u][first] + Weight(C') <= tokensSince[u][first] + Weight(C)
      BY <1>2, <1>3, <1>5, <1>6, <2>2
    <2> QED
      BY <1>5, <2>2, <2>3 DEF C, WithinBound, Weight, AllSlotsUse
  <1>7. CASE ~(u = user[s] /\ first <= born[s])
    <2>1. Weight(C') \in Nat /\ Weight(C') <= Weight(C)
      BY <1>4, <1>5, WeightMonotone
    <2> QED
      BY <1>3, <1>5, <1>7, <2>1 DEF WithinBound, Weight, AllSlotsUse
  <1> QED
    BY <1>6, <1>7

\* Midnight opens a window nobody has used, and no request in flight was born in.
LEMMA FreshWindow ==
    ASSUME TypeOK, Dated, NoFutureRows, Midnight, TypeOK', NEW u \in Users,
           NEW first \in Days, first = day + 1,
           NEW past, NEW limit \in Nat \ {0}
    PROVE  WithinBound(u, first, past, limit)'
  <1>1. day \in Int /\ day < first
    BY DayOrder DEF TypeOK
  <1>2. tokensSince'[u][first] = 0
    BY <1>1 DEF NoFutureRows, Midnight, ledger
  <1>3. Committed(u, first, past)' = {}
    <2>1. ASSUME NEW s \in Slots, first <= born'[s]
          PROVE  FALSE
      <3>1. born'[s] = born[s] /\ born[s] <= day
        BY DEF Midnight, request, Dated
      <3>2. born[s] \in Int /\ first \in Int
        BY DayOrder DEF TypeOK
      <3> QED
        BY <1>1, <2>1, <3>1, <3>2
    <2> QED
      BY <2>1 DEF Committed
  <1>4. Weight({}) = 0
    <2>1. Cardinality({}) = 0
      BY FS_EmptySet
    <2>2. 0 * MaxTokens = 0
      BY GatewayAssumption
    <2> QED
      BY <2>1, <2>2 DEF Weight
  <1>5. AllSlotsUse \in Nat
    BY BoundNumbers
  <1> HIDE DEF AllSlotsUse
  <1>6. tokensSince'[u][first] + 0 <= limit - 1 + AllSlotsUse
    BY <1>2, <1>5
  <1>7. Weight(Committed(u, first, past)') = 0
    BY <1>3, <1>4
  <1> QED
    BY <1>6, <1>7 DEF WithinBound, Weight, AllSlotsUse

LEMMA MonthOfDay ==
    ASSUME TypeOK
    PROVE  day \in Days /\ MonthStart[day] \in Days /\ MonthStart[day] <= day
  BY CalendarAssumption DEF TypeOK

LEMMA FutureStep ==
    ASSUME TypeOK, Dated, NoFutureRows, Next, TypeOK'
    PROVE  NoFutureRows'
  <1>1. ASSUME tokensSince' = tokensSince, day <= day'
        PROVE  NoFutureRows'
    <2> SUFFICES ASSUME NEW u \in Users, NEW d \in Days, day' < d
                 PROVE  tokensSince[u][d] = 0
      BY <1>1 DEF NoFutureRows
    <2>1. day < d
      BY <1>1, DayOrder DEF TypeOK
    <2> QED
      BY <2>1 DEF NoFutureRows
  <1>2. ASSUME NEW s \in Slots, Record(s)
        PROVE  NoFutureRows'
    <2> SUFFICES ASSUME NEW u \in Users, NEW d \in Days, day < d
                 PROVE  tokensSince'[u][d] = 0
      BY <1>2 DEF NoFutureRows, Record
    <2>1. born[s] <= day /\ born[s] \in Days /\ user[s] \in Users
      BY <1>2 DEF Dated, TypeOK, Record, At
    <2>2. ~(d <= born[s])
      BY <2>1, DayOrder DEF TypeOK
    <2>3. tokensSince'[u][d] = tokensSince[u][d]
      BY <1>2, <2>1, <2>2 DEF Record, Charge, TypeOK
    <2> QED
      BY <2>3 DEF NoFutureRows
  <1>3. ASSUME NEW s \in Slots, ~Record(s), Handle(s) \/ Environment(s)
        PROVE  tokensSince' = tokensSince /\ day' = day
    BY <1>3 DEF Handle, Environment, TurnedAway, Admitted, DailyQuota,
       MonthlyQuota, Quota, NotDispatched, Rejected, Dispatched, CallFailed,
       RecordRefused, Begin, End, Answered, Unparsable, ledger
  <1>4. day <= day
    BY DayOrder DEF TypeOK
  <1>5. CASE Midnight
    BY <1>5, <1>1, DayOrder DEF Midnight, ledger, TypeOK
  <1>6. CASE Tick \/ Restart
    BY <1>6, <1>1, <1>4 DEF Tick, Restart, ledger
  <1> QED
    BY <1>1, <1>2, <1>3, <1>4, <1>5, <1>6 DEF Next

LEMMA QuotaStep ==
    ASSUME TypeOK, Dated, NoFutureRows, QuotaInv, Next, TypeOK'
    PROVE  QuotaInv'
  <1>0. /\ day \in Days /\ MonthStart[day] \in Days
        /\ DailyTokenLimit \in Nat /\ MonthlyTokenLimit \in Nat
    BY MonthOfDay, GatewayAssumption
  <1>1. PICK now \in Days : now = day
    BY <1>0
  <1>2. PICK month \in Days : month = MonthStart[day]
    BY <1>0
  <1> DEFINE Daily(u) == WithinBound(u, now, PastDaily, DailyTokenLimit)
             Monthly(u) == WithinBound(u, month, PastMonthly, MonthlyTokenLimit)
  <1>3. \A u \in Users : Daily(u) /\ Monthly(u)
    BY <1>1, <1>2 DEF QuotaInv
  <1>4. ASSUME day' = day, \A u \in Users : Daily(u)' /\ Monthly(u)'
        PROVE  QuotaInv'
    BY <1>1, <1>2, <1>4 DEF QuotaInv, WithinBound, Committed
  <1>a. ASSUME Quiet(PastDaily), NEW u \in Users
        PROVE  Daily(u)'
    BY <1>0, <1>3, <1>a, QuietKeepsBound
  <1>b. ASSUME Quiet(PastMonthly), NEW u \in Users
        PROVE  Monthly(u)'
    BY <1>0, <1>3, <1>b, QuietKeepsBound
  <1>c. ASSUME day' = day, Quiet(PastDaily), Quiet(PastMonthly)
        PROVE  QuotaInv'
    BY <1>4, <1>a, <1>b, <1>c
  <1>5. ASSUME NEW s \in Slots, DailyQuota(s), Advance(s, "monthly"),
               TokensIn(s, today[s]) < DailyTokenLimit
        PROVE  QuotaInv'
    <2>1. day' = day /\ tokensSince' = tokensSince
      BY <1>5 DEF DailyQuota, Quota, ledger
    <2>2. Quiet(PastMonthly)
      BY <1>5, <2>1 DEF Quiet, PastMonthly, Advance, TypeOK
    <2>3. ASSUME NEW u \in Users
          PROVE  Daily(u)'
      <3>1. CASE user[s] = u /\ now <= born[s]
        <4>1. today[s] = now
          <5>1. born[s] <= today[s] /\ today[s] <= day
            BY <1>5 DEF DailyQuota, Quota, At, Dated
          <5>2. born[s] \in Int /\ today[s] \in Int /\ day \in Int
            BY <1>0, DayOrder DEF TypeOK
          <5> QED
            BY <1>1, <3>1, <5>1, <5>2
        <4>2. tokensSince[u][now] < DailyTokenLimit
          BY <1>5, <3>1, <4>1 DEF TokensIn
        <4> QED
          BY <1>0, <2>1, <4>2, AdmissionKeepsBound
      <3>2. CASE ~(user[s] = u /\ now <= born[s])
        <4>1. Committed(u, now, PastDaily)' \subseteq Committed(u, now, PastDaily)
          BY <1>5, <3>2 DEF Advance, Committed, TypeOK
        <4> QED
          BY <1>0, <1>3, <2>1, <4>1, ShrinkKeepsBound
      <3> QED
        BY <3>1, <3>2
    <2> QED
      BY <1>4, <1>b, <2>1, <2>2, <2>3
  <1>6. ASSUME NEW s \in Slots, MonthlyQuota(s), Advance(s, "spend"),
               TokensIn(s, MonthStart[today[s]]) < MonthlyTokenLimit
        PROVE  QuotaInv'
    <2>1. day' = day /\ tokensSince' = tokensSince /\ pc[s] = "monthly"
      BY <1>6 DEF MonthlyQuota, Quota, At, ledger
    <2>2. Quiet(PastDaily)
      BY <1>6, <2>1 DEF Quiet, PastDaily, Advance, TypeOK
    <2>3. ASSUME NEW u \in Users
          PROVE  Monthly(u)'
      <3>1. CASE user[s] = u /\ month <= born[s]
        <4>1. MonthStart[today[s]] = month
          <5>1. born[s] <= today[s] /\ today[s] <= day
            BY <2>1 DEF Dated
          <5>2. today[s] \in Days /\ born[s] \in Int /\ today[s] \in Int
            BY DayOrder DEF TypeOK
          <5>3. MonthStart[day] <= today[s]
            BY <1>2, <3>1, <5>1, <5>2, DayOrder
          <5> QED
            BY <1>0, <1>2, <5>1, <5>2, <5>3, CalendarAssumption
        <4>2. tokensSince[u][month] < MonthlyTokenLimit
          BY <1>6, <3>1, <4>1 DEF TokensIn
        <4> QED
          BY <1>0, <2>1, <4>2, AdmissionKeepsBound
      <3>2. CASE ~(user[s] = u /\ month <= born[s])
        <4>1. Committed(u, month, PastMonthly)' \subseteq
                  Committed(u, month, PastMonthly)
          BY <1>6, <3>2 DEF Advance, Committed, TypeOK
        <4> QED
          BY <1>0, <1>3, <2>1, <4>1, ShrinkKeepsBound
      <3> QED
        BY <3>1, <3>2
    <2> QED
      BY <1>4, <1>a, <2>1, <2>2, <2>3
  <1>7. ASSUME NEW s \in Slots, Leave(s), day' = day, tokensSince' = tokensSince
        PROVE  QuotaInv'
    <2>1. Quiet(PastDaily) /\ Quiet(PastMonthly)
      BY <1>7 DEF Quiet, PastDaily, PastMonthly, Leave, TypeOK
    <2> QED
      BY <1>c, <1>7, <2>1
  <1>8. ASSUME NEW s \in Slots, pc[s] \in PastMonthly, NEW next,
               pc' = [pc EXCEPT ![s] = next], UNCHANGED <<user, born>>,
               day' = day, tokensSince' = tokensSince
        PROVE  QuotaInv'
    <2>1. Quiet(PastDaily) /\ Quiet(PastMonthly)
      BY <1>8 DEF Quiet, PastDaily, PastMonthly, TypeOK
    <2> QED
      BY <1>c, <1>8, <2>1
  <1>9. ASSUME NEW s \in Slots, NEW next \in {"arrived", "daily"},
               pc' = [pc EXCEPT ![s] = next],
               \A t \in Slots \ {s} : user'[t] = user[t] /\ born'[t] = born[t],
               day' = day, tokensSince' = tokensSince
        PROVE  QuotaInv'
    <2>1. Quiet(PastDaily) /\ Quiet(PastMonthly)
      BY <1>9 DEF Quiet, PastDaily, PastMonthly, TypeOK
    <2> QED
      BY <1>c, <1>9, <2>1
  <1>10. ASSUME NEW s \in Slots, Record(s)
         PROVE  QuotaInv'
    <2>1. day' = day
      BY <1>10 DEF Record
    <2>2. /\ "recording" \in PastDaily /\ "idle" \notin PastDaily
          /\ "recording" \in PastMonthly /\ "idle" \notin PastMonthly
      BY DEF PastDaily, PastMonthly
    <2>3. ASSUME NEW u \in Users
          PROVE  Daily(u)' /\ Monthly(u)'
      BY <1>0, <1>3, <1>10, <2>2, RecordKeepsBound
    <2> QED
      BY <1>4, <2>1, <2>3
  <1>11. CASE Midnight
    <2>1. PICK next \in Days : next = day'
      BY DEF TypeOK
    <2>2. next = day + 1 /\ MonthStart[next] \in Days /\ MonthStart[next] <= next
      BY <1>11, <2>1, CalendarAssumption DEF Midnight
    <2>3. ASSUME NEW u \in Users
          PROVE  WithinBound(u, next, PastDaily, DailyTokenLimit)'
      BY <1>11, <2>2, FreshWindow, GatewayAssumption
    <2>4. ASSUME NEW u \in Users
          PROVE  WithinBound(u, MonthStart[next], PastMonthly, MonthlyTokenLimit)'
      <3>1. CASE MonthStart[next] = next
        BY <1>11, <2>2, <3>1, FreshWindow, GatewayAssumption
      <3>2. CASE MonthStart[next] # next
        <4>1. day \in Int /\ next \in Int /\ MonthStart[next] \in Int
          BY <1>0, <2>2, DayOrder
        <4>2. MonthStart[next] <= day /\ day <= next
          BY <2>2, <3>2, <4>1
        <4>3. month = MonthStart[next]
          BY <1>0, <1>2, <4>2, CalendarAssumption
        <4>4. Quiet(PastMonthly)
          BY <1>11 DEF Midnight, request, ledger, Quiet
        <4> QED
          BY <1>b, <4>3, <4>4
      <3> QED
        BY <3>1, <3>2
    <2> QED
      BY <2>1, <2>3, <2>4 DEF QuotaInv, WithinBound, Committed
  <1>12. CASE Tick \/ Restart
    <2>1. Quiet(PastDaily) /\ Quiet(PastMonthly) /\ day' = day
      BY <1>12 DEF Tick, Restart, Quiet, PastDaily, PastMonthly, request, ledger
    <2> QED
      BY <1>c, <2>1
  <1>13. ASSUME NEW s \in Slots, DailyQuota(s) \/ MonthlyQuota(s)
         PROVE  QuotaInv'
    BY <1>13, <1>5, <1>6, <1>7 DEF DailyQuota, MonthlyQuota, Quota, ledger
  <1>14. ASSUME NEW s \in Slots, Handle(s)
         PROVE  QuotaInv'
    <2>1. CASE TurnedAway(s) \/ NotDispatched(s) \/ RecordRefused(s)
      BY <2>1, <1>7 DEF TurnedAway, NotDispatched, RecordRefused, ledger
    <2>2. CASE Admitted(s)
      BY <2>2, <1>9 DEF Admitted, ledger
    <2>3. CASE Rejected(s) \/ Dispatched(s)
      BY <2>3, <1>8 DEF Rejected, Dispatched, At, Advance, ToRecord, ledger,
         PastMonthly
    <2>4. CASE \E status \in {"timeout", "error"}, use \in Usages \cup {NoUse} :
                   CallFailed(s, status, use)
      BY <2>4, <1>8 DEF CallFailed, At, ToRecord, ledger, PastMonthly
    <2> QED
      BY <1>14, <1>10, <1>13, <2>1, <2>2, <2>3, <2>4 DEF Handle
  <1>15. ASSUME NEW s \in Slots, Environment(s)
         PROVE  QuotaInv'
    <2>1. ASSUME NEW u \in Users, Begin(s, u)
          PROVE  QuotaInv'
      BY <2>1, <1>9 DEF Begin, ledger, TypeOK
    <2>2. ASSUME NEW use \in Usages, Answered(s, use)
          PROVE  QuotaInv'
      BY <2>2, <1>8 DEF Answered, TakeAnswer, At, ToRecord, ledger, PastMonthly
    <2>3. ASSUME End(s) \/ \E use \in Usages : Unparsable(s, use)
          PROVE  QuotaInv'
      BY <2>3, <1>7 DEF End, Unparsable, ledger
    <2> QED
      BY <1>15, <2>1, <2>2, <2>3 DEF Environment
  <1> QED
    BY <1>11, <1>12, <1>14, <1>15 DEF Next

QuotaIndInv == TypeOK /\ Dated /\ NoFutureRows /\ QuotaInv

LEMMA QuotaInit == Init => QuotaIndInv
  <1> SUFFICES ASSUME Init
               PROVE  QuotaIndInv
    OBVIOUS
  <1>1. TypeOK /\ Dated
    BY InitTyped
  <1>2. NoFutureRows
    BY DEF Init, NoFutureRows
  <1>3. ASSUME NEW u \in Users, NEW first \in Days, NEW past \in {PastDaily, PastMonthly},
               NEW limit \in Nat \ {0}
        PROVE  WithinBound(u, first, past, limit)
    <2>1. Committed(u, first, past) = {}
      BY <1>3 DEF Init, Committed, PastDaily, PastMonthly
    <2>2. Weight(Committed(u, first, past)) = 0
      BY <2>1, FS_EmptySet, GatewayAssumption DEF Weight
    <2>3. tokensSince[u][first] = 0
      BY DEF Init
    <2>4. AllSlotsUse \in Nat
      BY <1>1, BoundNumbers
    <2> HIDE DEF AllSlotsUse
    <2> QED
      BY <2>2, <2>3, <2>4 DEF WithinBound
  <1>4. day \in Days /\ MonthStart[day] \in Days
    BY <1>1, MonthOfDay
  <1>5. QuotaInv
    BY <1>3, <1>4, GatewayAssumption DEF QuotaInv
  <1> QED
    BY <1>1, <1>2, <1>5 DEF QuotaIndInv

LEMMA QuotaNext == QuotaIndInv /\ [Next]_vars => QuotaIndInv'
  <1> SUFFICES ASSUME QuotaIndInv, [Next]_vars
               PROVE  QuotaIndInv'
    OBVIOUS
  <1> USE DEF QuotaIndInv
  <1>1. TypeOK' /\ Dated'
    BY StepTyped
  <1>2. CASE Next
    BY <1>1, <1>2, FutureStep, QuotaStep
  <1>3. CASE UNCHANGED vars
    BY <1>1, <1>3 DEF vars, request, ledger, history, NoFutureRows, QuotaInv,
       WithinBound, Committed
  <1> QED
    BY <1>2, <1>3

\* However many requests of a user run at once, and whatever fails in between,
\* the tokens the ledger dates today exceed the daily quota by less than one
\* full call per connection.
THEOREM DailyOvershoot == Spec => []DailyOvershootBounded
  <1>1. QuotaIndInv => DailyOvershootBounded
    <2> SUFFICES ASSUME QuotaIndInv, NEW u \in Users
                 PROVE  tokensSince[u][day] <= DailyTokenLimit - 1 + AllSlotsUse
      BY DEF DailyOvershootBounded
    <2>1. WithinBound(u, day, PastDaily, DailyTokenLimit)
      BY DEF QuotaIndInv, QuotaInv
    <2>2. /\ tokensSince[u][day] \in Nat /\ AllSlotsUse \in Nat
          /\ Weight(Committed(u, day, PastDaily)) \in Nat
      BY BoundNumbers DEF QuotaIndInv, TypeOK
    <2> QED
      BY <2>1, <2>2, GatewayAssumption DEF WithinBound
  <1> QED
    BY <1>1, QuotaInit, QuotaNext, PTL DEF Spec

\* The same for the running month, whatever the calendar.
THEOREM MonthlyOvershoot == Spec => []MonthlyOvershootBounded
  <1>1. QuotaIndInv => MonthlyOvershootBounded
    <2> SUFFICES ASSUME QuotaIndInv, NEW u \in Users
                 PROVE  tokensSince[u][MonthStart[day]]
                            <= MonthlyTokenLimit - 1 + AllSlotsUse
      BY DEF MonthlyOvershootBounded
    <2>1. WithinBound(u, MonthStart[day], PastMonthly, MonthlyTokenLimit)
      BY DEF QuotaIndInv, QuotaInv
    <2>2. /\ tokensSince[u][MonthStart[day]] \in Nat /\ AllSlotsUse \in Nat
          /\ Weight(Committed(u, MonthStart[day], PastMonthly)) \in Nat
      BY MonthOfDay, BoundNumbers DEF QuotaIndInv, TypeOK
    <2> QED
      BY <2>1, <2>2, GatewayAssumption DEF WithinBound
  <1> QED
    BY <1>1, QuotaInit, QuotaNext, PTL DEF Spec

-----------------------------------------------------------------------------
(***************************************************************************)
(* The circuit breaker.                                                    *)
(***************************************************************************)

\* Below the threshold the count is twice the failed calls and the breaker is
\* closed; at the threshold, half of it were failed calls.
BreakerInv ==
    /\ breaker.failures < Threshold =>
          ~breaker.open /\ breaker.failures = 2 * failedCalls
    /\ breaker.failures = Threshold => 2 * failedCalls >= Threshold

LEMMA BreakerStep ==
    ASSUME TypeOK, Dated, BreakerInv, Next
    PROVE  BreakerInv'
  <1> USE BreakerAssumption DEF Breakers
  <1>0. /\ breaker \in Breakers /\ failedCalls \in 0..Threshold
        /\ Threshold \in Nat \ {0}
    BY DEF TypeOK
  <1>1. ASSUME breaker' = breaker, failedCalls' = failedCalls
        PROVE  BreakerInv'
    BY <1>1 DEF BreakerInv
  <1>2. ASSUME breaker' = NewBreaker, failedCalls' = 0
        PROVE  BreakerInv'
    BY <1>2 DEF BreakerInv, NewBreaker
  <1>3. ASSUME breaker'.failures = breaker.failures, failedCalls' = failedCalls,
               breaker'.open => breaker.open
        PROVE  BreakerInv'
    BY <1>3 DEF BreakerInv
  <1>4. ASSUME NEW s \in Slots, Rejected(s)
        PROVE  BreakerInv'
    <2>1. breaker.open /\ failedCalls' = failedCalls
      BY <1>4 DEF Rejected, Rejects, history
    <2>2. breaker.failures = Threshold
      BY <1>0, <2>1 DEF BreakerInv
    <2> DEFINE failures == Capped(breaker.failures + 1)
    <2>a. failures = Threshold
      BY <1>0, <2>2 DEF Capped
    <2>b. breaker' = IF failures >= Threshold
                       THEN [failures |-> failures, open |-> TRUE, age |-> 0]
                       ELSE [breaker EXCEPT !.failures = failures]
      BY <1>4 DEF Rejected, RecordFailure
    <2> HIDE DEF failures
    <2>3. breaker' = [failures |-> Threshold, open |-> TRUE, age |-> 0]
      BY <2>a, <2>b
    <2> QED
      BY <2>1, <2>2, <2>3 DEF BreakerInv
  <1>5. ASSUME NEW s \in Slots, NEW status, NEW use, CallFailed(s, status, use)
        PROVE  BreakerInv'
    <2> DEFINE once == RecordFailure(breaker)
    <2>1. breaker' = RecordFailure(once) /\ failedCalls' = Capped(failedCalls + 1)
      BY <1>5 DEF CallFailed, RecordFailedCall
    <2>2. once \in Breakers /\ once.failures = Capped(breaker.failures + 1)
      <3>1. once \in Breakers
        BY <1>0, BreakerType
      <3>2. once.failures = Capped(breaker.failures + 1)
        BY <1>0 DEF RecordFailure
      <3> QED
        BY <3>1, <3>2
    <2>3. once.open <=> (once.failures = Threshold \/ breaker.open)
      BY <1>0 DEF RecordFailure, Capped
    <2> HIDE DEF once
    <2>4. /\ breaker'.failures = Capped(once.failures + 1)
          /\ breaker'.open => breaker'.failures = Threshold \/ once.open
      BY <2>1, <2>2 DEF RecordFailure, Capped
    <2>5. CASE breaker.failures = Threshold
      <3>1. breaker'.failures = Threshold
        BY <2>2, <2>4, <2>5 DEF Capped
      <3>2. 2 * failedCalls' >= Threshold
        BY <1>0, <2>1, <2>5 DEF Capped, BreakerInv
      <3> QED
        BY <3>1, <3>2 DEF BreakerInv
    <2>6. CASE breaker.failures < Threshold
      <3>1. ~breaker.open /\ breaker.failures = 2 * failedCalls
        BY <2>6 DEF BreakerInv
      <3>2. CASE 2 * failedCalls + 2 < Threshold
        <4>1. once.failures = 2 * failedCalls + 1
          BY <1>0, <2>2, <3>1, <3>2 DEF Capped
        <4>2. breaker'.failures = 2 * failedCalls + 2
          BY <1>0, <2>4, <3>2, <4>1 DEF Capped
        <4>3. failedCalls' = failedCalls + 1
          BY <1>0, <2>1, <3>2 DEF Capped
        <4>4. ~once.open
          BY <1>0, <2>3, <3>1, <3>2, <4>1
        <4>5. ~breaker'.open
          BY <1>0, <2>4, <3>2, <4>2, <4>4
        <4> QED
          BY <1>0, <3>2, <4>2, <4>3, <4>5 DEF BreakerInv
      <3>3. CASE 2 * failedCalls + 2 >= Threshold
        <4>1. breaker'.failures = Threshold
          BY <1>0, <2>2, <2>4, <3>1, <3>3 DEF Capped
        <4>2. 2 * failedCalls' >= Threshold
          BY <1>0, <2>1, <3>3 DEF Capped
        <4> QED
          BY <4>1, <4>2 DEF BreakerInv
      <3> QED
        BY <1>0, <3>2, <3>3
    <2> QED
      BY <1>0, <2>5, <2>6
  <1>6. ASSUME NEW s \in Slots, DailyQuota(s) \/ MonthlyQuota(s)
        PROVE  BreakerInv'
    BY <1>6, <1>1 DEF DailyQuota, MonthlyQuota, Quota, history
  <1>7. ASSUME NEW s \in Slots, Dispatched(s)
        PROVE  BreakerInv'
    <2>1. /\ breaker'.failures = breaker.failures /\ ~breaker'.open
          /\ failedCalls' = failedCalls
      BY <1>0, <1>7 DEF Dispatched, AfterGuard, history
    <2> QED
      BY <1>3, <2>1
  <1>8. ASSUME NEW s \in Slots, Environment(s)
        PROVE  BreakerInv'
    BY <1>8, <1>1, <1>2 DEF Environment, Begin, End, Answered, Unparsable,
       TakeAnswer, RecordSuccess, history
  <1>9. CASE Tick
    <2>1. /\ breaker'.failures = breaker.failures /\ breaker'.open = breaker.open
          /\ failedCalls' = failedCalls
      BY <1>0, <1>9 DEF Tick, Aged, history
    <2> QED
      BY <1>3, <2>1
  <1>10. CASE Midnight \/ Restart
    BY <1>10, <1>1, <1>2 DEF Midnight, Restart, history
  <1>11. ASSUME NEW s \in Slots,
                TurnedAway(s) \/ Admitted(s) \/ NotDispatched(s) \/ Record(s)
                    \/ RecordRefused(s)
         PROVE  BreakerInv'
    BY <1>11, <1>1 DEF TurnedAway, Admitted, NotDispatched, Record,
       RecordRefused, history
  <1> QED
    BY <1>4, <1>5, <1>6, <1>7, <1>8, <1>9, <1>10, <1>11 DEF Next, Handle

\* The breaker opens only on failed calls: with it open, at least half the
\* threshold of calls failed since one last succeeded.
THEOREM BreakerOpensOnFailures == Spec => []OpensOnFailedCalls
  <1>1. Init => BreakerInv
    BY BreakerAssumption DEF Init, BreakerInv, NewBreaker
  <1>2. TypeOK /\ Dated /\ BreakerInv /\ [Next]_vars => BreakerInv'
    <2>1. CASE UNCHANGED vars
      BY <2>1 DEF vars, history, BreakerInv
    <2> QED
      BY <2>1, BreakerStep
  <1>3. TypeOK /\ BreakerInv => OpensOnFailedCalls
    <2> SUFFICES ASSUME TypeOK, BreakerInv, breaker.open
                 PROVE  2 * failedCalls >= Threshold
      BY DEF OpensOnFailedCalls
    <2>1. breaker.failures \in 0..Threshold /\ Threshold \in Nat
      BY BreakerAssumption DEF TypeOK, Breakers
    <2>2. ~(breaker.failures < Threshold)
      BY DEF BreakerInv
    <2>3. breaker.failures = Threshold
      BY <2>1, <2>2
    <2> QED
      BY <2>3 DEF BreakerInv
  <1> QED
    BY <1>1, <1>2, <1>3, TypeCorrect, PTL DEF Spec

-----------------------------------------------------------------------------
(***************************************************************************)
(* The gateway implements Budget twice: once for the days of a user and    *)
(* once for the months.  Each step of a request is the same step of the    *)
(* two budgets but for the check that lets it in, so what a step does to a *)
(* window is said once, for any window (BudgetStep), and then the two are  *)
(* put in.                                                                 *)
(***************************************************************************)

\* A step of a budget, or none, from one pair of `used` and `held` to another.
BudgetStep(limit, used, held, used2, held2) ==
    \/ \E s \in Slots : used < limit /\ s \notin held /\ held2 = held \cup {s} /\ used2 = used
    \/ \E s \in Slots :
          s \in held /\ held2 = held \ {s} /\ used <= used2 /\ used2 <= used + MaxTokens
    \/ held2 = {} /\ used2 \in {used, 0}
    \/ held2 = held /\ used2 = used

InWindow(first, past, limit) ==
    BudgetStep(limit, tokensSince[Payer][first], Holding(first, past),
                      tokensSince'[Payer][first], Holding(first, past)')

Others(s) ==
    \A t \in Slots \ {s} : pc'[t] = pc[t] /\ user'[t] = user[t] /\ born'[t] = born[t]

NoEntry(s, past) ==
    pc'[s] \in past => pc[s] \in past /\ user'[s] = user[s] /\ born'[s] = born[s]

\* One request moves and no row is written: its reservation is given back, or
\* kept, or is a new one if the budget is not used up.
LEMMA RequestStep ==
    ASSUME TypeOK, NEW first \in Days, NEW past, NEW limit, NEW s \in Slots,
           tokensSince' = tokensSince, Others(s),
           s \in Holding(first, past)' =>
              s \in Holding(first, past) \/ tokensSince[Payer][first] < limit
    PROVE  InWindow(first, past, limit)
  <1> DEFINE H == Holding(first, past)
  <1>1. H' \ {s} = H \ {s} /\ H \subseteq Slots
    BY DEF Others, Holding
  <1>2. tokensSince[Payer][first] \in Nat /\ MaxTokens \in Nat
    BY GatewayAssumption DEF TypeOK
  <1> HIDE DEF H
  <1>3. CASE s \in H /\ s \notin H'
    <2>1. H' = H \ {s}
      BY <1>1, <1>3
    <2>2. QED
      BY <1>2, <1>3, <2>1 DEF InWindow, BudgetStep, H
  <1>4. CASE s \notin H /\ s \in H'
    <2>1. H' = H \cup {s}
      BY <1>1, <1>4
    <2>2. QED
      BY <1>4, <2>1 DEF InWindow, BudgetStep, H
  <1>5. CASE s \in H <=> s \in H'
    <2>1. H' = H
      BY <1>1, <1>5
    <2>2. QED
      BY <2>1 DEF InWindow, BudgetStep, H
  <1>6. QED
    BY <1>3, <1>4, <1>5

\* A row is written: it spends what its request reserved, or is of no concern.
LEMMA RowStep ==
    ASSUME TypeOK, Dated, NEW first \in Days, NEW past, NEW limit, NEW s \in Slots,
           "recording" \in past, "idle" \notin past, Record(s)
    PROVE  InWindow(first, past, limit)
  <1> DEFINE H == Holding(first, past)
             use == bill[s].use
  <1>1. /\ user[s] \in Users /\ born[s] \in Days /\ use \in Usages \cup {NoUse}
        /\ pc[s] = "recording"
    BY DEF Record, At, TypeOK, Dated, Bills
  <1>2. Total(use) \in Nat /\ Total(use) <= MaxTokens /\ MaxTokens \in Nat
    BY <1>1, BillBounded, GatewayAssumption
  <1>3. H' = H \ {s}
    BY DEF Record, Leave, Holding, TypeOK
  <1>4. Payer \in Users /\ tokensSince[Payer][first] \in Nat
    BY GatewayAssumption DEF TypeOK
  <1>5. tokensSince'[Payer][first] = IF Payer = user[s] /\ first <= born[s]
                                     THEN tokensSince[Payer][first] + Total(use)
                                     ELSE tokensSince[Payer][first]
    <2>1. tokensSince \in [Users -> [Days -> Nat]]
      BY DEF TypeOK
    <2>2. tokensSince' = Charge(tokensSince, user[s], born[s], Total(use))
      BY DEF Record
    <2> HIDE DEF use
    <2>3. QED
      BY <1>1, <1>2, <1>4, <2>1, <2>2 DEF Charge
  <1>6. first \in Int /\ born[s] \in Int
    BY <1>1, DayOrder
  <1>7. s \in H <=> Payer = user[s] /\ first <= born[s]
    BY <1>1, <1>6 DEF Holding
  <1> HIDE DEF use, H
  <1>8. CASE s \in H
    BY <1>2, <1>3, <1>4, <1>5, <1>7, <1>8 DEF InWindow, BudgetStep, H
  <1>9. CASE s \notin H
    BY <1>3, <1>5, <1>7, <1>9 DEF InWindow, BudgetStep, H
  <1>10. QED
    BY <1>8, <1>9

\* The daily check lets a request in on the day its row will be dated.
LEMMA DailyEntry ==
    ASSUME TypeOK, Dated, NEW s \in Slots, DailyQuota(s),
           s \in Holding(day, PastDaily)', s \notin Holding(day, PastDaily)
    PROVE  tokensSince[Payer][day] < DailyTokenLimit
  <1>1. /\ pc[s] = "daily" /\ day' = day
        /\ \/ TokensIn(s, today[s]) < DailyTokenLimit /\ Advance(s, "monthly")
           \/ Leave(s)
    BY DEF DailyQuota, Quota, At
  <1>2. CASE Leave(s)
    BY <1>2 DEF Leave, Holding, PastDaily, TypeOK
  <1>3. CASE TokensIn(s, today[s]) < DailyTokenLimit /\ Advance(s, "monthly")
    <2>1. user[s] = Payer /\ born[s] >= day
      BY <1>1, <1>3 DEF Advance, Holding
    <2>2. born[s] <= today[s] /\ today[s] <= day
      BY <1>1 DEF Dated
    <2>3. born[s] \in Int /\ today[s] \in Int /\ day \in Int
      BY DayOrder DEF TypeOK
    <2>4. today[s] = day
      BY <2>1, <2>2, <2>3
    <2>5. QED
      BY <1>3, <2>1, <2>4 DEF TokensIn
  <1>4. QED
    BY <1>1, <1>2, <1>3

\* The monthly check lets a request in in the month its row will be dated.
LEMMA MonthlyEntry ==
    ASSUME TypeOK, Dated, NEW s \in Slots, MonthlyQuota(s),
           s \in Holding(MonthStart[day], PastMonthly)',
           s \notin Holding(MonthStart[day], PastMonthly)
    PROVE  tokensSince[Payer][MonthStart[day]] < MonthlyTokenLimit
  <1>1. /\ pc[s] = "monthly" /\ day' = day
        /\ \/ TokensIn(s, MonthStart[today[s]]) < MonthlyTokenLimit /\ Advance(s, "spend")
           \/ Leave(s)
    BY DEF MonthlyQuota, Quota, At
  <1>2. CASE Leave(s)
    BY <1>2 DEF Leave, Holding, PastMonthly, TypeOK
  <1>3. CASE TokensIn(s, MonthStart[today[s]]) < MonthlyTokenLimit /\ Advance(s, "spend")
    <2>1. user[s] = Payer /\ born[s] >= MonthStart[day]
      BY <1>1, <1>3 DEF Advance, Holding
    <2>2. born[s] <= today[s] /\ today[s] <= day
      BY <1>1 DEF Dated
    <2>3. /\ born[s] \in Int /\ today[s] \in Days /\ today[s] \in Int
          /\ day \in Days /\ MonthStart[day] \in Int
      BY MonthOfDay, DayOrder DEF TypeOK
    <2>4. MonthStart[day] <= today[s]
      BY <2>1, <2>2, <2>3
    <2>5. MonthStart[today[s]] = MonthStart[day]
      BY <2>2, <2>3, <2>4, CalendarAssumption
    <2>6. QED
      BY <1>3, <2>1, <2>5 DEF TokensIn
  <1>4. QED
    BY <1>1, <1>2, <1>3

\* Apart from the two checks and the row, no step of a request takes it past a
\* check or writes.
LEMMA SlotSteps ==
    ASSUME TypeOK, NEW s \in Slots, Handle(s) \/ Environment(s)
    PROVE  /\ day' = day /\ Others(s)
           /\ NoEntry(s, PastDaily) \/ DailyQuota(s)
           /\ NoEntry(s, PastMonthly) \/ MonthlyQuota(s)
           /\ Record(s) \/ tokensSince' = tokensSince
  <1> DEFINE Goal == /\ day' = day /\ Others(s)
                     /\ NoEntry(s, PastDaily) \/ DailyQuota(s)
                     /\ NoEntry(s, PastMonthly) \/ MonthlyQuota(s)
                     /\ Record(s) \/ tokensSince' = tokensSince
  <1> USE DEF TypeOK, Others, NoEntry, PastDaily, PastMonthly
  <1>1. ASSUME Leave(s), day' = day, Record(s) \/ tokensSince' = tokensSince
        PROVE  Goal
    BY <1>1 DEF Leave
  <1>2. ASSUME NEW next, pc' = [pc EXCEPT ![s] = next], UNCHANGED <<user, born>>,
               day' = day, tokensSince' = tokensSince,
               next \in PastDaily => pc[s] \in PastDaily \/ DailyQuota(s),
               next \in PastMonthly => pc[s] \in PastMonthly \/ MonthlyQuota(s)
        PROVE  Goal
    BY <1>2
  <1>3. ASSUME TurnedAway(s) \/ NotDispatched(s) \/ RecordRefused(s) \/ Record(s)
        PROVE  Goal
    BY <1>1, <1>3 DEF TurnedAway, NotDispatched, RecordRefused, Record, ledger
  <1>4. ASSUME Admitted(s)
        PROVE  Goal
    BY <1>2, <1>4 DEF Admitted, ledger
  <1>5. ASSUME DailyQuota(s)
        PROVE  Goal
    <2>1. /\ Leave(s) \/ (At(s, "daily") /\ Advance(s, "monthly"))
          /\ day' = day /\ tokensSince' = tokensSince
      BY <1>5 DEF DailyQuota, Quota, ledger
    <2>2. QED
      BY <1>1, <1>2, <1>5, <2>1 DEF Advance
  <1>6. ASSUME MonthlyQuota(s)
        PROVE  Goal
    <2>1. /\ Leave(s) \/ (At(s, "monthly") /\ Advance(s, "spend"))
          /\ day' = day /\ tokensSince' = tokensSince
      BY <1>6 DEF MonthlyQuota, Quota, ledger
    <2>2. QED
      BY <1>1, <1>2, <1>6, <2>1 DEF Advance, At
  <1>7. ASSUME Rejected(s) \/ Dispatched(s)
        PROVE  Goal
    BY <1>2, <1>7 DEF Rejected, Dispatched, At, Advance, ToRecord, ledger
  <1>8. ASSUME \E status \in {"timeout", "error"}, use \in Usages \cup {NoUse} :
                CallFailed(s, status, use)
        PROVE  Goal
    BY <1>2, <1>8 DEF CallFailed, At, ToRecord, ledger
  <1>9. ASSUME NEW u \in Users, Begin(s, u)
        PROVE  Goal
    BY <1>9 DEF Begin, ledger
  <1>10. ASSUME NEW use \in Usages, Answered(s, use)
         PROVE  Goal
    BY <1>2, <1>10 DEF Answered, TakeAnswer, At, ToRecord, ledger
  <1>11. ASSUME End(s) \/ \E use \in Usages : Unparsable(s, use)
         PROVE  Goal
    BY <1>1, <1>11 DEF End, Unparsable, ledger
  <1> HIDE DEF Goal
  <1>12. Goal
    BY <1>3, <1>4, <1>5, <1>6, <1>7, <1>8, <1>9, <1>10, <1>11
       DEF Handle, Environment
  <1>13. QED
    BY <1>12 DEF Goal

\* What a step of a request does to the window from `first`.
LEMMA WindowStep ==
    ASSUME TypeOK, Dated, NEW first \in Days, NEW past \in {PastDaily, PastMonthly},
           NEW limit, NEW s \in Slots, Handle(s) \/ Environment(s),
           s \in Holding(first, past)' =>
              \/ NoEntry(s, past)
              \/ s \in Holding(first, past)
              \/ tokensSince[Payer][first] < limit
    PROVE  InWindow(first, past, limit)
  <1>1. Others(s) /\ (Record(s) \/ tokensSince' = tokensSince)
    BY SlotSteps
  <1>2. CASE Record(s)
    BY <1>2, RowStep DEF PastDaily, PastMonthly
  <1>3. CASE tokensSince' = tokensSince
    <2>1. s \in Holding(first, past)' =>
             s \in Holding(first, past) \/ tokensSince[Payer][first] < limit
      BY DEF NoEntry, Holding
    <2>2. QED
      BY <1>1, <1>3, <2>1, RequestStep
  <1>4. QED
    BY <1>1, <1>2, <1>3

\* Every step of the gateway is a step, or none, of the day's budget.
LEMMA DailyStep ==
    ASSUME QuotaIndInv, Next
    PROVE  BudgetStep(DailyTokenLimit, tokensSince[Payer][day], Holding(day, PastDaily),
                      tokensSince'[Payer][day'], Holding(day, PastDaily)')
  <1> USE DEF QuotaIndInv
  <1>0. day \in Days /\ Payer \in Users
    BY GatewayAssumption DEF TypeOK
  <1>1. ASSUME NEW s \in Slots, Handle(s) \/ Environment(s)
        PROVE  InWindow(day, PastDaily, DailyTokenLimit) /\ day' = day
    <2>1. day' = day /\ (NoEntry(s, PastDaily) \/ DailyQuota(s))
      BY <1>1, SlotSteps
    <2>2. PICK first \in Days : first = day
      BY <1>0
    <2>3. Holding(first, PastDaily) = Holding(day, PastDaily)
          /\ Holding(first, PastDaily)' = Holding(day, PastDaily)'
      BY <2>1, <2>2 DEF Holding
    <2>4. s \in Holding(first, PastDaily)' =>
             \/ NoEntry(s, PastDaily)
             \/ s \in Holding(first, PastDaily)
             \/ tokensSince[Payer][first] < DailyTokenLimit
      BY <2>1, <2>2, <2>3, DailyEntry
    <2>5. InWindow(first, PastDaily, DailyTokenLimit)
      BY <1>1, <2>4, WindowStep
    <2>6. QED
      BY <2>1, <2>2, <2>3, <2>5 DEF InWindow
  <1>2. CASE Midnight
    <2>1. /\ day' \in Days /\ day < day' /\ tokensSince' = tokensSince
          /\ pc' = pc /\ user' = user /\ born' = born
      BY <1>2, GatewayAssumption DEF Midnight, Days, TypeOK, ledger, request
    <2>2. tokensSince'[Payer][day'] = 0
      BY <1>0, <2>1 DEF NoFutureRows
    <2>3. Holding(day, PastDaily)' = {}
      BY <1>0, <2>1, DayOrder DEF Holding, Dated, TypeOK
    <2>4. QED
      BY <2>2, <2>3 DEF BudgetStep
  <1>3. CASE Restart
    <2>1. Holding(day, PastDaily)' = {}
      BY <1>3 DEF Restart, Holding, PastDaily
    <2>2. day' = day /\ tokensSince' = tokensSince
      BY <1>3 DEF Restart, ledger
    <2>3. QED
      BY <2>1, <2>2 DEF BudgetStep
  <1>4. CASE Tick
    BY <1>4 DEF Tick, request, ledger, BudgetStep, Holding
  <1>5. QED
    BY <1>1, <1>2, <1>3, <1>4 DEF Next, InWindow

\* Every step of the gateway is a step, or none, of the month's budget.
LEMMA MonthlyStep ==
    ASSUME QuotaIndInv, Next
    PROVE  BudgetStep(MonthlyTokenLimit,
                      tokensSince[Payer][MonthStart[day]],
                      Holding(MonthStart[day], PastMonthly),
                      tokensSince'[Payer][MonthStart[day']],
                      Holding(MonthStart[day], PastMonthly)')
  <1> USE DEF QuotaIndInv
  <1>0. day \in Days /\ MonthStart[day] \in Days /\ Payer \in Users
    BY GatewayAssumption, MonthOfDay DEF TypeOK
  <1>1. ASSUME NEW s \in Slots, Handle(s) \/ Environment(s)
        PROVE  InWindow(MonthStart[day], PastMonthly, MonthlyTokenLimit) /\ day' = day
    <2>1. day' = day /\ (NoEntry(s, PastMonthly) \/ MonthlyQuota(s))
      BY <1>1, SlotSteps
    <2>2. PICK first \in Days : first = MonthStart[day]
      BY <1>0
    <2>3. Holding(first, PastMonthly) = Holding(MonthStart[day], PastMonthly)
          /\ Holding(first, PastMonthly)' = Holding(MonthStart[day], PastMonthly)'
      BY <2>1, <2>2 DEF Holding
    <2>4. s \in Holding(first, PastMonthly)' =>
             \/ NoEntry(s, PastMonthly)
             \/ s \in Holding(first, PastMonthly)
             \/ tokensSince[Payer][first] < MonthlyTokenLimit
      BY <2>1, <2>2, <2>3, MonthlyEntry
    <2>5. InWindow(first, PastMonthly, MonthlyTokenLimit)
      BY <1>1, <2>4, WindowStep
    <2>6. QED
      BY <2>1, <2>2, <2>3, <2>5 DEF InWindow
  <1>2. CASE Midnight
    <2>1. /\ day' \in Days /\ day' = day + 1 /\ tokensSince' = tokensSince
          /\ pc' = pc /\ user' = user /\ born' = born
      BY <1>2, GatewayAssumption DEF Midnight, Days, TypeOK, ledger, request
    <2>2. PICK next \in Days : next = day'
      BY <2>1
    <2>3. next = day + 1 /\ MonthStart[next] \in Days /\ MonthStart[next] <= next
      BY <2>1, <2>2, CalendarAssumption
    <2>4. day \in Int /\ next \in Int /\ MonthStart[next] \in Int
      BY <1>0, <2>3, DayOrder
    <2>5. CASE MonthStart[next] = next
      <3>1. tokensSince'[Payer][MonthStart[next]] = 0
        BY <1>0, <2>1, <2>3, <2>4, <2>5 DEF NoFutureRows
      <3>2. Holding(MonthStart[day], PastMonthly)' = {}
        <4>1. ASSUME NEW s \in Slots
              PROVE  ~(born[s] >= next)
          <5>1. born[s] <= day /\ born[s] \in Int
            BY DayOrder DEF Dated, TypeOK
          <5>2. QED
            BY <2>3, <2>4, <5>1
        <4>2. MonthStart[day'] = next
          BY <2>2, <2>5
        <4>3. QED
          BY <2>1, <4>1, <4>2 DEF Holding
      <3>3. QED
        BY <2>2, <3>1, <3>2 DEF BudgetStep
    <2>6. CASE MonthStart[next] # next
      <3>1. MonthStart[next] <= day /\ day <= next
        BY <2>3, <2>4, <2>6
      <3>2. MonthStart[day] = MonthStart[next]
        BY <1>0, <3>1, CalendarAssumption
      <3>3. QED
        BY <2>1, <2>2, <3>2 DEF BudgetStep, Holding
    <2>7. QED
      BY <2>5, <2>6
  <1>3. CASE Restart
    <2>1. Holding(MonthStart[day], PastMonthly)' = {}
      BY <1>3 DEF Restart, Holding, PastMonthly
    <2>2. day' = day /\ tokensSince' = tokensSince
      BY <1>3 DEF Restart, ledger
    <2>3. QED
      BY <2>1, <2>2 DEF BudgetStep
  <1>4. CASE Tick
    BY <1>4 DEF Tick, request, ledger, BudgetStep, Holding
  <1>5. QED
    BY <1>1, <1>2, <1>3, <1>4 DEF Next, InWindow
-----------------------------------------------------------------------------
(***************************************************************************)
(* The refinement.                                                         *)
(***************************************************************************)

\* The gateway implements the budget of a day and the budget of a month of any
\* user: it lets nobody in on a budget that is used up, and nobody spends what
\* was not reserved, whatever midnights and restarts fall in between.
THEOREM Refines == Spec => KeepsBudgets
  <1>1. Init => DailyBudget!Init /\ MonthlyBudget!Init
    <2> SUFFICES ASSUME Init
                 PROVE  DailyBudget!Init /\ MonthlyBudget!Init
      OBVIOUS
    <2>1. Payer \in Users /\ day \in Days /\ MonthStart[day] \in Days
      BY GatewayAssumption, InitTyped, MonthOfDay DEF TypeOK
    <2>2. QED
      BY <2>1 DEF Init, DailyBudget!Init, MonthlyBudget!Init, Holding
  <1>2. QuotaIndInv /\ [Next]_vars =>
           /\ [DailyBudget!Next]_<<tokensSince[Payer][day], Holding(day, PastDaily)>>
           /\ [MonthlyBudget!Next]_<<tokensSince[Payer][MonthStart[day]],
                                     Holding(MonthStart[day], PastMonthly)>>
    <2>1. CASE UNCHANGED vars
      BY <2>1 DEF vars, request, ledger, Holding
    <2>2. ASSUME QuotaIndInv, Next
          PROVE  [DailyBudget!Next]_<<tokensSince[Payer][day], Holding(day, PastDaily)>>
      BY <2>2, DailyStep DEF BudgetStep, PastDaily, DailyBudget!Next,
         DailyBudget!Reserve, DailyBudget!Spend, DailyBudget!ForgetAll,
         DailyBudget!NewPeriod
    <2>3. ASSUME QuotaIndInv, Next
          PROVE  [MonthlyBudget!Next]_<<tokensSince[Payer][MonthStart[day]],
                                        Holding(MonthStart[day], PastMonthly)>>
      BY <2>3, MonthlyStep DEF BudgetStep, PastMonthly, MonthlyBudget!Next,
         MonthlyBudget!Reserve, MonthlyBudget!Spend, MonthlyBudget!ForgetAll,
         MonthlyBudget!NewPeriod
    <2>4. QED
      BY <2>1, <2>2, <2>3
  <1>3. QED
    BY <1>1, <1>2, QuotaInit, QuotaNext, PTL
       DEF Spec, KeepsBudgets, DailyBudget!Spec, MonthlyBudget!Spec, PastDaily, PastMonthly
=============================================================================
