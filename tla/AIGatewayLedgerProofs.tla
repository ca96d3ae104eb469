------------------------ MODULE AIGatewayLedgerProofs -------------------------
(***************************************************************************)
(* The rest of what the ledger is bounded by: its spend against its        *)
(* tokens, the spend of a month against the cap, and the tokens of a day   *)
(* that is over; and that its books balance.                               *)
(*                                                                         *)
(* As in AIGatewayProofs a bound leaves room for the requests that may     *)
(* still add to it.  For the spend those are the requests past the cap,    *)
(* each at the dearest call.  For a day that is over they are all the      *)
(* requests born on it: those the day's bound counted, and those that had  *)
(* not yet been checked at midnight, which is why the slots count twice.   *)
(***************************************************************************)
EXTENDS AIGatewayProofs

PastSpend == {"calling", "recording"}

Cost(S) == Cardinality(S) * DearestCall

SpendWithin(u, first) ==
    spendSince[u][first] + Cost(Committed(u, first, PastSpend))
        <= MonthlySpendLimit - 1 + Cost(Slots)

SpendInv == \A u \in Users : SpendWithin(u, MonthStart[day])

Born(u, d) == {s \in Slots : user[s] = u /\ born[s] = d}

ClosedWithin(u, d) ==
    tokensSince[u][d] - tokensSince[u][d + 1] + Weight(Born(u, d))
        <= DailyTokenLimit - 1 + 2 * AllSlotsUse

ClosedInv == \A u \in Users, d \in Days : d < day => ClosedWithin(u, d)

\* What became of the tokens a user was billed for.
Settled(u) == tokensSince[u][0] + SumOver(Owed, Recording(u)) + lost[u]

BooksBalance == \A u \in Users : Settled(u) = consumed[u]

LedgerInv ==
    /\ QuotaIndInv /\ SpendUnderstated /\ SpendInv /\ ClosedInv
    /\ BooksBalance

-----------------------------------------------------------------------------
(***************************************************************************)
(* Prices.                                                                 *)
(***************************************************************************)
LEMMA DearerType ==
    DearerPrice \in Nat /\ InputPrice <= DearerPrice /\ OutputPrice <= DearerPrice
  BY GatewayAssumption DEF DearerPrice

\* Multiplication keeps an order.
LEMMA TimesMonotone ==
    ASSUME NEW a \in Nat, NEW b \in Nat, NEW n \in Nat, a <= b
    PROVE  /\ n * a \in Nat /\ n * b \in Nat /\ n * a <= n * b
           /\ a * n \in Nat /\ b * n \in Nat /\ a * n <= b * n
  <1>1. PICK c \in Nat : b = a + c
    <2>1. b - a \in Nat /\ b = a + (b - a)
      OBVIOUS
    <2>2. QED
      BY <2>1
  <1>2. n * b = n * a + n * c /\ b * n = a * n + c * n
    BY <1>1
  <1>3. n * a \in Nat /\ n * c \in Nat /\ a * n \in Nat /\ c * n \in Nat
    BY <1>1
  <1>4. QED
    BY <1>2, <1>3

\* A call costs no more than its tokens at the dearer price, nor than the
\* dearest call.
LEMMA CallCost ==
    ASSUME NEW use \in Usages \cup {NoUse}
    PROVE  /\ MicroUSD(use) \in Nat /\ DearestCall \in Nat
           /\ MicroUSD(use) * 1000 <= Total(use) * DearerPrice
           /\ MicroUSD(use) <= DearestCall
  <1>1. use.in \in Nat /\ use.out \in Nat
    BY GatewayAssumption DEF NoUse
  <1>2. PICK in \in Nat, out \in Nat : in = use.in /\ out = use.out
    BY <1>1
  <1>3. PICK dear \in Nat : dear = DearerPrice
    BY DearerType
  <1>4. /\ InputPrice \in Nat /\ OutputPrice \in Nat /\ MaxTokens \in Nat
        /\ InputPrice <= dear /\ OutputPrice <= dear
    BY <1>3, DearerType, GatewayAssumption
  <1>5. /\ in * InputPrice \in Nat /\ in * dear \in Nat
        /\ in * InputPrice <= in * dear
    BY <1>4, TimesMonotone
  <1>6. /\ out * OutputPrice \in Nat /\ out * dear \in Nat
        /\ out * OutputPrice <= out * dear
    BY <1>4, TimesMonotone
  <1>7. (in + out) * dear = in * dear + out * dear
    OBVIOUS
  <1>8. /\ in + out \in Nat /\ in + out <= MaxTokens
    BY <1>2, BillBounded DEF Total
  <1>9. /\ (in + out) * dear \in Nat /\ MaxTokens * dear \in Nat
        /\ (in + out) * dear <= MaxTokens * dear
    BY <1>4, <1>8, TimesMonotone
  <1>10. PICK n \in Nat : n = NanoUSD(use)
    BY <1>2, <1>5, <1>6 DEF NanoUSD
  <1>11. n <= (in + out) * dear
    BY <1>2, <1>5, <1>6, <1>7, <1>10 DEF NanoUSD
  <1>12. n \div 1000 \in Nat /\ (n \div 1000) * 1000 <= n
    OBVIOUS
  <1>13. PICK m \in Nat : m = MaxTokens * dear
    BY <1>9
  <1>14. n <= m
    BY <1>9, <1>11, <1>13
  <1>15. m \div 1000 \in Nat /\ n \div 1000 <= m \div 1000
    BY <1>14
  <1>16. MicroUSD(use) = n \div 1000 /\ DearestCall = m \div 1000
    BY <1>3, <1>10, <1>13 DEF MicroUSD, DearestCall
  <1>17. PICK k \in Nat : k = (in + out) * dear
    BY <1>9
  <1>18. Total(use) * DearerPrice = k
    BY <1>2, <1>3, <1>17 DEF Total
  <1>19. n <= k
    BY <1>11, <1>17
  <1>20. (n \div 1000) * 1000 <= k
    BY <1>12, <1>19
  <1>21. QED
    BY <1>12, <1>15, <1>16, <1>18, <1>20

\* What a row does to both sums of a user and a day.
LEMMA RowAdds ==
    ASSUME TypeOK, Dated, NEW s \in Slots, Record(s), NEW u \in Users, NEW d \in Days
    PROVE  LET use == bill[s].use
               counts == u = user[s] /\ d <= born[s]
           IN  /\ use \in Usages \cup {NoUse}
               /\ counts => /\ tokensSince'[u][d] = tokensSince[u][d] + Total(use)
                            /\ spendSince'[u][d] = spendSince[u][d] + MicroUSD(use)
               /\ ~counts => /\ tokensSince'[u][d] = tokensSince[u][d]
                             /\ spendSince'[u][d] = spendSince[u][d]
  <1>1. /\ user[s] \in Users /\ born[s] \in Days
        /\ bill[s].use \in Usages \cup {NoUse}
    BY DEF Record, At, TypeOK, Dated, Bills
  <1>2. Total(bill[s].use) \in Nat /\ MicroUSD(bill[s].use) \in Nat
    BY <1>1, BillBounded, MicroUSDType
  <1>3. /\ tokensSince \in [Users -> [Days -> Nat]]
        /\ spendSince \in [Users -> [Days -> Nat]]
        /\ tokensSince' = Charge(tokensSince, user[s], born[s], Total(bill[s].use))
        /\ spendSince' = Charge(spendSince, user[s], born[s], MicroUSD(bill[s].use))
    BY DEF TypeOK, Record
  <1> DEFINE tokens == Total(bill[s].use)
             spend == MicroUSD(bill[s].use)
  <1> HIDE DEF tokens, spend
  <1>4. tokens \in Nat /\ spend \in Nat
    BY <1>2 DEF tokens, spend
  <1>5. /\ tokensSince' = Charge(tokensSince, user[s], born[s], tokens)
        /\ spendSince' = Charge(spendSince, user[s], born[s], spend)
    BY <1>3 DEF tokens, spend
  <1>6. tokensSince'[u][d] = IF u = user[s] /\ d <= born[s]
                             THEN tokensSince[u][d] + tokens ELSE tokensSince[u][d]
    BY <1>1, <1>3, <1>4, <1>5 DEF Charge
  <1>7. spendSince'[u][d] = IF u = user[s] /\ d <= born[s]
                            THEN spendSince[u][d] + spend ELSE spendSince[u][d]
    BY <1>1, <1>3, <1>4, <1>5 DEF Charge
  <1>8. QED
    BY <1>1, <1>6, <1>7 DEF tokens, spend

\* What a step of a request that writes no row may do.
LEMMA LedgerSteps ==
    ASSUME TypeOK, NEW s \in Slots, Handle(s) \/ Environment(s)
    PROVE  /\ day' = day /\ Others(s)
           /\ Record(s) \/ (tokensSince' = tokensSince /\ spendSince' = spendSince)
           /\ \/ NoEntry(s, PastSpend)
              \/ /\ pc[s] = "spend" /\ WithinSpendCap(s)
                 /\ user'[s] = user[s] /\ born'[s] = born[s]
           /\ \/ user'[s] = Nobody
              \/ born'[s] = day
              \/ user'[s] = user[s] /\ born'[s] = born[s]
  <1> DEFINE Goal == /\ day' = day /\ Others(s)
                     /\ Record(s) \/ (tokensSince' = tokensSince /\ spendSince' = spendSince)
                     /\ \/ NoEntry(s, PastSpend)
                        \/ /\ pc[s] = "spend" /\ WithinSpendCap(s)
                           /\ user'[s] = user[s] /\ born'[s] = born[s]
                     /\ \/ user'[s] = Nobody
                        \/ born'[s] = day
                        \/ user'[s] = user[s] /\ born'[s] = born[s]
  <1> USE DEF TypeOK, Others, NoEntry, PastSpend
  <1>1. ASSUME Leave(s), day' = day,
               Record(s) \/ (tokensSince' = tokensSince /\ spendSince' = spendSince)
        PROVE  Goal
    BY <1>1 DEF Leave
  <1>2. ASSUME NEW next, pc' = [pc EXCEPT ![s] = next], UNCHANGED <<user, born>>,
               day' = day, tokensSince' = tokensSince, spendSince' = spendSince,
               next \in PastSpend =>
                  pc[s] \in PastSpend \/ (pc[s] = "spend" /\ WithinSpendCap(s))
        PROVE  Goal
    BY <1>2
  <1>3. ASSUME TurnedAway(s) \/ NotDispatched(s) \/ RecordRefused(s) \/ Record(s)
        PROVE  Goal
    BY <1>1, <1>3 DEF TurnedAway, NotDispatched, RecordRefused, Record, ledger
  <1>4. ASSUME Admitted(s)
        PROVE  Goal
    BY <1>2, <1>4 DEF Admitted, ledger
  <1>5. ASSUME DailyQuota(s) \/ MonthlyQuota(s)
        PROVE  Goal
    <2>1. /\ \/ Leave(s)
             \/ Advance(s, "monthly") \/ Advance(s, "spend")
          /\ day' = day /\ tokensSince' = tokensSince /\ spendSince' = spendSince
      BY <1>5 DEF DailyQuota, MonthlyQuota, Quota, ledger
    <2>2. QED
      BY <1>1, <1>2, <2>1 DEF Advance
  <1>6. ASSUME Rejected(s) \/ Dispatched(s)
        PROVE  Goal
    BY <1>2, <1>6 DEF Rejected, Dispatched, At, Advance, ToRecord, ledger
  <1>7. ASSUME \E status \in {"timeout", "error"}, use \in Usages \cup {NoUse} :
                CallFailed(s, status, use)
        PROVE  Goal
    BY <1>2, <1>7 DEF CallFailed, At, ToRecord, ledger
  <1>8. ASSUME NEW u \in Users, Begin(s, u)
        PROVE  Goal
    BY <1>8 DEF Begin, ledger
  <1>9. ASSUME NEW use \in Usages, Answered(s, use)
        PROVE  Goal
    BY <1>2, <1>9 DEF Answered, TakeAnswer, At, ToRecord, ledger
  <1>10. ASSUME End(s) \/ \E use \in Usages : Unparsable(s, use)
         PROVE  Goal
    BY <1>1, <1>10 DEF End, Unparsable, ledger
  <1> HIDE DEF Goal
  <1>11. Goal
    BY <1>3, <1>4, <1>5, <1>6, <1>7, <1>8, <1>9, <1>10 DEF Handle, Environment
  <1>12. QED
    BY <1>11 DEF Goal

\* The steps that are not a request's.
LEMMA OtherSteps ==
    ASSUME TypeOK, Midnight \/ Tick \/ Restart
    PROVE  /\ tokensSince' = tokensSince /\ spendSince' = spendSince
           /\ \/ pc' = pc /\ user' = user /\ born' = born
              \/ \A s \in Slots : pc'[s] = "idle" /\ user'[s] = Nobody
           /\ (Tick \/ Restart) => day' = day
           /\ Midnight => day' = day + 1 /\ day' \in Days
  <1>1. CASE Midnight
    <2>1. day' = day + 1 /\ day' \in Days
      BY <1>1, GatewayAssumption DEF Midnight, TypeOK, Days
    <2>2. day' # day
      BY <2>1, DayOrder DEF TypeOK
    <2>3. UNCHANGED <<request, ledger>>
      BY <1>1 DEF Midnight
    <2>4. ~Tick /\ ~Restart
      BY <2>2 DEF Tick, Restart
    <2>5. QED
      BY <2>1, <2>3, <2>4 DEF request, ledger
  <1>2. CASE Tick
    <2>1. UNCHANGED <<request, ledger, day>>
      BY <1>2 DEF Tick
    <2>2. day \in Int
      BY DayOrder DEF TypeOK
    <2>3. ~Midnight
      BY <2>1, <2>2 DEF Midnight
    <2>4. QED
      BY <2>1, <2>3 DEF request, ledger
  <1>3. CASE Restart
    <2>1. /\ UNCHANGED <<ledger, day>>
          /\ \A s \in Slots : pc'[s] = "idle" /\ user'[s] = Nobody
      BY <1>3 DEF Restart
    <2>2. day \in Int
      BY DayOrder DEF TypeOK
    <2>3. ~Midnight
      BY <2>1, <2>2 DEF Midnight
    <2>4. QED
      BY <2>1, <2>3 DEF ledger
  <1>4. QED
    BY <1>1, <1>2, <1>3

-----------------------------------------------------------------------------
(***************************************************************************)
(* The spend against the tokens.                                           *)
(***************************************************************************)
LEMMA UnderstatedStep ==
    ASSUME TypeOK, TypeOK', Dated, SpendUnderstated, Next
    PROVE  SpendUnderstated'
  <1>1. CASE tokensSince' = tokensSince /\ spendSince' = spendSince
    BY <1>1 DEF SpendUnderstated
  <1>2. ASSUME NEW s \in Slots, Record(s)
        PROVE  SpendUnderstated'
    <2> SUFFICES ASSUME NEW u \in Users, NEW d \in Days
                 PROVE  spendSince'[u][d] * 1000 <= tokensSince'[u][d] * DearerPrice
      BY DEF SpendUnderstated
    <2>1. PICK dear \in Nat : dear = DearerPrice
      BY DearerType
    <2>2. PICK tokens \in Nat, spend \in Nat :
             tokens = tokensSince[u][d] /\ spend = spendSince[u][d]
      BY DEF TypeOK
    <2>3. spend * 1000 <= tokens * dear
      BY <2>1, <2>2 DEF SpendUnderstated
    <2>4. bill[s].use \in Usages \cup {NoUse}
      BY <1>2, RowAdds
    <2>5. PICK more \in Nat, cost \in Nat :
             more = Total(bill[s].use) /\ cost = MicroUSD(bill[s].use)
      BY <2>4, BillBounded, CallCost
    <2>6. cost * 1000 <= more * dear
      BY <2>1, <2>4, <2>5, CallCost
    <2>7. (tokens + more) * dear = tokens * dear + more * dear
      OBVIOUS
    <2>8. tokens * dear \in Nat /\ more * dear \in Nat
      BY TimesMonotone
    <2>9. (spend + cost) * 1000 <= (tokens + more) * dear
      BY <2>3, <2>6, <2>7, <2>8
    <2>10. \/ tokensSince'[u][d] = tokens /\ spendSince'[u][d] = spend
           \/ tokensSince'[u][d] = tokens + more /\ spendSince'[u][d] = spend + cost
      BY <1>2, <2>2, <2>5, RowAdds
    <2>11. QED
      BY <2>1, <2>3, <2>9, <2>10
  <1>3. QED
    BY <1>1, <1>2, LedgerSteps, OtherSteps DEF Next

\* Nothing is spent on a day to come.
LEMMA NoFutureSpend ==
    ASSUME TypeOK, NoFutureRows, SpendUnderstated, NEW u \in Users, NEW d \in Days,
           day < d
    PROVE  spendSince[u][d] = 0
  <1>1. spendSince[u][d] * 1000 <= 0 * DearerPrice
    BY DEF NoFutureRows, SpendUnderstated
  <1>2. spendSince[u][d] \in Nat /\ 0 * DearerPrice = 0
    BY DearerType DEF TypeOK
  <1>3. QED
    BY <1>1, <1>2

-----------------------------------------------------------------------------
(***************************************************************************)
(* The spend of a month.                                                   *)
(***************************************************************************)
LEMMA CostNumbers ==
    ASSUME NEW B \in SUBSET Slots, NEW A \in SUBSET B
    PROVE  /\ DearestCall \in Nat /\ Cost(A) \in Nat /\ Cost(B) \in Nat
           /\ Cost(A) <= Cost(B)
  <1>1. DearestCall \in Nat
    BY CallCost
  <1>2. QED
    BY <1>1, PriceMonotone DEF Cost

\* With fewer requests past the cap and the same spend, the bound is kept.
LEMMA FewerKeepSpend ==
    ASSUME TypeOK, NEW u \in Users, NEW first \in Days, SpendWithin(u, first),
           spendSince' = spendSince,
           Committed(u, first, PastSpend)' \subseteq Committed(u, first, PastSpend)
    PROVE  SpendWithin(u, first)'
  <1>1. /\ Cost(Committed(u, first, PastSpend)') \in Nat
        /\ Cost(Committed(u, first, PastSpend)) \in Nat /\ Cost(Slots) \in Nat
        /\ Cost(Committed(u, first, PastSpend)') <= Cost(Committed(u, first, PastSpend))
    BY CommittedSlots, CostNumbers
  <1>2. spendSince[u][first] \in Nat /\ MonthlySpendLimit \in Nat
    BY GatewayAssumption DEF TypeOK
  <1>3. Cost(Committed(u, first, PastSpend))' = Cost(Committed(u, first, PastSpend)')
        /\ Cost(Slots)' = Cost(Slots)
    BY DEF Cost, DearestCall, DearerPrice
  <1>4. QED
    BY <1>1, <1>2, <1>3 DEF SpendWithin

\* A request that passes the cap finds less than the cap spent, and all slots
\* together cost no more than the bound leaves room for.
LEMMA AdmissionKeepsSpend ==
    ASSUME TypeOK, NEW u \in Users, NEW first \in Days, spendSince' = spendSince,
           spendSince[u][first] < MonthlySpendLimit
    PROVE  SpendWithin(u, first)'
  <1>1. Committed(u, first, PastSpend)' \in SUBSET Slots
    BY DEF Committed
  <1>2. /\ Cost(Committed(u, first, PastSpend)') \in Nat /\ Cost(Slots) \in Nat
        /\ Cost(Committed(u, first, PastSpend)') <= Cost(Slots)
    BY <1>1, CostNumbers
  <1>3. spendSince[u][first] \in Nat /\ MonthlySpendLimit \in Nat
    BY GatewayAssumption DEF TypeOK
  <1>4. Cost(Committed(u, first, PastSpend))' = Cost(Committed(u, first, PastSpend)')
        /\ Cost(Slots)' = Cost(Slots)
    BY DEF Cost, DearestCall, DearerPrice
  <1>5. QED
    BY <1>2, <1>3, <1>4 DEF SpendWithin

\* A row trades the dearest call its request stood for, for what it cost.
LEMMA RecordKeepsSpend ==
    ASSUME TypeOK, Dated, NEW u \in Users, NEW first \in Days, NEW s \in Slots,
           Record(s), SpendWithin(u, first)
    PROVE  SpendWithin(u, first)'
  <1> DEFINE C == Committed(u, first, PastSpend)
  <1>1. C \in SUBSET Slots /\ C' \in SUBSET (C \ {s})
    BY DEF Record, Leave, Committed, TypeOK, PastSpend
  <1>2. CASE ~(u = user[s] /\ first <= born[s])
    <2>1. spendSince'[u][first] = spendSince[u][first] /\ C' \subseteq C
      BY <1>1, <1>2, RowAdds
    <2>2. /\ Cost(C') \in Nat /\ Cost(C) \in Nat /\ Cost(Slots) \in Nat
          /\ Cost(C') <= Cost(C)
      BY <1>1, <2>1, CostNumbers
    <2>3. spendSince[u][first] \in Nat /\ MonthlySpendLimit \in Nat
      BY GatewayAssumption DEF TypeOK
    <2>4. Cost(C)' = Cost(C') /\ Cost(Slots)' = Cost(Slots)
      BY DEF Cost, DearestCall, DearerPrice
    <2>5. QED
      BY <2>1, <2>2, <2>3, <2>4 DEF SpendWithin
  <1>3. CASE u = user[s] /\ first <= born[s]
    <2>1. s \in C
      BY <1>3 DEF Committed, Record, At, PastSpend
    <2>2. bill[s].use \in Usages \cup {NoUse}
          /\ spendSince'[u][first] = spendSince[u][first] + MicroUSD(bill[s].use)
      BY <1>3, RowAdds
    <2>3. PICK cost \in Nat : cost = MicroUSD(bill[s].use) /\ cost <= DearestCall
      BY <2>2, CallCost
    <2>4. /\ Cost(C') \in Nat /\ Cost(C) \in Nat /\ DearestCall \in Nat
          /\ Cost(C') + DearestCall <= Cost(C)
      <3>1. DearestCall \in Nat
        BY <2>2, CallCost
      <3>2. QED
        BY <1>1, <2>1, <3>1, PriceRemove DEF Cost
    <2>5. Cost(Slots) \in Nat /\ spendSince[u][first] \in Nat /\ MonthlySpendLimit \in Nat
      BY <1>1, CostNumbers, GatewayAssumption DEF TypeOK
    <2>6. Cost(C)' = Cost(C') /\ Cost(Slots)' = Cost(Slots)
      BY DEF Cost, DearestCall, DearerPrice
    <2>7. spendSince[u][first] + Cost(C) <= MonthlySpendLimit - 1 + Cost(Slots)
      BY DEF SpendWithin
    <2> HIDE DEF C
    <2>8. spendSince'[u][first] + Cost(C') <= MonthlySpendLimit - 1 + Cost(Slots)
      BY <2>2, <2>3, <2>4, <2>5, <2>7
    <2>9. QED
      BY <2>6, <2>8 DEF SpendWithin, C
  <1>4. QED
    BY <1>2, <1>3

LEMMA SpendStep ==
    ASSUME LedgerInv, Next
    PROVE  SpendInv'
  <1> USE DEF LedgerInv, QuotaIndInv
  <1>1. PICK first \in Days : first = MonthStart[day]
    BY MonthOfDay
  <1>2. ASSUME NEW u \in Users
        PROVE  SpendWithin(u, first)
    BY <1>1 DEF SpendInv
  <1>3. ASSUME NEW s \in Slots, Handle(s) \/ Environment(s), NEW u \in Users
        PROVE  SpendWithin(u, first)'
    <2>1. CASE Record(s)
      BY <1>2, <2>1, RecordKeepsSpend
    <2>2. CASE spendSince' = spendSince /\ NoEntry(s, PastSpend)
      <3>1. Committed(u, first, PastSpend)' \subseteq Committed(u, first, PastSpend)
        BY <1>3, <2>2, LedgerSteps DEF Others, NoEntry, Committed
      <3>2. QED
        BY <1>2, <2>2, <3>1, FewerKeepSpend
    <2>3. CASE /\ spendSince' = spendSince /\ pc[s] = "spend" /\ WithinSpendCap(s)
               /\ user'[s] = user[s] /\ born'[s] = born[s]
      <3>1. CASE user[s] = u /\ first <= born[s]
        <4>1. born[s] <= today[s] /\ today[s] <= day
          BY <2>3 DEF Dated
        <4>2. today[s] \in Days /\ day \in Days
          BY DEF TypeOK
        <4>3. /\ born[s] \in Int /\ today[s] \in Int /\ first \in Int
          BY <4>2, DayOrder DEF TypeOK
        <4>4. first <= today[s]
          BY <3>1, <4>1, <4>3
        <4>5. MonthStart[today[s]] = first
          BY <1>1, <4>1, <4>2, <4>4, CalendarAssumption
        <4>6. spendSince[u][first] < MonthlySpendLimit
          BY <2>3, <3>1, <4>5 DEF WithinSpendCap, SpendIn
        <4>7. QED
          BY <2>3, <4>6, AdmissionKeepsSpend
      <3>2. CASE ~(user[s] = u /\ first <= born[s])
        <4>1. Committed(u, first, PastSpend)' \subseteq Committed(u, first, PastSpend)
          BY <1>3, <2>3, <3>2, LedgerSteps DEF Others, Committed
        <4>2. QED
          BY <1>2, <2>3, <4>1, FewerKeepSpend
      <3>3. QED
        BY <3>1, <3>2
    <2>4. QED
      BY <1>3, <2>1, <2>2, <2>3, LedgerSteps
  <1>4. ASSUME Midnight \/ Tick \/ Restart, NEW u \in Users
        PROVE  SpendWithin(u, first)'
    <2>1. Committed(u, first, PastSpend)' \subseteq Committed(u, first, PastSpend)
      BY <1>4, OtherSteps DEF Committed, PastSpend
    <2>2. QED
      BY <1>2, <1>4, <2>1, OtherSteps, FewerKeepSpend
  <1>5. ASSUME day' = day, \A u \in Users : SpendWithin(u, first)'
        PROVE  SpendInv'
    BY <1>1, <1>5 DEF SpendInv, SpendWithin, Committed
  <1>6. CASE Midnight
    <2>1. PICK next \in Days : next = day' /\ next = day + 1
      BY <1>6, OtherSteps
    <2>2. MonthStart[next] \in Days /\ MonthStart[next] <= next /\ day \in Days
      BY CalendarAssumption DEF TypeOK
    <2>3. day \in Int /\ next \in Int /\ MonthStart[next] \in Int
      BY <2>2, DayOrder
    <2>4. CASE MonthStart[next] # next
      <3>1. MonthStart[next] <= day /\ day <= next
        BY <2>1, <2>2, <2>3, <2>4
      <3>2. MonthStart[next] = first
        BY <1>1, <2>2, <3>1, CalendarAssumption
      <3>3. QED
        BY <1>4, <1>6, <2>1, <3>2 DEF SpendInv, SpendWithin, Committed
    <2>5. CASE MonthStart[next] = next
      <3>1. ASSUME NEW u \in Users
            PROVE  SpendWithin(u, next)'
        <4>1. spendSince[u][next] < MonthlySpendLimit
          <5>1. spendSince[u][next] = 0
            BY <2>1, <2>3, NoFutureSpend
          <5>2. QED
            BY <5>1, GatewayAssumption
        <4>2. QED
          BY <1>6, <4>1, OtherSteps, AdmissionKeepsSpend
      <3>2. QED
        BY <2>1, <2>5, <3>1 DEF SpendInv, SpendWithin, Committed
    <2>6. QED
      BY <2>4, <2>5
  <1>7. QED
    BY <1>3, <1>4, <1>5, <1>6, LedgerSteps, OtherSteps DEF Next

-----------------------------------------------------------------------------
(***************************************************************************)
(* A day that is over.                                                     *)
(***************************************************************************)
LEMMA ClosedNumbers ==
    ASSUME TypeOK, NEW u \in Users, NEW d \in Days, d + 1 \in Days
    PROVE  /\ tokensSince[u][d] \in Nat /\ tokensSince[u][d + 1] \in Nat
           /\ AllSlotsUse \in Nat /\ DailyTokenLimit \in Nat
           /\ Born(u, d) \in SUBSET Slots /\ Born(u, d)' \in SUBSET Slots
           /\ Weight(Born(u, d)) \in Nat /\ Weight(Born(u, d)') \in Nat
           /\ Weight(Born(u, d)) <= AllSlotsUse
  <1>1. Born(u, d) \in SUBSET Slots /\ Born(u, d)' \in SUBSET Slots
    BY DEF Born
  <1>2. Weight(Slots) = AllSlotsUse
    BY DEF Weight, AllSlotsUse
  <1>3. QED
    BY <1>1, <1>2, WeightMonotone, GatewayAssumption DEF TypeOK

\* Requests of a day that is over only end, and what they write trades their
\* weight for tokens.
LEMMA FewerKeepClosed ==
    ASSUME TypeOK, NEW u \in Users, NEW d \in Days, d + 1 \in Days, ClosedWithin(u, d),
           tokensSince' = tokensSince, Born(u, d)' \subseteq Born(u, d)
    PROVE  ClosedWithin(u, d)'
  <1>1. /\ Weight(Born(u, d)') \in Nat /\ Weight(Born(u, d)) \in Nat
        /\ Weight(Born(u, d)') <= Weight(Born(u, d))
    BY ClosedNumbers, WeightMonotone
  <1>2. Weight(Born(u, d))' = Weight(Born(u, d)') /\ AllSlotsUse' = AllSlotsUse
    BY DEF Weight, AllSlotsUse
  <1>3. QED
    BY <1>1, <1>2, ClosedNumbers DEF ClosedWithin

LEMMA RecordKeepsClosed ==
    ASSUME TypeOK, Dated, NEW u \in Users, NEW d \in Days, d + 1 \in Days,
           ClosedWithin(u, d), NEW s \in Slots, Record(s)
    PROVE  ClosedWithin(u, d)'
  <1> DEFINE B == Born(u, d)
             old == tokensSince[u][d] - tokensSince[u][d + 1]
             new == tokensSince'[u][d] - tokensSince'[u][d + 1]
  <1>1. B' \in SUBSET (B \ {s}) /\ B \in SUBSET Slots
    <2>1. u # Nobody /\ user'[s] = Nobody
      BY GatewayAssumption DEF Record, Leave, TypeOK
    <2>2. \A t \in Slots \ {s} : user'[t] = user[t] /\ born'[t] = born[t]
      BY DEF Record, Leave, TypeOK
    <2>3. QED
      BY <2>1, <2>2 DEF Born
  <1>2. PICK more \in Nat : more = Total(bill[s].use) /\ more <= MaxTokens
    BY RowAdds, BillBounded
  <1>3. born[s] \in Int /\ d \in Int
    BY DayOrder DEF TypeOK
  <1>4. /\ tokensSince[u][d] \in Nat /\ tokensSince[u][d + 1] \in Nat
        /\ AllSlotsUse \in Nat /\ DailyTokenLimit \in Nat /\ MaxTokens \in Nat
        /\ Weight(B) \in Nat
    BY ClosedNumbers, GatewayAssumption
  <1>5. Weight(B)' = Weight(B') /\ AllSlotsUse' = AllSlotsUse
    BY DEF Weight, AllSlotsUse
  <1>6. old + Weight(B) <= DailyTokenLimit - 1 + 2 * AllSlotsUse
    BY DEF ClosedWithin
  <1>7. CASE u = user[s] /\ born[s] = d
    <2>1. new = old + more
      <3>1. ~(d + 1 <= born[s]) /\ d <= born[s]
        BY <1>3, <1>7
      <3>2. tokensSince'[u][d] = tokensSince[u][d] + more
            /\ tokensSince'[u][d + 1] = tokensSince[u][d + 1]
        BY <1>2, <1>7, <3>1, RowAdds
      <3>3. QED
        BY <1>2, <1>4, <3>2
    <2>2. Weight(B') \in Nat /\ Weight(B') + MaxTokens <= Weight(B)
      <3>1. s \in B
        BY <1>7 DEF Born
      <3>2. QED
        BY <1>1, <3>1, WeightRemove
    <2>3. old \in Int
      BY <1>4
    <2> HIDE DEF B, old, new
    <2>4. new + Weight(B') <= DailyTokenLimit - 1 + 2 * AllSlotsUse
      BY <1>2, <1>4, <1>6, <2>1, <2>2, <2>3
    <2>5. QED
      BY <1>5, <2>4 DEF ClosedWithin, B, new
  <1>8. CASE ~(u = user[s] /\ born[s] = d)
    <2>1. new = old
      <3>1. u = user[s] => (d <= born[s] <=> d + 1 <= born[s])
        BY <1>3, <1>8
      <3>2. \/ /\ tokensSince'[u][d] = tokensSince[u][d] + more
               /\ tokensSince'[u][d + 1] = tokensSince[u][d + 1] + more
            \/ /\ tokensSince'[u][d] = tokensSince[u][d]
               /\ tokensSince'[u][d + 1] = tokensSince[u][d + 1]
        BY <1>2, <3>1, RowAdds
      <3>3. QED
        BY <1>2, <1>4, <3>2
    <2>2. Weight(B') \in Nat /\ Weight(B') <= Weight(B)
      BY <1>1, WeightMonotone
    <2>3. old \in Int
      BY <1>4
    <2> HIDE DEF B, old, new
    <2>4. new + Weight(B') <= DailyTokenLimit - 1 + 2 * AllSlotsUse
      BY <1>4, <1>6, <2>1, <2>2, <2>3
    <2>5. QED
      BY <1>5, <2>4 DEF ClosedWithin, B, new
  <1>9. QED
    BY <1>7, <1>8

\* The day that ends: its bound, and every slot once more.
LEMMA DayCloses ==
    ASSUME QuotaIndInv, NEW u \in Users, NEW d \in Days, d + 1 \in Days, d = day
    PROVE  ClosedWithin(u, d)
  <1>1. TypeOK /\ WithinBound(u, d, PastDaily, DailyTokenLimit)
    BY DEF QuotaIndInv, QuotaInv
  <1>2. d \in Int
    BY DayOrder
  <1>3. tokensSince[u][d + 1] = 0
    BY <1>2 DEF QuotaIndInv, NoFutureRows
  <1>4. /\ tokensSince[u][d] \in Nat /\ Weight(Born(u, d)) \in Nat
        /\ AllSlotsUse \in Nat /\ DailyTokenLimit \in Nat
        /\ Weight(Born(u, d)) <= AllSlotsUse
    BY <1>1, ClosedNumbers
  <1>5. Weight(Committed(u, d, PastDaily)) \in Nat
    BY <1>1, BoundNumbers
  <1>6. tokensSince[u][d] + Weight(Committed(u, d, PastDaily))
            <= DailyTokenLimit - 1 + AllSlotsUse
    BY <1>1 DEF WithinBound
  <1> HIDE DEF AllSlotsUse
  <1>7. tokensSince[u][d] - 0 + Weight(Born(u, d))
            <= DailyTokenLimit - 1 + 2 * AllSlotsUse
    BY <1>4, <1>5, <1>6
  <1>8. QED
    BY <1>3, <1>7 DEF ClosedWithin

LEMMA ClosedStep ==
    ASSUME LedgerInv, Next, TypeOK'
    PROVE  ClosedInv'
  <1> USE DEF LedgerInv, QuotaIndInv
  <1> SUFFICES ASSUME NEW u \in Users, NEW d \in Days, d < day'
               PROVE  ClosedWithin(u, d)'
    BY DEF ClosedInv
  <1>1. d + 1 \in Days
    BY DayOrder, GatewayAssumption DEF TypeOK, Days
  <1>2. ASSUME NEW s \in Slots, Handle(s) \/ Environment(s)
        PROVE  ClosedWithin(u, d)'
    <2>1. d < day /\ ClosedWithin(u, d)
      BY <1>2, LedgerSteps DEF ClosedInv
    <2>2. CASE Record(s)
      BY <1>1, <2>1, <2>2, RecordKeepsClosed
    <2>3. CASE tokensSince' = tokensSince
      <3>1. Others(s) /\ \/ user'[s] = Nobody
                         \/ born'[s] = day
                         \/ user'[s] = user[s] /\ born'[s] = born[s]
        BY <1>2, LedgerSteps
      <3>2. d # day /\ u # Nobody
        BY <2>1, DayOrder, GatewayAssumption DEF TypeOK
      <3>3. Born(u, d)' \subseteq Born(u, d)
        BY <3>1, <3>2 DEF Born, Others
      <3>4. QED
        BY <1>1, <2>1, <2>3, <3>3, FewerKeepClosed
    <2>4. QED
      BY <1>2, <2>2, <2>3, LedgerSteps
  <1>3. CASE Midnight \/ Tick \/ Restart
    <2>1. ClosedWithin(u, d)
      <3>1. CASE d < day
        BY <3>1 DEF ClosedInv
      <3>2. CASE ~(d < day)
        <4>1. d = day
          <5>1. day' = day \/ day' = day + 1
            BY <1>3, OtherSteps
          <5>2. d \in Int /\ day \in Int
            BY DayOrder DEF TypeOK
          <5>3. QED
            BY <3>2, <5>1, <5>2
        <4>2. QED
          BY <1>1, <4>1, DayCloses
      <3>3. QED
        BY <3>1, <3>2
    <2>2. Born(u, d)' \subseteq Born(u, d)
      BY <1>3, OtherSteps, GatewayAssumption DEF Born
    <2>3. QED
      BY <1>1, <1>3, <2>1, <2>2, OtherSteps, FewerKeepClosed
  <1>4. QED
    BY <1>2, <1>3 DEF Next

-----------------------------------------------------------------------------
(***************************************************************************)
(* The books.  What a step does to a user's account is told by what it     *)
(* does to one slot: SlotBalance sets what the slot owes and what the      *)
(* ledger holds against what the provider billed.                          *)
(***************************************************************************)
SlotOwes(u, s) == IF user[s] = u /\ At(s, "recording") THEN Owed[s] ELSE 0

Alone(s) ==
    \A t \in Slots \ {s} : pc'[t] = pc[t] /\ user'[t] = user[t] /\ bill'[t] = bill[t]

\* The slots that do not move owe what they owed.
LEMMA SlotBalance ==
    ASSUME TypeOK, TypeOK', NEW s \in Slots, NEW u,
           Alone(s)
    PROVE  \E rest \in Nat :
              /\ SumOver(Owed, Recording(u)) = rest + SlotOwes(u, s)
              /\ SumOver(Owed, Recording(u))' = rest + SlotOwes(u, s)'
  <1> DEFINE Still == Recording(u) \ {s}
  <1>1. Still = Recording(u)' \ {s} /\ Still \in SUBSET Slots
    BY DEF Alone, Recording, At
  <1>2. /\ Summable(Owed, Slots) /\ \A t \in Slots : Owed[t] \in Nat
        /\ Summable(Owed', Slots) /\ \A t \in Slots : Owed'[t] \in Nat
    <2>1. PICK b \in [Slots -> Bills], c \in [Slots -> Bills] : b = bill /\ c = bill'
      BY DEF TypeOK
    <2>2. /\ Owed = [t \in Slots |-> Total(b[t].use)]
          /\ Owed' = [t \in Slots |-> Total(c[t].use)]
      BY <2>1 DEF Owed
    <2>3. QED
      BY <2>2, OwedType
  <1>3. Summable(Owed, Still)
    BY <1>1, <1>2, FS_Subset DEF Summable
  <1>4. \A t \in Still : Owed[t] = Owed'[t]
    BY DEF Alone, Owed, Recording
  <1>5. SumOver(Owed, Still) = SumOver(Owed', Still) /\ SumOver(Owed, Still) \in Nat
    <2> HIDE DEF Still
    <2>1. QED
      BY <1>1, <1>2, <1>3, <1>4, SumSame, SumType
  <1>6. SumOver(Owed, Recording(u)) = SumOver(Owed, Still) + SlotOwes(u, s)
    <2>1. CASE s \in Recording(u)
      <3>1. SumOver(Owed, Recording(u)) = Owed[s] + SumOver(Owed, Still)
        BY <1>2, <2>1, SumElement DEF Recording
      <3>2. SlotOwes(u, s) = Owed[s] /\ Owed[s] \in Nat
        BY <1>2, <2>1 DEF SlotOwes, Recording
      <3>3. QED
        BY <1>5, <3>1, <3>2
    <2>2. CASE s \notin Recording(u)
      <3>1. Still = Recording(u) /\ SlotOwes(u, s) = 0
        BY <2>2 DEF SlotOwes, Recording
      <3>2. QED
        BY <1>5, <3>1
    <2>3. QED
      BY <2>1, <2>2
  <1>7. SumOver(Owed', Recording(u)') = SumOver(Owed', Still) + SlotOwes(u, s)'
    <2>1. CASE s \in Recording(u)'
      <3>1. Recording(u)' \in SUBSET Slots
        BY DEF Recording
      <3>2. SumOver(Owed', Recording(u)') = Owed'[s] + SumOver(Owed', Still)
        BY <1>1, <1>2, <2>1, <3>1, SumElement
      <3>3. SlotOwes(u, s)' = Owed'[s] /\ Owed'[s] \in Nat
        BY <1>2, <2>1 DEF SlotOwes, Recording
      <3>4. QED
        BY <1>5, <3>2, <3>3
    <2>2. CASE s \notin Recording(u)'
      <3>1. Still = Recording(u)' /\ SlotOwes(u, s)' = 0
        BY <1>1, <2>2 DEF SlotOwes, Recording
      <3>2. QED
        BY <1>5, <3>1
    <2>3. QED
      BY <2>1, <2>2
  <1>8. QED
    BY <1>5, <1>6, <1>7

\* What the account of a user gains by a step of a slot is what the provider
\* billed in it.
Settles(u, s) ==
    tokensSince'[u][0] + SlotOwes(u, s)' + lost'[u] + consumed[u]
        = tokensSince[u][0] + SlotOwes(u, s) + lost[u] + consumed'[u]

\* The part of u in what the provider bills slot s for.
Share(u, s, use) == IF user[s] = u THEN Total(use) ELSE 0

LEMMA Shares ==
    ASSUME TypeOK, NEW s \in Slots, user[s] \in Users, NEW u \in Users,
           NEW use \in Usages \cup {NoUse}
    PROVE  /\ Share(u, s, use) \in Nat
           /\ Consume(user[s], use) => consumed'[u] = consumed[u] + Share(u, s, use)
           /\ Lose(user[s], use) => lost'[u] = lost[u] + Share(u, s, use)
  <1>1. PICK tokens \in Nat : tokens = Total(use)
    BY BillBounded
  <1>2. Share(u, s, use) = IF user[s] = u THEN tokens ELSE 0
    BY <1>1 DEF Share
  <1>3. ASSUME Consume(user[s], use)
        PROVE  consumed'[u] = consumed[u] + Share(u, s, use)
    <2>1. consumed' = [consumed EXCEPT ![user[s]] = @ + tokens]
      BY <1>1, <1>3 DEF Consume
    <2>2. QED
      BY <1>2, <2>1 DEF TypeOK
  <1>4. ASSUME Lose(user[s], use)
        PROVE  lost'[u] = lost[u] + Share(u, s, use)
    <2>1. lost' = [lost EXCEPT ![user[s]] = @ + tokens]
      BY <1>1, <1>4 DEF Lose
    <2>2. QED
      BY <1>2, <2>1 DEF TypeOK
  <1>5. QED
    BY <1>2, <1>3, <1>4

\* Every step of a request settles, for every user.
LEMMA SettlingSteps ==
    ASSUME TypeOK, TypeOK', Dated, NEW s \in Slots, Handle(s) \/ Environment(s),
           NEW u \in Users
    PROVE  Alone(s) /\ Settles(u, s)
  <1> DEFINE Goal == Alone(s) /\ Settles(u, s)
  <1>0. /\ 0 \in Days /\ tokensSince[u][0] \in Nat
        /\ consumed[u] \in Nat /\ lost[u] \in Nat
        /\ Owed[s] = Total(bill[s].use) /\ Owed[s] \in Nat
        /\ bill[s].use \in Usages \cup {NoUse}
    <2>1. bill[s].use \in Usages \cup {NoUse}
      BY DEF TypeOK, Bills
    <2>2. QED
      BY <2>1, BillBounded, DayOrder DEF TypeOK, Owed
  \* A request leaves without a row: what it owes, and what it is billed for in
  \* the same step, is lost.
  <1>1. ASSUME Leave(s), tokensSince' = tokensSince, NEW billed \in Nat,
               consumed'[u] = consumed[u] + billed,
               lost'[u] = lost[u] + billed + SlotOwes(u, s)
        PROVE  Goal
    <2>1. SlotOwes(u, s)' = 0 /\ Alone(s)
      BY <1>1 DEF Leave, SlotOwes, At, Alone, TypeOK
    <2>2. SlotOwes(u, s) \in Nat
      BY <1>0 DEF SlotOwes
    <2>3. Settles(u, s)
      BY <1>0, <1>1, <2>1, <2>2 DEF Settles
    <2>4. QED
      BY <2>1, <2>3
  \* It moves on without a bill.
  <1>2. ASSUME NEW next \in Steps \ {"recording"}, pc' = [pc EXCEPT ![s] = next],
               ~At(s, "recording"), bill' = bill, tokensSince' = tokensSince,
               consumed' = consumed, lost' = lost,
               \A t \in Slots \ {s} : user'[t] = user[t]
        PROVE  Goal
    <2>1. SlotOwes(u, s) = 0 /\ SlotOwes(u, s)' = 0 /\ Alone(s)
      BY <1>2 DEF SlotOwes, At, Alone, TypeOK
    <2>2. Settles(u, s)
      BY <1>0, <1>2, <2>1 DEF Settles
    <2>3. QED
      BY <2>1, <2>2
  \* A bill is made out; what the provider charges beyond it is lost.
  <1>3. ASSUME NEW row \in Bills, ToRecord(s, row), ~At(s, "recording"),
               tokensSince' = tokensSince, user[s] \in Users, NEW beyond \in Nat,
               consumed'[u] = consumed[u] + Share(u, s, row.use) + beyond,
               lost'[u] = lost[u] + beyond
        PROVE  Goal
    <2>1. Alone(s)
      BY <1>3 DEF ToRecord, Alone, TypeOK
    <2>2. SlotOwes(u, s) = 0
      BY <1>3 DEF SlotOwes
    <2>3. SlotOwes(u, s)' = Share(u, s, row.use)
      BY <1>3 DEF ToRecord, SlotOwes, At, Owed, Share, TypeOK
    <2>4. row.use \in Usages \cup {NoUse}
      BY DEF Bills
    <2>5. Share(u, s, row.use) \in Nat
      BY <1>3, <2>4, Shares
    <2>6. Settles(u, s)
      BY <1>0, <1>3, <2>2, <2>3, <2>5 DEF Settles
    <2>7. QED
      BY <2>1, <2>6
  <1>4. ASSUME TurnedAway(s) \/ NotDispatched(s)
        PROVE  Goal
    <2>1. /\ SlotOwes(u, s) = 0 /\ Leave(s)
          /\ tokensSince' = tokensSince /\ consumed' = consumed /\ lost' = lost
      BY <1>4 DEF TurnedAway, NotDispatched, SlotOwes, At, ledger, history
    <2>2. /\ 0 \in Nat /\ consumed'[u] = consumed[u] + 0
          /\ lost'[u] = lost[u] + 0 + SlotOwes(u, s)
      BY <1>0, <2>1
    <2>3. QED
      BY <1>1, <2>1, <2>2
  <1>5. ASSUME Admitted(s) \/ Dispatched(s)
        PROVE  Goal
    <2>1. /\ pc' = [pc EXCEPT ![s] = "daily"] \/ pc' = [pc EXCEPT ![s] = "calling"]
          /\ ~At(s, "recording") /\ bill' = bill /\ user' = user
          /\ tokensSince' = tokensSince /\ consumed' = consumed /\ lost' = lost
      BY <1>5 DEF Admitted, Dispatched, Advance, At, ledger, history
    <2>2. "daily" \in Steps \ {"recording"} /\ "calling" \in Steps \ {"recording"}
      BY DEF Steps
    <2>3. QED
      BY <1>2, <2>1, <2>2
  <1>6. ASSUME DailyQuota(s) \/ MonthlyQuota(s)
        PROVE  Goal
    <2>1. /\ pc[s] \in {"daily", "monthly"}
          /\ Leave(s) \/ Advance(s, "monthly") \/ Advance(s, "spend")
          /\ tokensSince' = tokensSince /\ consumed' = consumed /\ lost' = lost
      BY <1>6 DEF DailyQuota, MonthlyQuota, Quota, At, ledger, history
    <2>2. SlotOwes(u, s) = 0 /\ ~At(s, "recording")
      BY <2>1 DEF SlotOwes, At
    <2>3. CASE Leave(s)
      BY <1>0, <1>1, <2>1, <2>2, <2>3
    <2>4. CASE Advance(s, "monthly") \/ Advance(s, "spend")
      BY <1>2, <2>1, <2>2, <2>4 DEF Advance, Steps
    <2>5. QED
      BY <2>1, <2>3, <2>4
  <1>7. ASSUME Rejected(s)
        PROVE  Goal
    <2>1. [use |-> NoUse, status |-> "error"] \in Bills
      BY DEF Bills, Statuses
    <2>2. user[s] \in Users /\ ~At(s, "recording")
      BY <1>7 DEF Rejected, At, Dated
    <2>3. Share(u, s, NoUse) = 0
      BY DEF Share, Total, NoUse
    <2>4. QED
      BY <1>0, <1>3, <1>7, <2>1, <2>2, <2>3 DEF Rejected, ledger, history
  <1>8. ASSUME NEW status \in {"timeout", "error"}, NEW use \in Usages \cup {NoUse},
               CallFailed(s, status, use)
        PROVE  Goal
    <2>1. [use |-> NoUse, status |-> status] \in Bills
      BY DEF Bills, Statuses
    <2>2. user[s] \in Users /\ ~At(s, "recording")
      BY <1>8 DEF CallFailed, At, Dated
    <2>3. Share(u, s, NoUse) = 0
      BY DEF Share, Total, NoUse
    <2>4. PICK beyond \in Nat :
             consumed'[u] = consumed[u] + beyond /\ lost'[u] = lost[u] + beyond
      BY <1>8, <2>2, Shares DEF CallFailed
    <2>5. QED
      BY <1>0, <1>3, <1>8, <2>1, <2>2, <2>3, <2>4 DEF CallFailed, ledger
  <1>9. ASSUME NEW v \in Users, Begin(s, v)
        PROVE  Goal
    BY <1>2, <1>9 DEF Begin, At, ledger, history, Steps, TypeOK
  <1>10. ASSUME NEW use \in Usages, Answered(s, use)
         PROVE  Goal
    <2>1. [use |-> use, status |-> "ok"] \in Bills
      BY DEF Bills, Statuses
    <2>2. user[s] \in Users /\ ~At(s, "recording")
      BY <1>10 DEF Answered, TakeAnswer, At, Dated
    <2>3. Share(u, s, use) \in Nat /\ consumed'[u] = consumed[u] + Share(u, s, use)
      BY <1>10, <2>2, Shares DEF Answered, TakeAnswer
    <2>4. QED
      BY <1>0, <1>3, <1>10, <2>1, <2>2, <2>3 DEF Answered, ledger
  <1>11. ASSUME NEW use \in Usages, Unparsable(s, use)
         PROVE  Goal
    <2>1. SlotOwes(u, s) = 0 /\ user[s] \in Users
      BY <1>11 DEF Unparsable, TakeAnswer, SlotOwes, At, Dated
    <2>2. PICK billed \in Nat :
             consumed'[u] = consumed[u] + billed /\ lost'[u] = lost[u] + billed
      BY <1>11, <2>1, Shares DEF Unparsable, TakeAnswer
    <2>3. QED
      BY <1>0, <1>1, <1>11, <2>1, <2>2 DEF Unparsable, ledger
  \* The table refuses the row, or the commit fails.
  <1>12. ASSUME At(s, "recording"), Leave(s), Lose(user[s], bill[s].use),
                consumed' = consumed, tokensSince' = tokensSince
         PROVE  Goal
    <2>1. user[s] \in Users
      BY <1>12 DEF At, Dated
    <2>2. SlotOwes(u, s) = Share(u, s, bill[s].use)
      BY <1>0, <1>12 DEF SlotOwes, Share
    <2>3. /\ Share(u, s, bill[s].use) \in Nat
          /\ lost'[u] = lost[u] + Share(u, s, bill[s].use)
      BY <1>0, <1>12, <2>1, Shares
    <2>4. /\ consumed'[u] = consumed[u] + 0
          /\ lost'[u] = lost[u] + 0 + SlotOwes(u, s)
      BY <1>0, <1>12, <2>2, <2>3
    <2>5. QED
      BY <1>1, <1>12, <2>4
  <1>13. ASSUME End(s)
         PROVE  Goal
    <2>1. Leave(s) /\ tokensSince' = tokensSince
      BY <1>13 DEF End, ledger
    <2>2. CASE At(s, "recording")
      BY <1>12, <1>13, <2>1, <2>2 DEF End, At
    <2>3. CASE At(s, "calling")
      <3>1. SlotOwes(u, s) = 0 /\ user[s] \in Users
        BY <2>3 DEF SlotOwes, At, Dated
      <3>2. PICK use \in Usages \cup {NoUse} :
               Consume(user[s], use) /\ Lose(user[s], use)
        BY <1>13, <2>3 DEF End, At
      <3>3. PICK billed \in Nat :
               consumed'[u] = consumed[u] + billed /\ lost'[u] = lost[u] + billed
        BY <3>1, <3>2, Shares
      <3>4. QED
        BY <1>0, <1>1, <2>1, <3>1, <3>3
    <2>4. CASE ~At(s, "recording") /\ ~At(s, "calling")
      <3>1. SlotOwes(u, s) = 0 /\ consumed' = consumed /\ lost' = lost
        BY <1>13, <2>4 DEF End, SlotOwes
      <3>2. /\ consumed'[u] = consumed[u] + 0
            /\ lost'[u] = lost[u] + 0 + SlotOwes(u, s)
        BY <1>0, <3>1
      <3>3. QED
        BY <1>1, <2>1, <3>2
    <2>5. QED
      BY <2>2, <2>3, <2>4
  <1>14. ASSUME RecordRefused(s)
         PROVE  Goal
    BY <1>12, <1>14 DEF RecordRefused, ledger
  \* The bill is paid.
  <1>15. ASSUME Record(s)
         PROVE  Goal
    <2>1. Leave(s) /\ At(s, "recording") /\ consumed' = consumed /\ lost' = lost
      BY <1>15 DEF Record, history
    <2>2. SlotOwes(u, s)' = 0 /\ Alone(s)
      BY <2>1 DEF Leave, SlotOwes, At, Alone, TypeOK
    <2>3. 0 <= born[s]
      BY DayOrder DEF TypeOK
    <2>4. tokensSince'[u][0] = tokensSince[u][0] + SlotOwes(u, s)
      <3>1. PICK d \in Days : d = 0
        BY <1>0
      <3>2. /\ u = user[s] => tokensSince'[u][d] = tokensSince[u][d] + Total(bill[s].use)
            /\ u # user[s] => tokensSince'[u][d] = tokensSince[u][d]
        BY <1>15, <2>3, <3>1, RowAdds
      <3>3. QED
        BY <1>0, <2>1, <3>1, <3>2 DEF SlotOwes
    <2>5. SlotOwes(u, s) \in Nat
      BY <1>0 DEF SlotOwes
    <2>6. Settles(u, s)
      BY <1>0, <2>1, <2>2, <2>4, <2>5 DEF Settles
    <2>7. QED
      BY <2>2, <2>6
  <1> HIDE DEF Goal
  <1>16. Goal
    BY <1>4, <1>5, <1>6, <1>7, <1>8, <1>9, <1>10, <1>11, <1>13, <1>14, <1>15
       DEF Handle, Environment
  <1>17. QED
    BY <1>16 DEF Goal

\* An account that balanced, and gained what was billed, balances.
LEMMA Rebalance ==
    ASSUME NEW row \in Nat, NEW row2 \in Nat, NEW old \in Nat, NEW new \in Nat,
           NEW gone \in Nat, NEW gone2 \in Nat, NEW rest \in Nat,
           NEW billed \in Nat, NEW billed2 \in Nat,
           row2 + new + gone2 + billed = row + old + gone + billed2,
           row + (rest + old) + gone = billed
    PROVE  row2 + (rest + new) + gone2 = billed2
  OBVIOUS

LEMMA BooksStep ==
    ASSUME TypeOK, TypeOK', Dated, BooksBalance, Next
    PROVE  BooksBalance'
  <1>1. ASSUME NEW s \in Slots, Handle(s) \/ Environment(s), NEW u \in Users
        PROVE  Settled(u)' = consumed'[u]
    <2>1. Alone(s) /\ Settles(u, s)
      BY <1>1, SettlingSteps
    <2>2. PICK rest \in Nat :
             /\ SumOver(Owed, Recording(u)) = rest + SlotOwes(u, s)
             /\ SumOver(Owed, Recording(u))' = rest + SlotOwes(u, s)'
      BY <2>1, SlotBalance
    <2>3. /\ tokensSince[u][0] \in Nat /\ tokensSince'[u][0] \in Nat
          /\ consumed[u] \in Nat /\ consumed'[u] \in Nat
          /\ lost[u] \in Nat /\ lost'[u] \in Nat
      BY DayOrder DEF TypeOK
    <2>4. SlotOwes(u, s) \in Nat /\ SlotOwes(u, s)' \in Nat
      <3>1. PICK b \in [Slots -> Bills], c \in [Slots -> Bills] : b = bill /\ c = bill'
        BY DEF TypeOK
      <3>2. Total(b[s].use) \in Nat /\ Total(c[s].use) \in Nat
        BY BillBounded DEF Bills
      <3>3. QED
        BY <3>1, <3>2 DEF SlotOwes, Owed
    <2>5. tokensSince[u][0] + (rest + SlotOwes(u, s)) + lost[u] = consumed[u]
      BY <2>2 DEF BooksBalance, Settled
    <2>6. Settled(u)' = tokensSince'[u][0] + (rest + SlotOwes(u, s)') + lost'[u]
      BY <2>2 DEF Settled
    <2>7. tokensSince'[u][0] + SlotOwes(u, s)' + lost'[u] + consumed[u]
              = tokensSince[u][0] + SlotOwes(u, s) + lost[u] + consumed'[u]
      BY <2>1 DEF Settles
    <2>8. tokensSince'[u][0] + (rest + SlotOwes(u, s)') + lost'[u] = consumed'[u]
      <3>1. PICK old \in Nat, new \in Nat :
               old = SlotOwes(u, s) /\ new = SlotOwes(u, s)'
        BY <2>4
      <3>2. PICK row \in Nat, row2 \in Nat, gone \in Nat, gone2 \in Nat :
               /\ row = tokensSince[u][0] /\ row2 = tokensSince'[u][0]
               /\ gone = lost[u] /\ gone2 = lost'[u]
        BY <2>3
      <3>3. row2 + new + gone2 + consumed[u] = row + old + gone + consumed'[u]
        BY <2>7, <3>1, <3>2
      <3>4. row + (rest + old) + gone = consumed[u]
        BY <2>5, <3>1, <3>2
      <3>5. row2 + (rest + new) + gone2 = consumed'[u]
        BY <2>3, <3>3, <3>4, Rebalance
      <3>6. QED
        BY <3>1, <3>2, <3>5
    <2>9. QED
      BY <2>6, <2>8
  <1>2. CASE Midnight \/ Tick
    BY <1>2 DEF Midnight, Tick, request, ledger, history, BooksBalance, Settled, Owed,
       Recording, At
  \* A restart loses what every slot owes, and what is billed unseen.
  <1>3. ASSUME Restart, NEW u \in Users
        PROVE  Settled(u)' = consumed'[u]
    <2>1. PICK unseen \in [Users -> 0..MaxConsumed] :
             /\ consumed' = [v \in Users |-> consumed[v] + unseen[v]]
             /\ lost' = [v \in Users |-> lost[v] + unseen[v] + Owing(v)]
      BY <1>3 DEF Restart
    <2>2. Recording(u)' = {} /\ tokensSince' = tokensSince
      BY <1>3 DEF Restart, Recording, At, ledger
    <2>3. SumOver(Owed', Recording(u)') = 0
      BY <2>2, SumEmpty
    <2>4. Owing(u) \in Nat /\ Owing(u) = SumOver(Owed, Recording(u))
      BY OwingType, DueIsOwed
    <2>5. /\ tokensSince[u][0] \in Nat /\ consumed[u] \in Nat /\ lost[u] \in Nat
          /\ unseen[u] \in Nat
      BY DayOrder, GatewayAssumption DEF TypeOK
    <2>6. tokensSince[u][0] + Owing(u) + lost[u] = consumed[u]
      BY <2>4 DEF BooksBalance, Settled
    <2>7. Settled(u)' = tokensSince[u][0] + 0 + lost'[u]
      BY <2>2, <2>3 DEF Settled
    <2>8. QED
      BY <2>1, <2>4, <2>5, <2>6, <2>7
  <1>4. QED
    BY <1>1, <1>2, <1>3 DEF Next, BooksBalance

-----------------------------------------------------------------------------
(***************************************************************************)
(* The invariant, and what follows.                                        *)
(***************************************************************************)
LEMMA LedgerInit == Init => LedgerInv
  <1> SUFFICES ASSUME Init
               PROVE  LedgerInv
    OBVIOUS
  <1>1. QuotaIndInv
    BY QuotaInit
  <1>2. SpendUnderstated
    <2>1. 0 * DearerPrice = 0
      BY DearerType
    <2>2. QED
      BY <2>1 DEF Init, SpendUnderstated
  <1>3. ASSUME NEW u \in Users
        PROVE  SpendWithin(u, MonthStart[day])
    <2>1. Committed(u, MonthStart[day], PastSpend) = {}
      BY DEF Init, Committed, PastSpend
    <2>2. DearestCall \in Nat /\ Cost(Slots) \in Nat
      BY CostNumbers
    <2>3. Cost(Committed(u, MonthStart[day], PastSpend)) = 0
      BY <2>1, <2>2, FS_EmptySet DEF Cost
    <2>4. spendSince[u][MonthStart[day]] = 0
      BY <1>1, MonthOfDay DEF Init, QuotaIndInv
    <2>5. QED
      BY <2>2, <2>3, <2>4, GatewayAssumption DEF SpendWithin
  <1>4. ClosedInv
    BY DayOrder DEF Init, ClosedInv
  <1>5. ASSUME NEW u \in Users
        PROVE  Settled(u) = consumed[u]
    <2>1. Recording(u) = {}
      BY DEF Init, Recording, At
    <2>2. SumOver(Owed, Recording(u)) = 0
      BY <2>1, SumEmpty
    <2>3. QED
      BY <2>2, DayOrder DEF Init, Settled
  <1>6. QED
    BY <1>1, <1>2, <1>3, <1>4, <1>5 DEF LedgerInv, SpendInv, BooksBalance

LEMMA LedgerNext == LedgerInv /\ [Next]_vars => LedgerInv'
  <1> SUFFICES ASSUME LedgerInv, [Next]_vars
               PROVE  LedgerInv'
    OBVIOUS
  <1>1. QuotaIndInv'
    BY QuotaNext DEF LedgerInv
  <1>2. CASE Next
    BY <1>1, <1>2, UnderstatedStep, SpendStep, ClosedStep, BooksStep
       DEF LedgerInv, QuotaIndInv
  <1>3. CASE UNCHANGED vars
    BY <1>1, <1>3 DEF LedgerInv, vars, request, ledger, SpendUnderstated, SpendInv,
       SpendWithin, ClosedInv, ClosedWithin, Committed, Born, history, BooksBalance,
       Settled, Owed, Recording, At
  <1>4. QED
    BY <1>2, <1>3

\* Rounding understates the spend and never overstates it: it is at most the
\* logged tokens at the dearer price, for every user, day and price.
THEOREM Understated == Spec => []SpendUnderstated
  BY LedgerInit, LedgerNext, PTL DEF Spec, LedgerInv

\* The month's spend is over the cap by no more than the dearest call for each
\* slot, whatever is in flight between the query and the row.
THEOREM MonthlySpend == Spec => []MonthlySpendBounded
  <1>1. LedgerInv => MonthlySpendBounded
    <2> SUFFICES ASSUME LedgerInv, NEW u \in Users
                 PROVE  spendSince[u][MonthStart[day]]
                            <= MonthlySpendLimit - 1 + Cardinality(Slots) * DearestCall
      BY DEF MonthlySpendBounded
    <2>1. SpendWithin(u, MonthStart[day])
      BY DEF LedgerInv, SpendInv
    <2>2. /\ Cost(Committed(u, MonthStart[day], PastSpend)) \in Nat
          /\ Cost(Slots) \in Nat
      BY CommittedSlots, CostNumbers
    <2>3. spendSince[u][MonthStart[day]] \in Nat
      BY MonthOfDay DEF LedgerInv, QuotaIndInv, TypeOK
    <2>4. spendSince[u][MonthStart[day]] <= MonthlySpendLimit - 1 + Cost(Slots)
      BY <2>1, <2>2, <2>3, GatewayAssumption DEF SpendWithin
    <2>5. QED
      BY <2>4 DEF Cost
  <1>2. QED
    BY <1>1, LedgerInit, LedgerNext, PTL DEF Spec

\* A day that is over holds at most the limit and two full calls for each slot,
\* though the requests born on it may be checked against the next day's quota.
THEOREM ClosedDays == Spec => []ClosedDayBounded
  <1>1. LedgerInv => ClosedDayBounded
    <2> SUFFICES ASSUME LedgerInv, NEW u \in Users, NEW d \in 0..(day - 1)
                 PROVE  tokensSince[u][d] - tokensSince[u][d + 1]
                            <= DailyTokenLimit - 1 + 2 * AllSlotsUse
      BY DEF ClosedDayBounded
    <2>1. TypeOK
      BY DEF LedgerInv, QuotaIndInv
    <2>2. d \in Days /\ d + 1 \in Days /\ d < day
      BY <2>1, GatewayAssumption DEF TypeOK, Days
    <2>3. ClosedWithin(u, d)
      BY <2>2 DEF LedgerInv, ClosedInv
    <2>4. /\ tokensSince[u][d] \in Nat /\ tokensSince[u][d + 1] \in Nat
          /\ AllSlotsUse \in Nat /\ DailyTokenLimit \in Nat
          /\ Weight(Born(u, d)) \in Nat
      BY <2>1, <2>2, ClosedNumbers
    <2> HIDE DEF AllSlotsUse
    <2>5. QED
      BY <2>3, <2>4 DEF ClosedWithin
  <1>2. QED
    BY <1>1, LedgerInit, LedgerNext, PTL DEF Spec

\* The books balance: every token the provider bills a user for is in one row, in
\* one answer that is about to be written, or was lost with its call, whatever
\* rejects, interrupts or refuses the request and however often the process restarts.
THEOREM BooksKept == Spec => []Accounted
  <1>1. LedgerInv => Accounted
    BY DueIsOwed DEF LedgerInv, QuotaIndInv, BooksBalance, Settled, Accounted
  <1>2. QED
    BY <1>1, LedgerInit, LedgerNext, PTL DEF Spec
=============================================================================
