------------------------------ MODULE AIGateway ------------------------------
(***************************************************************************)
(* A metered AI request: the routes of app/api/routes/ai.py, ai_request()  *)
(* of app/services/ai_gateway.py and enforce_ai_limits(),                  *)
(* record_ai_usage(), call_with_timeout() and the circuit breaker of       *)
(* app/core/ai_guard.py.                                                   *)
(*                                                                         *)
(* A request is a coroutine: it interleaves with the others at each await  *)
(* (the rate-limit call, three ledger queries, the provider call, the      *)
(* ledger commit), and each action is the code between two of them.  A     *)
(* slot is one pooled database connection: get_current_user()'s SELECT     *)
(* opens the transaction the request holds until its ledger row commits,   *)
(* so no more requests are in flight than the pool has connections.        *)
(***************************************************************************)
EXTENDS CircuitBreaker, FiniteSets, FiniteSetsExt

CONSTANTS
    Users,
    Nobody,              \* the user of an idle slot
    Payer,               \* any one user, whose budgets are looked at
    Slots,               \* pooled connections (pool_size + max_overflow)
    DailyTokenLimit,
    MonthlyTokenLimit,
    MonthlySpendLimit,   \* in micro-USD
    InputPrice,          \* nano-USD per token
    OutputPrice,
    Usages,              \* token counts the provider may report for one call
    MaxTokens,           \* the largest total among them
    LedgerStatuses,      \* the statuses the deployed ledger table accepts
    KeyChoices,          \* whether the provider's API key may be set or not
    LastDay,             \* bound: days 0..LastDay
    MonthStart,          \* the first day of the month of each day
    MaxFaults,           \* bound on process restarts and interrupted requests
    MaxConsumed          \* bound on the tokens the provider bills per user

Days == 0..LastDay
Statuses == {"ok", "timeout", "error"}
Total(use) == use.in + use.out

ASSUME GatewayAssumption ==
    /\ Nobody \notin Users
    /\ Payer \in Users
    /\ DailyTokenLimit \in Nat \ {0}
    /\ MonthlyTokenLimit \in Nat \ {0}
    /\ MonthlySpendLimit \in Nat \ {0}
    /\ InputPrice \in Nat /\ OutputPrice \in Nat
    /\ MaxTokens \in Nat
    /\ Usages \subseteq [in : Nat, out : Nat]
    /\ \A use \in Usages : Total(use) <= MaxTokens
    /\ IsFiniteSet(Slots)
    /\ LedgerStatuses \subseteq Statuses
    /\ KeyChoices \subseteq BOOLEAN
    /\ LastDay \in Nat
    /\ MaxFaults \in Nat /\ MaxConsumed \in Nat

\* A month is an interval of days that contains its start.
ASSUME CalendarAssumption ==
    /\ MonthStart \in [Days -> Days]
    /\ \A d \in Days : MonthStart[d] <= d
    /\ \A d, e \in Days :
          MonthStart[d] <= e /\ e <= d => MonthStart[e] = MonthStart[d]

VARIABLES
    pc,           \* per slot, where its request stands
    user,         \* whose request it is
    born,         \* the day its transaction began: created_at's now()
    today,        \* the day enforce_ai_limits() computed its windows from
    bill,         \* the ledger row it is to write
    breaker,      \* the provider's entry in `breakers`
    configured,   \* whether the provider's API key is set
    tokensSince,  \* per user and day d, SUM(tokens) WHERE created_at >= d
    spendSince,   \* per user and day d, SUM(cost_usd) WHERE created_at >= d
    day,          \* the current UTC day
    faults,       \* restarts and interrupted requests so far (bound only)
    consumed,     \* history: tokens the provider has billed, per user
    lost,         \* history: those among them that no row will ever show
    failedCalls   \* history: provider calls failed since the last success

request == <<pc, user, born, today, bill>>
ledger == <<tokensSince, spendSince>>
history == <<consumed, lost, failedCalls>>
vars == <<request, breaker, configured, ledger, day, faults, history>>

Steps == {"idle", "arrived", "daily", "monthly", "spend", "calling", "recording"}
NoUse == [in |-> 0, out |-> 0]
NoBill == [use |-> NoUse, status |-> "ok"]
Bills == [use : Usages \cup {NoUse}, status : Statuses]

TypeOK ==
    /\ pc \in [Slots -> Steps]
    /\ user \in [Slots -> Users \cup {Nobody}]
    /\ born \in [Slots -> Days]
    /\ today \in [Slots -> Days]
    /\ bill \in [Slots -> Bills]
    /\ breaker \in Breakers
    /\ configured \in BOOLEAN
    /\ tokensSince \in [Users -> [Days -> Nat]]
    /\ spendSince \in [Users -> [Days -> Nat]]
    /\ day \in Days
    /\ faults \in 0..MaxFaults
    /\ consumed \in [Users -> Nat]
    /\ lost \in [Users -> Nat]
    /\ failedCalls \in 0..Threshold

Init ==
    /\ pc = [s \in Slots |-> "idle"]
    /\ user = [s \in Slots |-> Nobody]
    /\ born = [s \in Slots |-> 0]
    /\ today = [s \in Slots |-> 0]
    /\ bill = [s \in Slots |-> NoBill]
    /\ breaker = NewBreaker
    /\ configured \in KeyChoices
    /\ tokensSince = [u \in Users |-> [d \in Days |-> 0]]
    /\ spendSince = [u \in Users |-> [d \in Days |-> 0]]
    /\ day = 0
    /\ faults = 0
    /\ consumed = [u \in Users |-> 0]
    /\ lost = [u \in Users |-> 0]
    /\ failedCalls = 0

-----------------------------------------------------------------------------
(***************************************************************************)
(* Moves of one slot.  Leave is every exit of ai_request() other than its  *)
(* return: the routes catch each exception and answer from the local       *)
(* fallback, and get_db()'s closing commit finds nothing to write.         *)
(***************************************************************************)
At(s, step) == pc[s] = step
Advance(s, step) ==
    /\ pc' = [pc EXCEPT ![s] = step]
    /\ UNCHANGED <<user, born, today, bill>>
ToRecord(s, row) ==
    /\ pc' = [pc EXCEPT ![s] = "recording"]
    /\ bill' = [bill EXCEPT ![s] = row]
    /\ UNCHANGED <<user, born, today>>
Leave(s) ==
    /\ pc' = [pc EXCEPT ![s] = "idle"]
    /\ user' = [user EXCEPT ![s] = Nobody]
    /\ born' = [born EXCEPT ![s] = 0]
    /\ today' = [today EXCEPT ![s] = 0]
    /\ bill' = [bill EXCEPT ![s] = NoBill]

\* One quota query: over the limit is a 429, otherwise on to the next one.
Quota(s, step, next, within) ==
    /\ At(s, step)
    /\ \/ within /\ Advance(s, next)
       \/ ~within /\ Leave(s)
    /\ UNCHANGED <<breaker, configured, ledger, day, faults, history>>

\* The provider bills a call of user u ...
Consume(u, use) ==
    /\ consumed[u] + Total(use) <= MaxConsumed
    /\ consumed' = [consumed EXCEPT ![u] = @ + Total(use)]

\* ... which nobody will write down.
Lose(u, use) == lost' = [lost EXCEPT ![u] = @ + Total(use)]

\* Answers that are taken, and whose rows are yet to be committed.
Recording(u) == {s \in Slots : user[s] = u /\ At(s, "recording")}
Due(s) == Total(bill[s].use)
Owing(u) == MapThenSumSet(Due, Recording(u))

TokensIn(s, first) == tokensSince[user[s]][first]
SpendIn(s, first) == spendSince[user[s]][first]

\* A row created on day d is seen by every query that starts on d or before.
Charge(since, u, d, amount) ==
    [since EXCEPT ![u] = [e \in Days |-> IF e <= d THEN @[e] + amount ELSE @[e]]]

\* cost_usd in nano-USD, before int() drops what is below a micro-USD.
NanoUSD(use) == use.in * InputPrice + use.out * OutputPrice

-----------------------------------------------------------------------------
\* Faulty variants of actions below, for mutation tests.
DailyQuotaInclusive(s) ==
    Quota(s, "daily", "monthly", TokensIn(s, today[s]) <= DailyTokenLimit)
DailyQuotaUnchecked(s) == Quota(s, "daily", "monthly", TRUE)
MonthlyQuotaOfToday(s) ==
    Quota(s, "monthly", "spend", TokensIn(s, today[s]) < MonthlyTokenLimit)
SpendCapOfToday(s) == SpendIn(s, today[s]) < MonthlySpendLimit
CallHangs(s, status, use) == At(s, "calling") /\ status \notin Statuses
RecordAgain(s) ==
    /\ At(s, "recording")
    /\ tokensSince' = Charge(tokensSince, user[s], born[s], Total(bill[s].use))
    /\ UNCHANGED <<request, breaker, configured, spendSince, day, faults, history>>

MicroUSDUnscaled(use) == NanoUSD(use)

-----------------------------------------------------------------------------
\* get_current_user() lets the user in on a free connection.
Begin(s, u) ==
    /\ At(s, "idle")
    /\ pc' = [pc EXCEPT ![s] = "arrived"]
    /\ user' = [user EXCEPT ![s] = u]
    /\ born' = [born EXCEPT ![s] = day]
    /\ UNCHANGED <<today, bill>>
    /\ UNCHANGED <<breaker, configured, ledger, day, faults, history>>

\* The prompt exceeds the input cap, or the rate limiter answers 429.
TurnedAway(s) ==
    /\ At(s, "arrived")
    /\ Leave(s)
    /\ UNCHANGED <<breaker, configured, ledger, day, faults, history>>

\* The rate limiter admits the request, or fails open; the windows of all
\* three queries are computed here.
Admitted(s) ==
    /\ At(s, "arrived")
    /\ pc' = [pc EXCEPT ![s] = "daily"]
    /\ today' = [today EXCEPT ![s] = day]
    /\ UNCHANGED <<user, born, bill>>
    /\ UNCHANGED <<breaker, configured, ledger, day, faults, history>>

DailyQuota(s) ==
    Quota(s, "daily", "monthly", TokensIn(s, today[s]) < DailyTokenLimit)

MonthlyQuota(s) ==
    Quota(s, "monthly", "spend",
          TokensIn(s, MonthStart[today[s]]) < MonthlyTokenLimit)

WithinSpendCap(s) == SpendIn(s, MonthStart[today[s]]) < MonthlySpendLimit

\* The spend query's 429, or an API key that is not set.
NotDispatched(s) ==
    /\ At(s, "spend")
    /\ ~WithinSpendCap(s) \/ ~configured
    /\ Leave(s)
    /\ UNCHANGED <<breaker, configured, ledger, day, faults, history>>

\* guard() raises.  It does so inside ai_request()'s try, so the rejection is
\* recorded as one more failure, and gets a ledger row.
Rejected(s) ==
    /\ At(s, "spend")
    /\ WithinSpendCap(s) /\ configured
    /\ Rejects(breaker)
    /\ breaker' = RecordFailure(breaker)
    /\ ToRecord(s, [use |-> NoUse, status |-> "error"])
    /\ UNCHANGED <<configured, ledger, day, faults, history>>

\* guard() passes and the provider is called.
Dispatched(s) ==
    /\ At(s, "spend")
    /\ WithinSpendCap(s) /\ configured
    /\ ~Rejects(breaker)
    /\ breaker' = AfterGuard(breaker)
    /\ Advance(s, "calling")
    /\ UNCHANGED <<configured, ledger, day, faults, history>>

\* What every answer does, whatever becomes of its body.
TakeAnswer(s, use) ==
    /\ At(s, "calling")
    /\ Consume(user[s], use)
    /\ breaker' = RecordSuccess(breaker)
    /\ failedCalls' = 0

\* The provider answers, and the answer parses and validates.
Answered(s, use) ==
    /\ TakeAnswer(s, use)
    /\ ToRecord(s, [use |-> use, status |-> "ok"])
    /\ UNCHANGED <<configured, ledger, day, faults, lost>>

\* The answer is not JSON, or fails the schema: the exception leaves
\* ai_request() before its accounting.
Unparsable(s, use) ==
    /\ TakeAnswer(s, use)
    /\ Lose(user[s], use)
    /\ Leave(s)
    /\ UNCHANGED <<configured, ledger, day, faults>>

\* wait_for() runs out, or the call raises.  The provider may bill it all the
\* same: its answer is late, or has no candidates to take a text from.
CallFailed(s, status, use) ==
    /\ At(s, "calling")
    /\ Consume(user[s], use) /\ Lose(user[s], use)
    /\ breaker' = RecordFailedCall(breaker)
    /\ failedCalls' = Capped(failedCalls + 1)
    /\ ToRecord(s, [use |-> NoUse, status |-> status])
    /\ UNCHANGED <<configured, ledger, day, faults>>

MicroUSD(use) == NanoUSD(use) \div 1000

\* record_ai_usage() commits the row, dated by the transaction's start.
Record(s) ==
    /\ At(s, "recording")
    /\ bill[s].status \in LedgerStatuses
    /\ tokensSince' = Charge(tokensSince, user[s], born[s], Total(bill[s].use))
    /\ spendSince' = Charge(spendSince, user[s], born[s], MicroUSD(bill[s].use))
    /\ Leave(s)
    /\ UNCHANGED <<breaker, configured, day, faults, history>>

\* The table's CHECK on status refuses the row; the route falls back.
RecordRefused(s) ==
    /\ At(s, "recording")
    /\ bill[s].status \notin LedgerStatuses
    /\ Lose(user[s], bill[s].use)
    /\ Leave(s)
    /\ UNCHANGED <<breaker, configured, ledger, day, faults, consumed, failedCalls>>

\* The request is cut short at whatever it awaits: it is cancelled, or the
\* database fails its query or its commit.  A commit that fails writes no row (of
\* one whose confirmation alone is lost the row stands: that is Record), and a
\* call that nobody waits for any longer may be billed.  Neither exception passes
\* the breaker: a cancellation is none that call_with_timeout() catches.
End(s) ==
    /\ faults < MaxFaults
    /\ faults' = faults + 1
    /\ \/ /\ pc[s] \in {"arrived", "daily", "monthly", "spend"}
          /\ UNCHANGED <<consumed, lost>>
       \/ /\ At(s, "calling")
          /\ \E use \in Usages \cup {NoUse} :
                Consume(user[s], use) /\ Lose(user[s], use)
       \/ /\ At(s, "recording")
          /\ Lose(user[s], bill[s].use)
          /\ UNCHANGED consumed
    /\ Leave(s)
    /\ UNCHANGED <<breaker, configured, ledger, day, failedCalls>>

-----------------------------------------------------------------------------
\* Time and the process.
Midnight ==
    /\ day < LastDay
    /\ day' = day + 1
    /\ UNCHANGED <<request, breaker, configured, ledger, faults, history>>

Tick ==
    /\ breaker.open /\ breaker.age < Cooldown
    /\ breaker' = Aged(breaker)
    /\ UNCHANGED <<request, configured, ledger, day, faults, history>>

\* The process restarts: requests in flight are lost, the ledger is not.  An
\* answer not yet committed gets no row, and neither does a call in flight, of
\* which the provider may bill the tokens.
Restart ==
    /\ faults < MaxFaults
    /\ faults' = faults + 1
    /\ \E unseen \in [Users -> 0..MaxConsumed] :
          /\ \A u \in Users :
                LET calls == {s \in Slots : user[s] = u /\ At(s, "calling")}
                IN  /\ unseen[u] <= Cardinality(calls) * MaxTokens
                    /\ consumed[u] + unseen[u] <= MaxConsumed
          /\ consumed' = [u \in Users |-> consumed[u] + unseen[u]]
          /\ lost' = [u \in Users |-> lost[u] + unseen[u] + Owing(u)]
    /\ pc' = [s \in Slots |-> "idle"]
    /\ user' = [s \in Slots |-> Nobody]
    /\ born' = [s \in Slots |-> 0]
    /\ today' = [s \in Slots |-> 0]
    /\ bill' = [s \in Slots |-> NoBill]
    /\ breaker' = NewBreaker
    /\ configured' \in KeyChoices
    /\ failedCalls' = 0
    /\ UNCHANGED <<ledger, day>>

\* What the process does by itself: a call that is not answered times out.
Handle(s) ==
    \/ TurnedAway(s) \/ Admitted(s)
    \/ DailyQuota(s) \/ MonthlyQuota(s)
    \/ NotDispatched(s) \/ Rejected(s) \/ Dispatched(s)
    \/ \E status \in {"timeout", "error"}, use \in Usages \cup {NoUse} :
          CallFailed(s, status, use)
    \/ Record(s) \/ RecordRefused(s)

\* What clients, the provider and the database may do.
Environment(s) ==
    \/ \E u \in Users : Begin(s, u)
    \/ End(s)
    \/ \E use \in Usages : Answered(s, use) \/ Unparsable(s, use)

Next ==
    \/ \E s \in Slots : Handle(s) \/ Environment(s)
    \/ Midnight
    \/ Tick
    \/ Restart

Spec == Init /\ [][Next]_vars

\* The event loop runs every coroutine that can run, each await ends (the
\* provider call by wait_for()'s timer at the latest), and the clock advances.
\* Nothing is assumed of the clients or of the provider.
Fairness ==
    /\ \A s \in Slots : WF_vars(Handle(s))
    /\ WF_vars(Tick)

FairSpec == Spec /\ Fairness
-----------------------------------------------------------------------------
(***************************************************************************)
(* Quotas.  enforce_ai_limits() reads the ledger long before the request   *)
(* writes to it, so a quota is a threshold for admission and not a bound   *)
(* on use.  These are the bounds the code does keep.                       *)
(***************************************************************************)
AllSlotsUse == Cardinality(Slots) * MaxTokens

\* Concurrent requests that all passed the check can overshoot the daily
\* quota, but by one full call per connection at most: the tokens the ledger
\* dates today stay below the limit plus what every slot may still add.
DailyOvershootBounded ==
    \A u \in Users :
        tokensSince[u][day] <= DailyTokenLimit - 1 + AllSlotsUse

\* The same for the month that is running, across its midnights.
MonthlyOvershootBounded ==
    \A u \in Users :
        tokensSince[u][MonthStart[day]] <= MonthlyTokenLimit - 1 + AllSlotsUse

\* The quota of a day, and that of a month, is a budget that a request is let in
\* on and spends later.  A request holds a reservation of the period once it has
\* passed the check, if its row will be dated in that period: one that began
\* before midnight spends on the day that is over.
Holding(first, steps) == {s \in Slots : user[s] = Payer /\ born[s] >= first /\ pc[s] \in steps}

DailyBudget == INSTANCE Budget WITH
    Holders <- Slots, Limit <- DailyTokenLimit,
    used <- tokensSince[Payer][day],
    held <- Holding(day, {"monthly", "spend", "calling", "recording"})
MonthlyBudget == INSTANCE Budget WITH
    Holders <- Slots, Limit <- MonthlyTokenLimit,
    used <- tokensSince[Payer][MonthStart[day]],
    held <- Holding(MonthStart[day], {"spend", "calling", "recording"})

\* Whatever awaits, midnights and restarts come between the check of a request
\* and its row, the gateway keeps both budgets: it lets nobody in on a budget that
\* is used up, and no one spends without having been let in on it.
KeepsBudgets == DailyBudget!Spec /\ MonthlyBudget!Spec

\* A request that began before midnight may be checked against the new day's
\* quota and is still dated by its transaction's start, so a day that is over
\* can grow by the slots once more, and by no more than that.
ClosedDayBounded ==
    \A u \in Users, d \in 0..(day - 1) :
        tokensSince[u][d] - tokensSince[u][d + 1]
            <= DailyTokenLimit - 1 + 2 * AllSlotsUse

\* The ledger's books balance, whatever fails on the way: each token the provider
\* bills a user for is in one row of the ledger, or in one answer about to be
\* written, or was lost with its call.  No retry, rollback or late answer shows a
\* call twice, and no row shows tokens that nobody was billed for.
Accounted ==
    \A u \in Users : tokensSince[u][0] + Owing(u) + lost[u] = consumed[u]

DearerPrice == IF InputPrice < OutputPrice THEN OutputPrice ELSE InputPrice
DearestCall == (MaxTokens * DearerPrice) \div 1000

\* The dollar cap has the same kind of bound: what the requests past the check
\* can still cost.
MonthlySpendBounded ==
    \A u \in Users :
        spendSince[u][MonthStart[day]]
            <= MonthlySpendLimit - 1 + Cardinality(Slots) * DearestCall

\* Rounding each row down to a micro-USD only ever understates the spend, so
\* what the spend cap sees is at most the logged tokens at the dearer price.
SpendUnderstated ==
    \A u \in Users, d \in Days :
        spendSince[u][d] * 1000 <= tokensSince[u][d] * DearerPrice

-----------------------------------------------------------------------------
(***************************************************************************)
(* The circuit breaker.                                                    *)
(***************************************************************************)

\* Each failed call counts twice, so the breaker opens early; but it never
\* opens before half the threshold of calls failed with no success between.
OpensOnFailedCalls == breaker.open => 2 * failedCalls >= Threshold

\* README, Circuit breaker: a "60s cooldown" ends.
CooldownEnds == Rejects(breaker) ~> ~Rejects(breaker)

\* Once requests stop coming, the breaker recovers by itself: the cooldown runs
\* out and the next request will be let through.
QuietRecovery ==
    <>[](\A s \in Slots : At(s, "idle")) => <>[]~Rejects(breaker)

\* Every request is answered: no path through the gateway leaves a connection
\* held for ever, whatever the provider and the ledger do.
EveryRequestEnds == \A s \in Slots : ~At(s, "idle") ~> At(s, "idle")

-----------------------------------------------------------------------------
(***************************************************************************)
(* Promises of the documentation that the code does not keep.              *)
(***************************************************************************)

\* README, Monthly AI spend cap: "Enforced via AIUsageLedger": the tokens of an
\* answered call are in the ledger once its request has ended.
AnswersCharged ==
    [][\A s \in Slots :
          At(s, "recording") /\ At(s, "idle")' /\ Total(bill[s].use) > 0 =>
              tokensSince'[user[s]] # tokensSince[user[s]]]_vars
=============================================================================
