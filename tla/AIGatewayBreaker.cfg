SPECIFICATION FairSpec
CONSTANTS
    Users = {u1}
    Nobody = Nobody
    Payer = u1
    Slots = {s1, s2, s3}
    DailyTokenLimit = 2
    MonthlyTokenLimit = 5
    MonthlySpendLimit = 4
    InputPrice = 500
    OutputPrice = 1500
    Usages <- FreeCalls
    MaxTokens = 0
    LedgerStatuses = {"error"}
    KeyChoices = {TRUE, FALSE}
    LastDay = 0
    MonthStart <- OneMonth
    MaxFaults = 2
    MaxConsumed = 0
    Threshold = 5
    Cooldown = 2
INVARIANTS
    OpensOnFailedCalls
PROPERTIES
    QuietRecovery
    EveryRequestEnds
