SPECIFICATION Spec
CONSTANTS
    Users = {u1}
    Nobody = Nobody
    Payer = u1
    Slots = {s1, s2}
    DailyTokenLimit = 2
    MonthlyTokenLimit = 5
    MonthlySpendLimit = 4
    InputPrice = 500
    OutputPrice = 1500
    Usages <- SmallCalls
    MaxTokens = 1
    LedgerStatuses = {"error"}
    KeyChoices = {TRUE}
    LastDay = 0
    MonthStart <- OneMonth
    MaxFaults = 0
    MaxConsumed = 4
    Threshold = 5
    Cooldown = 2
PROPERTIES
    AnswersCharged
