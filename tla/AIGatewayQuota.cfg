SPECIFICATION Spec
CONSTANTS
    Users = {u1}
    Nobody = Nobody
    Payer = u1
    Slots = {s1, s2}
    DailyTokenLimit = 1
    MonthlyTokenLimit = 3
    MonthlySpendLimit = 2
    InputPrice = 500
    OutputPrice = 1500
    Usages <- SmallCalls
    MaxTokens = 1
    LedgerStatuses = {"ok", "timeout", "error"}
    KeyChoices = {TRUE}
    LastDay = 2
    MonthStart <- TwoMonths
    MaxFaults = 1
    MaxConsumed = 5
    Threshold = 1
    Cooldown = 1
SYMMETRY Symmetry
INVARIANTS
    TypeOK
    DailyOvershootBounded
    MonthlyOvershootBounded
    MonthlySpendBounded
    ClosedDayBounded
    SpendUnderstated
    Accounted
PROPERTIES
    KeepsBudgets
