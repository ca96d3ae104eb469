SPECIFICATION Spec
CONSTANTS
    Requests = {r1, r2}
    Accounts = {a1}
    Tokens = {t1, t2, t3}
    None = None
    LockThreshold = 5
    LockPeriod = 1
    RefreshTTL = 7
    LastTime = 0
    MaxWrong = 0
INVARIANTS
    RefreshSingleUse
