SPECIFICATION Spec
CONSTANTS
    Requests = {r1, r2}
    Accounts = {a1}
    Tokens = {t1, t2, t3, t4}
    None = None
    LockThreshold = 3
    LockPeriod = 1
    RefreshTTL = 0
    LastTime = 1
    MaxWrong = 7
SYMMETRY Symmetry
CONSTRAINT LockoutOrRotation
INVARIANTS
    TypeOK
    LockNeedsWrongPasswords
    BruteForceBounded
    ReplayBounded
    SessionsMatchProvider
PROPERTIES
    ReplayWindowCloses
    KeepsStore
