SPECIFICATION FairSpec
CONSTANTS
    Slots = {s1, s2}
    Members = {m1, m2, m3, m4}
    Limit = 2
    Window = 4
    MaxLag = 1
INVARIANTS
    TypeOK
    RateBounded
    KeyOutlivesRequests
PROPERTIES
    NotStarved
    Promise
