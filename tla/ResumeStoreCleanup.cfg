SPECIFICATION Spec
CONSTANTS
    Requests = {r1}
    Users = {u1}
    Objects = {o1, o2}
    None = None
    Retention = 1
    MaxResumes = 2
INVARIANTS
    AbandonedCleaned
