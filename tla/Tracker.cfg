SPECIFICATION Spec
CONSTANTS
    Requests = {r1, r2}
    Users = {u1, u2}
    Keys = {k1, k2}
    None = None
    UniqueIndex = FALSE
    MaxJobs = 2
    MaxApps = 3
    MaxResumes = 1
SYMMETRY Symmetry
INVARIANTS
    TypeOK
    ApplicationsOnOwnJobs
    DashboardShowsOwn
    DuplicatesBounded
PROPERTIES
    NewApplicationsOwnResumes
