SPECIFICATION Spec
CONSTANTS
    Requests = {r1, r2}
    Users = {u1}
    Keys = {k1}
    None = None
    UniqueIndex = TRUE
    MaxJobs = 2
    MaxApps = 0
    MaxResumes = 0
SYMMETRY Symmetry
PROPERTIES
    DedupRemovesDuplicates
