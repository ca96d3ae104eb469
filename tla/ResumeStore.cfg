SPECIFICATION Spec
CONSTANTS
    Requests = {r1, r2}
    Users = {u1, u2}
    Objects = {o1, o2}
    None = None
    Retention = 0
    MaxResumes = 3
SYMMETRY Symmetry
INVARIANTS
    TypeOK
    RowsHaveObjects
    NamesReadable
    OwnText
PROPERTIES
    LeftoversUnnamed
