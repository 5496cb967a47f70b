SPECIFICATION Spec
CONSTANTS
    p1 = p1
    p2 = p2
    r1 = r1
    r2 = r2
    r3 = r3
    NoPrefix = NoPrefix
    NoRequest = NoRequest
    MaxClass = 2
    Prefixes = {p1, p2}
    Requests = {r1, r2}
    Ops <- OnlyCreate
SYMMETRY Symmetric
PROPERTY CreatedMeansStored
CHECK_DEADLOCK FALSE
