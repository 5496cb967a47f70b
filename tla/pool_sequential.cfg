SPECIFICATION Spec
CONSTANTS
    c1 = c1
    c2 = c2
    s1 = s1
    s2 = s2
    teacher = teacher
    r1 = r1
    r2 = r2
    r3 = r3
    NoUser = NoUser
    NoClass = NoClass
    NoRequest = NoRequest
    Same = Same
    Users = {s1, teacher}
    Staff = {teacher}
    Classes = {c1, c2}
    MaxRow = 3
    Requests = {r1}
    Ops <- SequentialOps
    InitialRows <- TwoClasses
INVARIANT NoOrphanRows NoDanglingHolder
CHECK_DEADLOCK FALSE
