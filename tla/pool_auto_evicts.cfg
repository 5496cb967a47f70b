SPECIFICATION Spec
CONSTANTS
    c1 = c1
    c2 = c2
    s1 = s1
    s2 = s2
    teacher = teacher
    r1 = r1
    r2 = r2
    r3 = r3
    NoUser = NoUser
    NoClass = NoClass
    NoRequest = NoRequest
    Same = Same
    Users = {s1, s2}
    Staff = {}
    Classes = {c1}
    MaxRow = 2
    Requests = {r1, r2}
    Ops <- AutoVsJoin
    InitialRows <- OnePool
PROPERTY AutoAssignNeverEvicts
CHECK_DEADLOCK FALSE
