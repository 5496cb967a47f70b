SPECIFICATION MCSpec
CONSTANTS
    c1 = c1
    c2 = c2
    s1 = s1
    s2 = s2
    teacher = teacher
    r1 = r1
    r2 = r2
    r3 = r3
    NoUser = NoUser
    NoClass = NoClass
    NoRequest = NoRequest
    Same = Same
    Users = {s1, s2}
    Staff = {}
    Classes = {c1}
    MaxRow = 3
    Requests = {r1, r2}
    Ops <- StudentOps
    InitialRows <- BaseAndPool
    Vms = {"v1", "ct"}
    Containers = {"ct"}
    Macs = {"v1", "ct"}
    AskedFor <- Itself
    VmidOf <- OneId
    Seated = {7}
    Ips = {"i1", "i2"}
    NoIp = "none"
    NoLine = "nobody"
    Waiters = {"daemon"}
    Viewers = {"r1", "r2"}
    MaxMoves = 1
INVARIANT HolderIsEnrolled AssignedIffHeld IpInv
PROPERTY RequestsEnd Addressed
CHECK_DEADLOCK FALSE
