SPECIFICATION MCSpec
CONSTANTS
    p00 = p00
    p99 = p99
    p01 = p01
    e0 = e0
    a1 = a1
    a2 = a2
    b1 = b1
    b2 = b2
    c1 = c1
    c0 = c0
    Students = {p01}
    Assigned = {p01}
    Placed = {p01}
    Teacher = p00
    BaseVm = p99
    PathDisks = {p00}
    Editors = {e0}
    ImageOps = {"save", "push", "deploy", "publish", "reimage", "recreate"}
    MaxFaults <- OneFault
    Deployments = {"d1"}
    SetupFailing = {"command", "commit", "moved", "deleted"}
    Hosts = {a1, a2}
    Threads = {b1, b2}
    Executors = {1, 2, 3}
    NoExecutor = NoExecutor
    MaxConnections = 1
    IdleLimit = 0
    Users = {a1, a2}
    Staff = {}
    Classes = {c1}
    MaxRow = 3
    Requests = {b1, b2}
    NoUser = NoUser
    NoClass = c0
    NoRequest = NoRequest
    Same = Same
    Ops <- JoinOps
    InitialRows <- TwoPools
SYMMETRY Alike
INVARIANT OneVmPerStudent   SshPoolInv SetupInv
PROPERTY JoinIsAtomic TwoPushesLose ConnectionsEnd InfraKept
CHECK_DEADLOCK FALSE
