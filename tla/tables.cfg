SPECIFICATION MCSpec
CONSTANTS
    Guests = {"a1", "a2"}
    HostOf <- OneCluster
    LooksIn <- OneCluster
    QuickAsks <- Itself
    Clusters = {"A", "B"}
    Syncers = {"daemon"}
    Clerks = {"clerk"}
    NoOne = "none"
    InvOps = {"full", "quick", "deploy", "use", "cleanup"}
    MaxTries = 2
    MaxChanges = 1
    MaxMisses = 1
    Nodes = {"n1", "n2"}
    NoNode = "none"
    Tpls = {"t1", "t2"}
    Isos = {"f1", "f2"}
    Site <- SiteOf
    Volid <- SameVol
    Volids = {"v"}
    Labs = {"c"}
    NoTpl = "notpl"
    Workers = {"daemon", "route"}
    SyncDaemon = "daemon"
    CatOps = {"tpl_full", "tpl_quick", "tpl_route", "iso_full", "iso_quick"}
    MaxEvents = 1
    MaxSilences = 1
    MaxClass = 2
    Prefixes = {"p1", "p2"}
    Requests = {"r1"}
    NoPrefix = "none"
    NoRequest = "none"
    Ops <- OneByOne
INVARIANT TablesTypeOK OneByOneInv
PROPERTY RowsGo KeptWhenHeard TablesSettle OneByOneSteps
