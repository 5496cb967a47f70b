SPECIFICATION MCSpec
CONSTANTS
    Watched = {"background_sync", "auto_shutdown", "ip_scanner"}
    MaxAge <- Silences
    MaxRestarts <- Limits
    Hour = 5
    Apps = {"a1", "a2"}
    MaxBreaks = 2
    LabVms = {"v1", "v2"}
    Located = {"v1"}
    Day = 4
    Settings <- FourSettings
    Labs = {"c1", "c2"}
    Nobody = "nobody"
    Width = 3
    PrefixOf <- OnePrefix
    FirstVmid = 2
    LastVmid = 8
    PoolSizes = {1, 2}
    MaxTroubles = 2
    MaxStrangers = 1
    MaxIndex = 4
    MaxTries = 2
    BatchSize = 2
    Pools = {1, 3}
    Requests = {"r1"}
    Failing <- CommandsAndProbe
INVARIANT DaemonInv CloneInv LoneInv
PROPERTY AttemptNeedsSilence Recovers StopsOnlyOutside OutsideIsStopped ClonedAreListed AddEnds
CHECK_DEADLOCK FALSE
