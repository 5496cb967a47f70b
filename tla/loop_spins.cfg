SPECIFICATION FairSpec
CONSTANTS
    r1 = r1
    r2 = r2
    MaxIndex = 2
    MaxTries = 2
    BatchSize = 2
    Pools = {1}
    Requests = {r1}
    Failing <- Commands
PROPERTY LoopEnds
