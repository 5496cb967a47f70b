SPECIFICATION Spec
CONSTANTS
    r1 = r1
    r2 = r2
    MaxIndex = 3
    MaxTries = 2
    BatchSize = 2
    Pools = {1, 3}
    Requests = {r1, r2}
    Failing <- Failures
SYMMETRY Symmetric
INVARIANT LoopInv
PROPERTY BaseStays
