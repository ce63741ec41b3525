SPECIFICATION FairSpec
CONSTANTS
    Modes = {confirmed}
    Workers = {w1, w2}
    MaxEnd = 2
    Period <- EachBar
    Higher = FALSE
    TailBarLimit = 5
    ContextBars = 1
    TailConfig = module_c
    BaseConfig = module_c
    MaxVersion = 2
    MaxRun = 8
    MaxClaims = 8
    MaxFaults = 2
    MaxRecomputes = 0
INVARIANTS TypeOK NothingMissed OneClaimant
PROPERTIES LiveLeaseKept Implements CatchesUp
