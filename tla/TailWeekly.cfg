SPECIFICATION FairSpec
CONSTANTS
    Modes = {confirmed}
    Workers = {w1}
    MaxEnd = 3
    Period <- TwoPeriods
    Higher = TRUE
    TailBarLimit = 5
    ContextBars = 1
    TailConfig = module_c
    BaseConfig = module_c
    MaxVersion = 3
    MaxRun = 8
    MaxClaims = 8
    MaxFaults = 1
    MaxRecomputes = 0
PROPERTIES CatchesUp
