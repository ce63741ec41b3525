SPECIFICATION Spec
CONSTANTS
    Modes = {confirmed, predictive}
    Workers = {w1}
    MaxEnd = 2
    Period <- EachBar
    Higher = FALSE
    TailBarLimit = 1
    ContextBars = 0
    TailConfig = module_c
    BaseConfig = module_c_next
    MaxVersion = 2
    MaxRun = 8
    MaxClaims = 2
    MaxFaults = 1
    MaxRecomputes = 1
INVARIANTS SuccessIsDone
