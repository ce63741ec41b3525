SPECIFICATION Spec
CONSTANTS
    Tasks = {t1}
    Workers = {w1, w2}
    MaxBar = 5
    PageSize = 2
    TaskLimit = 1
    Concurrency = 1
    MaxPages = 2
    MaxAttempts = 2
    Kinds = {TRUE, FALSE}
    StopAt = 1
    Through = 3
    FirstBars <- AnyStart
    MaxLeases = 8
    MaxFaults = 3
    MaxResets = 1
SYMMETRY Symmetry
INVARIANTS TypeOK Covered OneOwner SuccessComplete
PROPERTIES ClaimKept
