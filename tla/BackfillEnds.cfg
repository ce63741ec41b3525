SPECIFICATION FairSpec
CONSTANTS
    Tasks = {t1, t2}
    Workers = {w1, w2}
    MaxBar = 3
    PageSize = 1
    TaskLimit = 2
    Concurrency = 1
    MaxPages = 2
    MaxAttempts = 2
    Kinds = {TRUE, FALSE}
    StopAt = 1
    Through = 2
    FirstBars <- Full
    MaxLeases = 30
    MaxFaults = 1
    MaxResets = 0
PROPERTIES Finishes
