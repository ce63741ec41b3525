SPECIFICATION FairSpec
CONSTANTS
    Heads = {"c", "p"}
    ModeOf <- Both
    NoHead = NoHead
    Things = {s}
    Observers = {o1, o2}
    Nobody = Nobody
    MaxId = 3
    MaxAttempts = 2
    MaxBaselines = 1
    MaxFaults = 2
INVARIANTS TypeOK ProjectionExact RebuildAgrees WatermarkSafe
PROPERTIES FollowsHeads Drains
CHECK_DEADLOCK FALSE
