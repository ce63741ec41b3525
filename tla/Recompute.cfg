CONSTANTS
    Scopes = {s1, s2, x}
    Eligible = {s1, s2}
    Headed = {s1}
    Modes = {"confirmed"}
    Workers = {w1, w2}
    ShardOf <- OneShard
    ShardWorked <- AllWorkOnIt
    MaxAttempts = 2
    MaxMoves = 1
    MaxFaults = 1
SPECIFICATION FairSpec
INVARIANTS TypeOK PublishedByLastClaim EndIsEnd
PROPERTIES ForeignHeadKept SealedIsPublished Ends
CHECK_DEADLOCK FALSE
