SPECIFICATION FairSpec
CONSTANTS
    Streams = {a, b}
    MaxRun = 3
    Shape <- TwinFirst
    OutboxSize = 1
    Recomputes = TRUE
    MaxUpsets = 2
INVARIANTS TypeOK Consistent ResyncUnderWay
PROPERTIES CatchesUp
CHECK_DEADLOCK FALSE
