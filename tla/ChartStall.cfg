SPECIFICATION FairSpec
CONSTANTS
    Streams = {a}
    MaxRun = 3
    Shape <- TwinFirst
    OutboxSize = 1
    Recomputes = FALSE
    MaxUpsets = 2
PROPERTIES PollingRecovers
CHECK_DEADLOCK FALSE
