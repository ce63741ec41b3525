SPECIFICATION Spec
CONSTANTS
    MaxSequence = 4
    MaxUpsets = 2
INVARIANTS TypeOK ReadyIsFresh RestIsFresh
CHECK_DEADLOCK FALSE
