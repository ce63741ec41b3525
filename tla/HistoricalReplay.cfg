CONSTANTS
    Modes = {confirmed, predictive}
    MaxCutoff = 3
    Workers = {w1, w2}
    MaxAttempts = 2
    Repairs = {r1}
SPECIFICATION Spec
SYMMETRY Symmetry
INVARIANTS TypeOK EventsExact SealedChain RepairExact
CHECK_DEADLOCK FALSE
