CONSTANTS
    Scopes = {s1}
    MaxEnd = 3
    Procs = {p1, p2}
    MaxTx = 3
    MaxGen = 2
SPECIFICATION Spec
SYMMETRY Symmetry
INVARIANTS TypeOK CatalogExact
PROPERTIES ChangesCount
CHECK_DEADLOCK FALSE
