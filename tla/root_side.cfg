SPECIFICATION MCSpec
CONSTANTS
    r1 = r1
    r2 = r2
    c1 = c1
    c2 = c2
    Runs <- TwoRuns
    Foreign <- OneForeign
    Ctrs <- TwoCtrs
    Writes = 2
    EnvBudget = 2
SYMMETRY Symmetry
INVARIANTS
    WholeOrGone
    RetireAgrees
PROPERTIES
    SparesOthers
    LeftoversUnused
CHECK_DEADLOCK FALSE
