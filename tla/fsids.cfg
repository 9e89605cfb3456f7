SPECIFICATION Spec
CONSTANTS
    a = a
    b = b
    c = c
    c1 = c1
    c2 = c2
    k1 = k1
    k2 = k2
    Shares <- ThreeShares
    Name <- ByName
    Keys <- TwoKeys
    Hash <- Collide
    Span = 4
    Initial = {0, 1002, 1003}
    Others = {1002}
    Calls <- TwoCalls
    EnvBudget = 2
SYMMETRY CallSymmetry
INVARIANTS
    TypeOK
    PlanUnique
    PlanStable
    KeyStable
PROPERTY
    KeepsPromise
CHECK_DEADLOCK FALSE
