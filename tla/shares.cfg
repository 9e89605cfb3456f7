SPECIFICATION Spec
CONSTANTS
    s1 = s1
    s2 = s2
    c1 = c1
    c2 = c2
    Shares <- OneShare
    Calls <- TwoCalls
    Kinds = {"cache", "nfs", "smb"}
    Values = {"no", "yes"}
    Modes = {"public", "private"}
    Lists = {"old", "new"}
    Initial <- AtFirst
    Faults = {"fail", "lost", "late", "undo"}
    UiFields = {"cache", "sec", "hosts"}
    Restarts = TRUE
    EnvBudget = 1
SYMMETRY CallSymmetry
INVARIANTS
    ServesOnlyAsked
PROPERTIES
    DoneIsInEffect
    CacheSparesOthers
    SmbUndoes
CHECK_DEADLOCK FALSE
