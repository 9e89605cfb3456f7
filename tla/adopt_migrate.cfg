SPECIFICATION Spec
CONSTANTS
    v1 = v1
    v2 = v2
    Vols <- TwoVols
    Migrate = TRUE
    LostReplies = {"autostart", "rebuild"}
    EnvActs = {"power", "write", "other", "crash"}
    EnvBudget = 3
    MaxRuns = 1
INVARIANTS
    TypeOK
    WritesKept
    RebuiltOnFreshCopy
    DoneAsPlanned
CHECK_DEADLOCK FALSE
