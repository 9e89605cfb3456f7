SPECIFICATION Spec
CONSTANTS
    v1 = v1
    v2 = v2
    Vols <- OneVol
    Migrate = FALSE
    LostReplies = {"autostart", "rebuild", "remove"}
    EnvActs = {"power", "write", "other", "prune", "template", "autostart", "crash"}
    EnvBudget = 3
    MaxRuns = 2
INVARIANTS
    RollbackRestores
PROPERTIES
    SparesForeignVolumes
    CopiedWhileQuiet
    SparesUserTemplate
CHECK_DEADLOCK FALSE
