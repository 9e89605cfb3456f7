SPECIFICATION Spec
CONSTANTS
    Containers <- MCContainers
    Images <- MCImages
    LogDefaults <- MCLogDefaults
    Foreign <- MCForeign
    AnonymousNames <- MCAnonymousNames
    NewIds <- MCNewIds
    MaxRuns = 2
    EnvBudget = 1
INVARIANTS
    FaithfulRebuild
PROPERTY
    SettlesInOnePass
CHECK_DEADLOCK FALSE
