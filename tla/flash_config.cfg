SPECIFICATION Spec
CONSTANTS
    u1 = u1
    u2 = u2
    x = x
    h1 = h1
    h2 = h2
    Users = {u1, u2}
    Foreign = {x}
    Hashes = {h1, h2}
    Managed = {}
    Remote <- MCRemote
    Calls <- MCCalls
    Kind <- MCKind
    Scenarios <- MCScenarios
    BootUids <- MCBootUids
    TarOrder <- MCTarOrder
INVARIANTS
    PasswordsSurvive
    RepairHeals
    AccountsKept
    ArchiveAgrees
CHECK_DEADLOCK FALSE
