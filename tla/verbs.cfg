SPECIFICATION MCSpec
CONSTANTS
    i1 = i1
    i2 = i2
    c1 = c1
    c2 = c2
    Ids <- TwoIds
    Calls <- TwoCalls
    Ordered <- FirstCall
    Verbs = {"autostart", "restart", "remove"}
    Protected <- First
    Own = {}
    Image <- OneImage
    Waits = {w1}
    UiActs = {"power", "create", "list", "order"}
    UiBudget = 1
INVARIANTS
    AppliedHolds
PROPERTIES
    AppliedMeansUntouched
    LeavesOthersAlone
    DoneAsAsked
    RemovesOnlyWhatItSaw
CHECK_DEADLOCK FALSE
