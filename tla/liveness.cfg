SPECIFICATION MCFairSpec
CONSTANTS
    v1 = v1
    i1 = i1
    i2 = i2
    c1 = c1
    c2 = c2
    Vols <- OneVol
    Migrate = TRUE
    LostReplies = {"autostart", "rebuild"}
    EnvActs = {"power", "write"}
    EnvBudget = 2
    MaxRuns = 1
    Ids <- TwoIds
    Calls <- TwoCalls
    Ordered <- FirstCall
    Verbs = {"autostart"}
    Protected <- First
    Own = {}
    Image <- OneImage
    Waits = {}
    UiActs = {"list"}
    UiBudget = 1
PROPERTIES
    StoppedComesBack
    SectionEnds
CHECK_DEADLOCK FALSE
