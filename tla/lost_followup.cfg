SPECIFICATION FairSpec
CONSTANTS
    Leads = {l1}
    Calls = {c1}
    Idle = Idle
    NoOpp = NoOpp
    Replies <- LosingReply
    MaxRuns = 6
    ConsoleLock = TRUE
    Crashes = FALSE
    Roles = {"sales", "manager"}
    Targets = {"talk", "won"}
PROPERTIES
    FollowupArrives
