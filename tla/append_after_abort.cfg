SPECIFICATION Spec
CONSTANTS
    Leads = {l1}
    Calls = {c1, c2}
    Idle = Idle
    NoOpp = NoOpp
    Replies <- FruitfulReply
    MaxRuns = 6
    ConsoleLock = FALSE
    Crashes = FALSE
    Roles = {"sales", "manager"}
    Targets = {"talk", "won"}
PROPERTIES
    StoppedAppendsNothing
