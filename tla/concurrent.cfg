SPECIFICATION Spec
CONSTANTS
    Leads = {l1}
    Calls = {c1, c2}
    Idle = Idle
    NoOpp = NoOpp
    Replies <- FruitfulReply
    MaxRuns = 6
    ConsoleLock = FALSE
    Crashes = TRUE
    Roles = {"sales", "manager", "viewer"}
    Targets = {"talk", "won"}
SYMMETRY CallSymmetry
INVARIANTS
    ObjectsMatchStatus
    AgentOrder
PROPERTIES
    HistoryKept
    EffectsByHuman
    FailureStops
    Lifecycle
