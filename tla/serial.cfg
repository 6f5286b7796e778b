SPECIFICATION FairSpec
CONSTANTS
    Leads = {l1}
    Calls = {c1}
    Idle = Idle
    NoOpp = NoOpp
    Replies <- EveryReply
    MaxRuns = 6
    ConsoleLock = TRUE
    Crashes = TRUE
    Roles = {"sales", "manager", "viewer"}
    Targets = {"talk", "won"}
INVARIANTS
    OnePending
    EffectiveOnce
    SendsOwnDraft
    BannerTrue
    
    RunsVisible
    ProposalStaysOpen
PROPERTIES
    RequestsReturn
