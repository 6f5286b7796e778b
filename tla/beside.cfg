SPECIFICATION Spec
CONSTANTS
    build = build
    NoTask = NoTask
    Names <- OneName
    Order <- OneInOrder
    Kind <- OneKind
    Verifies <- OneVerifies
    Pushes <- OnePushes
    Plans <- OnePlan
    ExitOnError = TRUE
    SpawnMaxAttempts = 1
    MaxAgents <- TwoAgents
    Commands <- FourCommands
    Shared <- OnePlan
    MaxEvents = 4
PROPERTY AgentsKeepNames DecisionsStand HeardCordHolds
CHECK_DEADLOCK FALSE
