SPECIFICATION Spec
CONSTANTS
    build = build
    check = check
    NoTask = NoTask
    Names <- TwoNames
    Order <- TwoInOrder
    Kind <- TwoKinds
    Verifies <- TwoVerifies
    Pushes <- TwoPushes
    Plans <- TwoPlans
    ExitOnError = TRUE
    SpawnMaxAttempts = 2
    MaxAgents <- FewAgents
    Commands <- SixCommands
    Shared = {}
    MaxEvents = 3
INVARIANT HandedOffHasFile RunningIsWatched NewErrorsExplained StuckForAReason
PROPERTY DecisionsStand VerifierOnDeliveredBranch LoopEnds
CHECK_DEADLOCK FALSE
