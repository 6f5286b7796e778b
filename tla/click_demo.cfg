SPECIFICATION Spec
CONSTANTS
    fresh = fresh
    sold = sold
    Leads = {fresh, sold}
    SeedStage <- TwoSeedStages
    MaxHandoffs = 4
INVARIANT OneStepAtATime EveryWaitTimed ObjectsMatchDecisions
PROPERTY ArrivalComes
