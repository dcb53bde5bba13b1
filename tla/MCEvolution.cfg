SPECIFICATION FairSpec
CONSTANTS
    Trees = {seed, other, dotgit, fifo}
    Seed = seed
    Forbidden = {dotgit}
    Special = {fifo}
    Scores = {0, 1}
    NoState = NoState
    Costs = {2}
    MaxCost = 2
    InitialCap = 1
    CapLimit = 1
    MaxAttempts = 2
    MaxSteps = 2
INVARIANTS
    EvolutionTypeOK
    AcceptedIsEvaluated
    HistoryIsEvidenced
    RejectionRestores
    OneResponseOverCap
PROPERTIES
    ImplementsLineage
    AttemptDecides
CHECK_DEADLOCK FALSE
