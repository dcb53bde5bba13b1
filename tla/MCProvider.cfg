SPECIFICATION FairSpec
CONSTANTS
    Workers = {w1, w2}
    NoReservation = NoReservation
    Lanes = {"anthropic", "openai", "codex"}
    Games = 3
    MaxRounds = 2
    MaxCost = 3
    Reservations = {r1, r2, r3, r4, r5, r6}
    Turn = 2
    Costs = {1, 3}
    InitialCap = 5
    CapLimit = 6
    SpendLimit = 0
INVARIANTS
    RoundsTypeOK
    SettledOnce
    Solvent
    SealedSettled
    ApiReceiptOrHold
    OrphanHoldsAreMarked
    BoundedOverspend
PROPERTIES
    AmbiguityStopsModelWork
    StopReachesEveryone
CHECK_DEADLOCK FALSE
