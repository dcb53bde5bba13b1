SPECIFICATION Spec
CONSTANTS
    Workers = {w1}
    NoReservation = NoReservation
    Lanes = {"codex"}
    Games = 2
    MaxRounds = 2
    MaxCost = 3
    Reservations = {r1, r2, r3, r4, r5, r6, r7}
    Turn = 2
    Costs = {1, 3}
    InitialCap = 5
    CapLimit = 6
    SpendLimit = 0
INVARIANT ReceiptOrHold
CHECK_DEADLOCK FALSE
