SPECIFICATION Spec
CONSTANTS
    Clients = {c1, c2}
    NoClient = NoClient
    Reservations = {r1, r2, r3}
    Turn = 2
    Costs = {1, 3}
    InitialCap = 5
    CapLimit = 6
    SpendLimit = 1
SYMMETRY Symmetry
INVARIANTS
    ChainsTypeOK
    ReplayAccepts
    GrantedIsBooked
PROPERTY ImplementsLedger
CHECK_DEADLOCK FALSE
