SPECIFICATION Spec
CONSTANTS
    Games = {g1, g2}
    NoCard = NoCard
    MaxCommands = 4
SYMMETRY Symmetry
INVARIANTS
    OneCardPerMode
    CardsAreClaimed
    ClaimTellsTheCard
    ReportedIsSubmitted
CHECK_DEADLOCK FALSE
