SPECIFICATION Spec
CONSTANTS
    Commands = {c1, c2}
    NoCommand = NoCommand
    Runs = {r1, r2}
    NoRun = NoRun
    Claims = {m1, m2, m3}
    Eligible = {m1, m2}
    MaxStarts = 3
    MaxWork = 2
    MaxCuts = 1
SYMMETRY Symmetry
INVARIANTS
    RunStoreTypeOK
    OneOwner
    NoFalseAlarm
    ChildrenMatchParent
    WarmStart
PROPERTY SealedIsFrozen
CHECK_DEADLOCK FALSE
