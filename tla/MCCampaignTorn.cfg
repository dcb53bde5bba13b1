SPECIFICATION Spec
CONSTANTS
    Jobs = "many"
    NoSession = NoSession
    Attempts = 1
    Episodes = 2
    ErrorLimit = 2
    ZeroLimit = 2
    WinLevels = 2
    MaxActions = 2
    Qualifying = 2
INVARIANTS
    SessionsAreCurrent
