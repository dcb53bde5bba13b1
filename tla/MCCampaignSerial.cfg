SPECIFICATION FairSpec
CONSTANTS
    Jobs = "one"
    NoSession = NoSession
    Attempts = 2
    Episodes = 2
    ErrorLimit = 2
    ZeroLimit = 2
    WinLevels = 2
    MaxActions = 2
    Qualifying = 2
INVARIANTS
    CampaignTypeOK
    WinsAreBanked
    SessionsAreCurrent
    AttemptsArePlayed
PROPERTIES
    CampaignEnds
