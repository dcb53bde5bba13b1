SPECIFICATION Spec
CONSTANTS
    Baselines <- MCBaselines
    HardCap = 5
    Unit = 3600
    Actions <- MCActions
    Frames <- MCFrames
    First <- MCFirst
    Legal <- MCLegal
    Apply <- MCApply
    NoChange = 2
    Deaths = 2
    Plateau = 3
    EvidencePlateau = 2
    ZeroEpisodes = 2
    MaxIdle = 2
    MaxErrors = 2
    Episodes = 2
    Attempts = 1
    MaxCrashes = 1
INVARIANTS
    TraceIsPlayed
    PlayableIsDurable
    ScoreIsEarned
    SupervisorIsCurrent
CHECK_DEADLOCK FALSE
