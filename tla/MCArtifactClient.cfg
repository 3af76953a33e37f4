SPECIFICATION ArtifactSpec
CONSTANTS
    MaxVersion = 1
    MaxRuns = 2
    MaxActs = 1
    Unreadable <- MCUnreadableFirst
    PeersFail = TRUE
    Nil = Nil
INVARIANTS
    CompilingIsWatched
    OnePostPerEffect
    OneCompileAtATime
PROPERTIES
    SettlesOnTruth
CHECK_DEADLOCK FALSE
