SPECIFICATION Spec
CHECK_DEADLOCK FALSE
CONSTANTS
    Words = {"so", "well", "maybe", "unquestionably"}
    TokenCount <- MCTokenCount
    TargetTokens = 4
    OverlapTokens = 2
    MaxTalk = 4
    Channels = {"a", "b", "c"}
    Fresh = "a"
    Loaded <- MCLoaded
    TopK = 3
    MinBlocksPerSource = 2
    RetrievalCandidates = 3
    RrfK = 60
    HistoryWindow = 3
    MaxTurns = 2
    MaxSources = 3
    MaxChunks = 2
    Nothing = Nothing
INVARIANTS
    RollingCaptionsCollapse
    ChunksCoverTalk
    
    
