SPECIFICATION NativeSpec
CONSTANTS
    Threads = {t1, t2}
    Indices = {0, 1}
    Words = {0, 1}
    Offsets = {0, 1}
    Bytes = {0, 1}
    Nodes = {n1, n2}
    ChunkPages = 2
    MaxChunks = 2
    StepLimit = 2
    Calls <- MCCalls
    MaxCalls = 2
    Null = null
    Failed = refused
    Pcs = {1, 2, 3}
    Variables = {"x", "y"}
    Values = {1, 2}
    Ranges <- MCRanges
    Had = {1, 3}
    OptimizeFrom = 3
    OptimizeCheck = 2
    MaxBudget = 3
    MaxRuns = 2
    MaxObjects = 1
    MaxCount = 3
    None = none
    Sites = {1, 2}
    FlushSites = {1}
    Top = 2
    Sizes = {2}
    Outputs = {"o"}
    Contents = {0, 1}
    Updates <- MCUpdates
    MaxSerial = 1
    Nought = nought
    Blocks = {1, 2, 3}
    Start = 1
    MaxBlocks = 4
    HostBits = 4
    ByteBits = 1
    Unset = unset
SYMMETRY MCSymmetry
CHECK_DEADLOCK FALSE
INVARIANTS
    TypeOK
    PagesApart
    HandsRight
    StepKnows
    LastTargetFresh
    NeedsMet
    AsInTurn
    BlocksCounted
    ExecutionsTold
    ComesBack
    QuietSound
    PcKnown
    AfterError
    LiveRight
    CopyGoesOn
    OpsAgree
    BytesAgree
PROPERTIES
    PagesStay
    ImplementsFlat
