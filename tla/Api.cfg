SPECIFICATION MCSpec
CONSTANTS
    Contracts <- MCContracts
    MaxExact = 9
    IntBits = 5
    RefModulus = 2
    MaxHeight = 3
    MaxTime = 4
    MaxPending = 2
    MaxSent = 2
    Conns = {"c1", "c2"}
    Programs = {"p"}
    Plans <- MCPlans
    JAVA_TRON_ROUTES <- MCRoutes
    DEV_EXTENSIONS <- MCExtensions
    Definitions <- MCDefinitions
    QUERY_ONLY_ROUTES <- MCQueryOnly
    MERGED_MESSAGE <- MCMerged
    Writers <- MCWriters
    MAX_BODY_BYTES = 2
    MAX_NESTING_DEPTH = 2
    MaxChunk = 2
    MaxSafe = 7
    MaxWorld = 2
INVARIANTS
    EnvelopeSound
    ExecutedAsSigned
    ExecutedTimely
    ServerSound
PROPERTY EveryoneAnswered
CHECK_DEADLOCK FALSE
