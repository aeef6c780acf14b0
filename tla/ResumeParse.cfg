CONSTANTS
    full = full
    short = short
    None = None
    Resumes = {r1}
    Workers = {w1, w2}
    Contents = {f1}
    Parses <- MCParses
    Points = {1, 2}
    ChunkPoints <- MCChunkPoints
    Celery = TRUE
    MaxRetries = 3
    MaxCrashes = 2
    MaxLosses = 0
SPECIFICATION FairSpec
CHECK_DEADLOCK FALSE
INVARIANTS TypeOK RowHasFile IndexInv CompleteIsIndexed ProcessingIsCarried
PROPERTIES LifecycleSpec TasksEnd
