CONSTANTS
    full = full
    short = short
    None = None
    Resumes = {r1}
    Workers = {w1, w2}
    Contents = {f1}
    Parses <- MCParses
    Points = {1, 2}
    ChunkPoints <- MCChunkPoints
    Celery = TRUE
    MaxRetries = 1
    MaxCrashes = 0
    MaxLosses = 1
SPECIFICATION Spec
CHECK_DEADLOCK FALSE
INVARIANTS RowInv DeletedStaysDeleted
