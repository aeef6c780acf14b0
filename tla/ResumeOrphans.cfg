CONSTANTS
    full = full
    short = short
    None = None
    Resumes = {r1}
    Workers = {w1}
    Contents = {f1}
    Parses <- MCParses
    Points = {1, 2}
    ChunkPoints <- MCChunkPoints
    Celery = TRUE
    MaxRetries = 0
    MaxCrashes = 0
    MaxLosses = 0
SPECIFICATION Spec
CHECK_DEADLOCK FALSE
INVARIANT DeletedLeavesNoVectors
