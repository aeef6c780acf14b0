CONSTANTS
    full = full
    short = short
    None = None
    Resumes = {r1, r2, r3}
    Workers = {w1}
    Contents = {f1}
    Parses = {short}
    Points = {1}
    ChunkPoints <- ShortOnly
    Celery = FALSE
    MaxRetries = 0
    MaxCrashes = 1
    MaxLosses = 0
CONSTRAINT TwoRequests
SYMMETRY ResumeSymmetry
SPECIFICATION Spec
CHECK_DEADLOCK FALSE
INVARIANTS RowHasFile DeletedStaysDeleted
PROPERTY LifecycleSpec
