CONSTANTS
    long = long
    short = short
    None = None
    Templates = {t1, t2, t3}
    Existing = {t1, t2}
    Requests = {q1, q2}
    Texts <- MCTexts
    Points = {1, 2}
    ChunkPoints <- MCChunkPoints
CONSTRAINT SameStart
SPECIFICATION FairSpec
CHECK_DEADLOCK FALSE
INVARIANTS TypeOK LatestIsIndexed AtMostOneDefault
PROPERTIES DefaultIsKept RequestsEnd
