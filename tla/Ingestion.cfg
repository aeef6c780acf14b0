CONSTANTS
    ChunkSize = 3
    ChunkOverlap = 1
    ShortText = 1
    Tokens <- MCTokens
    Space = " "
    Calls = {c1, c2}
    Docs = {"resume", "template", "answer", "job"}
    Contents <- MCContents
    Questions <- MCQuestions
    BatchSize = 3
    Expiring <- MCExpiring
    None = None
SPECIFICATION Spec
CHECK_DEADLOCK FALSE
INVARIANTS TypeOK VectorsMatchTexts LatestIsSearchable
