SPECIFICATION Spec
CONSTANTS
    None = None
    Empty = Empty
    Missing = Missing
    MaxContext <- MCMaxContext
    RagTopK = 1
    Threshold = 30
    MaxText = 3
    Points <- MCPoints
    Similarities <- MCSimilarities
    Inputs <- MCInputs
    Replies <- MCReplies
    FormReplies <- MCFormReplies
    Extractions <- MCExtractions
    CanonicalFieldMap <- MCFieldMap
    PlatformSignals <- MCSignals
INVARIANTS
    TypeOK
    ContextSound
    BestIsKept
    AnswersAreAligned
    FiguresAreChecked
    FormComplete
    ExtractedIsGrounded
