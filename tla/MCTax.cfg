SPECIFICATION FairSpec
CONSTANTS
    Request = {c1, c2, c3}
    Line = {"gl1", "gl2"}
    GlLine = {"gl1", "gl2"}
    Words <- MCWords
    Correction = {"exempt", "reduced"}
    NoLabel = null
INVARIANTS
    AnswersAreCurrent
    LearnedIsCorrected
PROPERTY
    EveryRequestEnds
CHECK_DEADLOCK FALSE
