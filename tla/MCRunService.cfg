SPECIFICATION MCSpec
CONSTANTS
    Call = {c1, c2}
    Line <- MCLine
    Ledger <- MCLedger
    BookLine <- MCBookLine
    GatewayLine <- MCGatewayLine
    Request <- MCRequest
    NoRows = NoRows
    Ref = {"A"}
    NoRef = NoRef
    Currency = {"INR"}
    Word = {"acme"}
    ToleranceBp = 150
    WindowDays = 5
    AutoAccept = 900
    SimilarityFloor = 500
INVARIANTS
    RunsAreWhole
    AnswersAreOnFile
    
PROPERTIES
    HistoryIsKept
    ImplementsArchive
    EveryCallEnds
CHECK_DEADLOCK FALSE
