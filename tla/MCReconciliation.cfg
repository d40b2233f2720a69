SPECIFICATION Spec
CONSTANTS
    Line <- MCLine
    Ref <- MCRef
    NoRef = NoRef
    Currency <- MCCurrency
    Word <- MCWord
    ToleranceBp = 150
    WindowDays = 5
    AutoAccept = 900
    SimilarityFloor = 500
    Inputs <- MCInputs
INVARIANTS
    EveryLeftDecidedOnce
    NothingForced
    ContestsAreReal
    ReasonsAreTrue
    OnlyTierThreeIsReviewed
    LoopComputesReconcile
    RightOrderIsIrrelevant
    GeneratedAsExpected
    AloneIsNoStricter
PROPERTY
    ImplementsAssignment
CHECK_DEADLOCK FALSE
