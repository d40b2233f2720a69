SPECIFICATION Spec
CONSTANTS
    Query = {q1}
    Exception <- MCException
    LineOf <- MCLineOf
    OpenedAt <- MCOpenedAt
    Question = {"biggest", "old", "recent"}
    Biggest = {"biggest"}
    Terms <- MCTerms
    AmountOf <- MCAmountOf
    Limit = 2
INVARIANT
    AskedIsFound
CHECK_DEADLOCK FALSE
