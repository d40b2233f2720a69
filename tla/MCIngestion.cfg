SPECIFICATION FairSpec
CONSTANTS
    Delivery = {d1, d2}
    Line <- MCLine
    Body <- MCBody
    Batch <- MCBatch
INVARIANTS
    BatchesAreAtomic
    AcceptedIsStored
    ActivityIsComplete
    AnsweredIsScheduled
PROPERTIES
    FirstWriteWins
    EveryDeliveryEnds
    AnsweredIsSeen
CHECK_DEADLOCK FALSE
