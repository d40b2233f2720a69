SPECIFICATION Spec
CONSTANTS
    Delivery = {d1, d2}
    Line <- MCLine
    Body <- MCBody
    Batch <- MCBatch
INVARIANT
    UploadsAreStored
CHECK_DEADLOCK FALSE
