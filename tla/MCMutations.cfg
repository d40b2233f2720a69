SPECIFICATION FairSpec
CONSTANTS
    Edit = {c1, c2, c3}
    Match = {m1}
    Exception = {x1}
    Missing = missing
    Person = {"asha"}
    Note = {"paid"}
    NoValue = null
    Patch <- MCPatch
    Reported <- MCReported
INVARIANTS
    EveryEditIsAudited
    LastChangeStands
    PreviousWasTrue
    ClosedIsDated
PROPERTY
    EveryEditEnds
CHECK_DEADLOCK FALSE
