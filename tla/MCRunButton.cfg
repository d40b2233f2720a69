SPECIFICATION FairSpec
CONSTANTS
    Click = {k1, k2, k3}
    Run = {r1, r2}
    NoRun = null
    MAX_POLLS = 2
    MaxMounts = 2
INVARIANTS
    BusyHasOneChain
    ShownIsOwnRun
PROPERTY
    EveryClickEnds
CHECK_DEADLOCK FALSE
