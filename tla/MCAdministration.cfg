SPECIFICATION FairSpec
CONSTANTS
    Request = {r1, r2, r3}
    Email = {"ann", "bob"}
    Role = {"controller", "auditor-viewer"}
    WriteRole = {"controller"}
    Value = {"gst", "default"}
    Tolerances = {"loose"}
    Default = "default"
INVARIANTS
    LateBootstrapsFail
    AnswersWereStored
PROPERTY
    EveryRequestEnds
CHECK_DEADLOCK FALSE
