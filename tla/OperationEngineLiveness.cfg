SPECIFICATION FairSpec
CONSTANTS
    o1 = o1
    o2 = o2
    p1 = p1
    Ops = {o1, o2}
    Projects = {p1}
    NoOp = NoOp
    Specs <- OneSpec
    ResultMax = 1
    MaxSaveFaults = 0
    MaxAuditFaults = 1
    MaxCrashes = 1
    MaxCutoff = 0
    MaxRevision = 0
CONSTRAINT WithinLiveness
PROPERTIES
    EveryOperationFinishes
    ShutdownCompletes
