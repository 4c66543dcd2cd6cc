SPECIFICATION Spec
CONSTANTS
    o1 = o1
    o2 = o2
    p1 = p1
    Ops = {o1, o2}
    Projects = {p1}
    NoOp = NoOp
    Specs <- MCSpecs
    ResultMax = 1
    MaxSaveFaults = 2
    MaxAuditFaults = 1
    MaxCrashes = 2
    MaxCutoff = 1
    MaxRevision = 6
CONSTRAINT WithinSafety
SYMMETRY Symmetry
INVARIANTS
    TypeOK
    Coherent
    MutualExclusion
    CommitExcludesCancel
    
PROPERTIES
    TerminalIsFinal
