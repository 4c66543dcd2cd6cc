SPECIFICATION FairSpec
CONSTANTS
    f1 = f1
    f2 = f2
    old = old
    new = new
    Files = {f1, f2}
    Ops = {r1, r2}
    None = None
    Original <- OneFileMissing
    Stored <- BothFiles
    Edited = Edited
    Keep = 1
    MaxSnapshots = 4
    Scenes <- MCScenes
INVARIANTS
    RestoreIsAtomic
    RecoveryPossible
PROPERTIES
    TransactionsClose
