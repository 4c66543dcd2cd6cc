SPECIFICATION Spec
CONSTANTS
    w1 = w1
    w2 = w2
    r1 = r1
    d1 = d1
    d2 = d2
    d3 = d3
    Writers = {w1, w2}
    Reclaimers = {r1}
    FirstText = t0
    EditTexts = {e1, e2}
    Partial = Partial
    MaxStages = 3
    FileScenes <- MCFileScenes
    Budget <- MCBudget
    TotalBytes = 20
    MinimumBytes = 1
    MaxPasses = 3
    StorageScenes <- MCStorageScenes
    Digests <- Three
    NoDigest = NoDigest
    MaxChanges = 5
    MaxFaults = 3
    NKeys = 2
    MaxPerSecond = 1
    Settings <- MCSettings
    Projects <- MCProjectSet
    Contents <- MCContents
    Facts <- MCFacts
    FactsOf <- MCFactsOf
    NameOf <- MCNameOf
    Complete <- MCComplete
    IncludesOf <- MCIncludesOf
    Absent = Absent
    NoFacts = NoFacts
    NoName = NoName
    NoEntry = NoEntry
    NoRow = NoRow
    NoItem = NoItem
    NoAnswer = NoAnswer
    CatalogScenes <- MCCatalogScenes
INVARIANTS
    
    PressureState
    CleanupIsSound
    ChangeRecordedOnce
    
    GeneratorExact
    
    
PROPERTIES
    MirrorMovesForward
    FreshListHeals
CHECK_DEADLOCK FALSE
