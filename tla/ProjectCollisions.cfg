SPECIFICATION MirrorSpec
CONSTANTS
    Projects <- MCProjectSet
    Contents <- MCContents
    Facts <- MCFacts
    FactsOf <- MCFactsOf
    NameOf <- MCNameOf
    Complete <- MCComplete
    IncludesOf <- MCIncludesOf
    Absent = Absent
    NoFacts = NoFacts
    NoName = NoName
    NoEntry = NoEntry
    NoRow = NoRow
    NoItem = NoItem
    NoAnswer = NoAnswer
    CatalogScenes <- MCCatalogScenes
INVARIANT CollisionsFlagged
CHECK_DEADLOCK FALSE
