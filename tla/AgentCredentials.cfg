SPECIFICATION FairSpec
CONSTANTS
    Lifetime = 2
    MaxTokens = 3
    Budgets <- MCBudgets
INVARIANTS
    CredentialsAgree
    OneArchivePerGeneration
PROPERTIES
    ComesBack
CHECK_DEADLOCK FALSE
