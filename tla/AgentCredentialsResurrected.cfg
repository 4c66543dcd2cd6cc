SPECIFICATION Spec
CONSTANTS
    Lifetime = 2
    MaxTokens = 3
    Budgets <- ResurrectedBudgets
INVARIANTS
    RevokedStays
CHECK_DEADLOCK FALSE
