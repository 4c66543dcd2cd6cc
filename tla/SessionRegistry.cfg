SPECIFICATION FairSpec
CONSTANTS
    a = a
    b = b
    Servers <- MCServers
    Conns <- MCConns
    MaxInc = 3
    Budgets <- MCBudgets
INVARIANTS
    OneActiveSession
PROPERTIES
    OnlyForward
    
