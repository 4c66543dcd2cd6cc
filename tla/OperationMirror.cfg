SPECIFICATION Spec
CONSTANTS
    Agents = {a1, a2}
    Ops = {o1}
    Handlers = {h1, h2}
    Requests = {"loose", "managed"}
    Budgets <- MCBudgets
SYMMETRY Symmetry
INVARIANTS
    AnswersHold
PROPERTIES
    TerminalStays
    MirrorsAgent
