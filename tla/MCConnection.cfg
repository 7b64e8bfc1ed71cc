CONSTANTS
    SignBit = 8
    c1 = c1
    c2 = c2
    Conns = {c1, c2}
    Null = Null
    Tick = 1
    Budgets <- MCBudgets
SPECIFICATION Spec
INVARIANTS
    DeletesWhenDone
    AnswersInOrder
    ReadsHaveDeadlines
    KeysFindTimers
    KeysAreOwn
PROPERTIES
    ImplementsDeadlines
    Reaped
CHECK_DEADLOCK FALSE
