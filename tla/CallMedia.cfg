CONSTANTS
    Own = Own
    Others = {s1}
    Budgets <- MCBudgets
SPECIFICATION Spec
INVARIANTS
    TypeOK
    ConnectionsAreWanted
    OffIsOff
    ShownIsSo
CHECK_DEADLOCK FALSE
