SPECIFICATION Spec
CONSTANTS
    ann = ann
    ben = ben
    cay = cay
    Keys = {ann, ben, cay}
    None = None
    LogLimit = 2
    MaxQueue = 1
    Budgets <- MCBudgets
SYMMETRY Interchangeable
CHECK_DEADLOCK FALSE
INVARIANTS
    TypeOK
    LookupIsList
    ShownIsStored
    UnreadIsMarked
PROPERTIES
    SelectionIsTheUsers
    OpsStayHome
