SPECIFICATION Spec
CONSTANTS
    o1 = o1
    o2 = o2
    r1 = r1
    r2 = r2
    Orders <- TwoOrders
    Runners <- OneRunner
    MalformedRecords = FALSE
    MaxTime = 7
SYMMETRY Symmetry
CHECK_DEADLOCK FALSE
INVARIANTS NothingLost OperationsNotLost
PROPERTIES FullRunMirrors
