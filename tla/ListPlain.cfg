SPECIFICATION CpSatSpec
CONSTANTS
    o1 = o1
    o2 = o2
    o3 = o3
    o4 = o4
    a1 = a1
    a2 = a2
    b1 = b1
    c1 = c1
    d1 = d1
    m1 = m1
    m2 = m2
    f1 = f1
    f2 = f2
    NoFamily = NoFamily
    NoSlot = NoSlot
    None = None
    Orders <- FourOrders
    Ops <- FiveOps
    Machines <- TwoMachines
    Families <- TwoFamilies
    Route <- RouteValue
    CanDo <- CanDoValue
    Working <- WorkingValue
    Family <- FamilyValue
    Setup <- SetupValue
    Run <- RunValue
    Inputs <- AllInputs
    Horizon = 20
    Now = 2
    Batching = TRUE
    LockWindow = 6
    TopMachines = 3
INVARIANTS MachinesSingleBooked SetupsSuffice PrecedenceKept PlanStaysSound EveryOrderAnswered
PROPERTIES RunEnds
CHECK_DEADLOCK FALSE
