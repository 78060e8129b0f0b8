CONSTANTS
    o1 = o1
    o2 = o2
    m1 = m1
    m2 = m2
    None = None
    Orders = {o1, o2}
    Machines = {m1}
    Fragile = {m1}
    Later = {o2}
    Pressing = {o2}
    Tight = {o1}
    SoftKinds = {"material_arrived"}
    Horizon = 1
    MaxChanges = 2
    FrozenWindow = 1
    LockWindow = 1
    MaxMoves = 1
    SignificantOrders = 2
    RequireApproval = FALSE
    TriggerOn = {"machine_down", "material_arrived"}
    ControlledAuto = TRUE
    Requests = {"scheduled", "config_change"}
    Returns = FALSE
SPECIFICATION FairSpec
INVARIANTS
    StrandedWorkIsHard
PROPERTIES
    RunningWorkStays
    FailuresAnswered
\* time and the changes are used up
CHECK_DEADLOCK FALSE
