SPECIFICATION Spec
CONSTANTS
    None = None
    Profile <- ProfileValue
    DayLength = 6
    SearchDays = {0, 1, 2, 3}
    Limits <- LimitsValue
    Snapshots <- PlainValue
    Records <- DependenciesValue
    Decisions <- NoDecisions
    Scheduling <- SchedulingValue
    Horizon = 0
    MaxChanges = 4
    MaxRuns = 0
INVARIANT CyclesFound
CHECK_DEADLOCK FALSE
