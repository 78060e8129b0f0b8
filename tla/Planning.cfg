SPECIFICATION Spec
CONSTANTS
    None = None
    Profile <- ProfileValue
    DayLength = 6
    SearchDays = {0, 1, 2, 3}
    Limits <- LimitsValue
    Snapshots <- SnapshotValue
    Records <- RecordsValue
    Decisions <- DecisionValue
    Scheduling <- SchedulingValue
    Horizon = 3
    MaxChanges = 1
    MaxRuns = 2
INVARIANT CalendarsExact
PROPERTIES
    EveryOpenOrderAnswered
    PromisesKept
    DecisionsComeFirst
    SharesAreFair
CHECK_DEADLOCK FALSE
