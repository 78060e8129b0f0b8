SPECIFICATION StudySpec
CONSTANTS
    None = None
    Profile <- ProfileValue
    DayLength = 6
    SearchDays = {0, 1, 2, 3}
    Limits <- LimitsValue
    Snapshots <- StudiedSnapshots
    Records <- StudiedRecords
    Decisions <- StudiedDecisions
    Scheduling <- SchedulingValue
    Alerting <- AlertingValue
    Studies <- StudiesValue
    Expediting <- ExpeditingValue
    GanttSpan = 8
    MachineSpan = 6
    Horizon = 2
    MaxChanges = 1
    MaxRuns = 2
INVARIANTS
    FiguresAgree
    DemandIsConserved
    LateOrdersAnnounced
    StudyReconciles
    ScenariosTakeEffect
CHECK_DEADLOCK FALSE
