SPECIFICATION IntakeSpec
CONSTANTS
    None = None
    FirstRecords <- Records
    NewOrders <- Arrivals
    Flaws <- FlawValue
    Quantities = {1, 3}
    Thresholds <- ThresholdValue
    MaxChanges = 2
    MaxRuns = 4
PROPERTIES
    PathsAgree
    SlicesSuffice
    TrustedRuns
\* the changes and runs are used up
CHECK_DEADLOCK FALSE
