SPECIFICATION Spec
CONSTANTS
    Transfers <- MCTransfers
    MaxBulk = 2
    MaxIso = 3
    MaxControl = 3
    MaxFaults = 1
INVARIANTS
    ResultsInPlace
    ReportTrue
PROPERTIES
    EndingReported
CHECK_DEADLOCK FALSE
