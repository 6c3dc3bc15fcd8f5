SPECIFICATION Spec
CONSTANTS
    Jobs <- MCJobs
    Wrap = 4
    Growths = {0, 3, 4}
    MaxRuns = 2
INVARIANTS
    TrafficTypeOK
    StatisticsSound
    KnownMisuse
PROPERTIES
    RunEnds
CHECK_DEADLOCK FALSE
