SPECIFICATION Spec
CONSTANTS
    Jobs <- MCJobs
    OtherRequests <- MCOtherRequests
    MaxRequests = 8
    MaxOthers = 6
INVARIANTS
    SnmpTypeOK
    QueriesKept
    TrapPerTrigger
    AnswersBelong
    SetReported
PROPERTIES
    WalkImplemented
    JobEnds
    TrapsPrinted
CHECK_DEADLOCK FALSE
