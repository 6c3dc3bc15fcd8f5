SPECIFICATION Spec
CONSTANTS
    Programs = {"console", "dialog"}
    Nobody = "nobody"
    Refreshes = 2
    Boards <- MCBoards
INVARIANTS
    SensorsTypeOK
    DeviceOpens
    DetectionSound
    RightRegister
    FanDivisors
    KnownUndefined
    CoreTempsOwn
PROPERTIES
    FansSettle
CHECK_DEADLOCK FALSE
