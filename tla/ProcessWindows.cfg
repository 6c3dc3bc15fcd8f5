SPECIFICATION FairSpec
CONSTANTS
    Access = {"full"}
    PID = {1}
    Name = {"app", "app2", "<unknown>"}
    Dialog = {"d1", "d2"}
    TitleOf <- MCTitleOf
    KidsOf <- MCKidsOf
    Config <- WindowConfig
    MaxProcs = 1
    Text = {"Error", "Error 5", "OK"}
    Unknown = "<unknown>"
    NoPid = NoPid
    NoFile = NoFile
    NoProcess = NoProcess
    PrefixOf <- MCPrefixOf
INVARIANT HungOncePerScan
INVARIANT SteadyWindowsReported
PROPERTY WindowReportNamesOwner
PROPERTY ScanEnds
PROPERTY AbsentIsReported
