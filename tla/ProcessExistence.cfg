SPECIFICATION Spec
CONSTANTS
    Access = {"full", "query", "none"}
    PID = {1, 2, 3}
    Name = {"app", "app2", "<unknown>"}
    Dialog = {}
    TitleOf <- NoTitle
    KidsOf <- NoKids
    Config <- ExistConfig
    MaxProcs = 2
    Text = {"Error", "Error 5", "OK"}
    Unknown = "<unknown>"
    NoPid = NoPid
    NoFile = NoFile
    NoProcess = NoProcess
    PrefixOf <- MCPrefixOf
INVARIANT TypeOK
INVARIANT NotFoundSound
INVARIANT ExitReported
