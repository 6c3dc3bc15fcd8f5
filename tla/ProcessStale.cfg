SPECIFICATION Spec
CONSTANTS
    Access = {"full"}
    PID = {1}
    Name = {"app", "app2", "<unknown>"}
    Dialog = {}
    TitleOf <- NoTitle
    KidsOf <- NoKids
    Config <- ExistConfig
    MaxProcs = 2
    Text = {"Error", "Error 5", "OK"}
    Unknown = "<unknown>"
    NoPid = NoPid
    NoFile = NoFile
    NoProcess = NoProcess
    PrefixOf <- MCPrefixOf
INVARIANT FlagsMeanRunning
