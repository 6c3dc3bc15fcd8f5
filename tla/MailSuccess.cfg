SPECIFICATION Spec
CONSTANTS
    Receiver = {"a"}
    Short = "-"
    Receivers <- OneReceiver
    MaxMails = 1
    EhloLines = 2
INVARIANT SuccessMeansDelivered
