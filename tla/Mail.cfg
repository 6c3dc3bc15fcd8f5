SPECIFICATION FairSpec
CONSTANTS
    Receiver = {"a", "b", "c"}
    Short = "-"
    Receivers <- MCReceivers
    MaxMails = 2
    EhloLines = 2
INVARIANT TypeOK
INVARIANT AuthBeforeMail
INVARIANT NoMutualWait
INVARIANT OneCopyEach
INVARIANT RefusedAlone
PROPERTY MailReturns
