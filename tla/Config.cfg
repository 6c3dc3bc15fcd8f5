SPECIFICATION Spec
CONSTANTS
    Name = {"p", "q"}
    Text = {"a", "b"}
    Timer = {5, 30}
    None = None
    MaxLines = 4
    MaxReads = 2
INVARIANT TypeOK
INVARIANT ItemsAsWritten
INVARIANT TimerAsWritten
CHECK_DEADLOCK FALSE
