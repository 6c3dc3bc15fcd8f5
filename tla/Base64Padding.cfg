SPECIFICATION Spec
CONSTANTS
    Byte = {97, 112}
    MaxLen = 2
INVARIANT FilledUp
CHECK_DEADLOCK FALSE
