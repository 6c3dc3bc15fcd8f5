SPECIFICATION Spec
CONSTANTS
    Byte <- MCByte
    MaxLen = 4
INVARIANT TypeOK
INVARIANT WrittenSoFar
INVARIANT ExactUnlessZerosLeft
CHECK_DEADLOCK FALSE
