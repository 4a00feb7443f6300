\* scalar_8x32 and field_10x26 with narrower words.
SPECIFICATION Spec
CONSTANTS
    Words = 8
    WordBits = 3
    ByteBits = 1
    OrderC = 5283
    Limbs = 4
    LimbBits = 7
    Slack = 2
    LimbWord = 12
    DoubleWord = 23
    StoreBits = 13
    R0 = 27
    R1 = 1
    MaxMagnitude = 4
    ScalarOperands <- MCScalarOperands
    FieldOperands <- MCFieldOperands
    MaxScalarSteps = 2
    MaxFieldSteps = 3
INVARIANTS
    ScalarRight
    FieldRight
    ChainRight
\* A calculation ends at its bound.
CHECK_DEADLOCK FALSE
