\* Every key, tweak, message and pair of nonces on a curve of order 13.
SPECIFICATION DerivedSpec
CONSTANTS
    P = 19
    B = 2
    N = 13
    G <- G13
    Strings <- AllStrings
    FieldStrings <- AllFieldStrings
    Byte = 16
    Bytes = 1
    LongForm = 12
    MaxTries = 2
\* The model stops where the stream is not looked at any further.
CHECK_DEADLOCK FALSE
INVARIANTS
    TweaksAgree
    OneKeyEachForm
    OneForm
    RecoversSigner
    SameSignature
    VerifyMeansRecovered
