\* All scalars of eight bits on a curve of 199 points.
SPECIFICATION Spec
CONSTANTS
    P = 211
    B = 7
    N = 199
    G <- G199
    Bits = 8
    WINDOW_A = 4
    WINDOW_G = 5
    GenBits = 4
    Nums <- TwoG
    NoScalar = NoScalar
    Terms <- SomeTerms
    GScalars <- SomeGScalars
    BatchScalars <- SomeScalars
    Blinds <- SomeBlinds
INVARIANTS
    Product
    DigitsFit
