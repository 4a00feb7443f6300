\* Every Jacobian representation of every point of the curve of order 13.
SPECIFICATION Spec
CONSTANTS
    P = 19
    B = 2
    N = 13
    G <- G13
    Scales <- AllScales
INVARIANTS
    Represents
    AllAffine
PROPERTIES
    RatioRight
