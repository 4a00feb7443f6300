\* Two threads, two contexts, every kind of request: the invariants, and
\* the atomic service the class implements.
SPECIFICATION Spec
CONSTANTS
    N = 3
    BuildBlind = 2
    Threads = {t1, t2}
    Ctxs = {c1, c2}
    NULL = NULL
    NONE = NONE
    Requests <- LockRequests
SYMMETRY Symmetry
INVARIANTS
    TypeOK
    NoBadPointer
    GenCorrect
    EnabledMeansLoaded
PROPERTIES
    ImplementsService
