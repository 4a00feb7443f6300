SPECIFICATION Spec
CONSTANTS
    N = 2
    BuildBlind = 1
    Threads = {t1}
    Ctxs = {c1}
    NULL = NULL
    NONE = NONE
    Requests <- AllRequests
INVARIANT
    ReadsStaged
