\* Two threads on one context, every method and argument length; no symmetry
\* (it is unsound for liveness).
SPECIFICATION FairSpec
CONSTANTS
    N = 2
    BuildBlind = 1
    Threads = {t1, t2}
    Ctxs = {c1}
    NULL = NULL
    NONE = NONE
    Requests <- AllRequests
INVARIANTS
    StaleOnlyIfShort
PROPERTIES
    CallsReturn
