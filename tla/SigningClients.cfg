\* Two threads with any keys, a library that may be missing.
SPECIFICATION ClientSpec
CONSTANTS
    N = 3
    BuildBlind = 2
    Threads = {t1, t2}
    Ctxs = {c1, c2}
    NULL = NULL
    NONE = NONE
    Requests <- ClientRequests
    KeyLengths = {31, 32}
SYMMETRY Symmetry
\* Threads that died make no more steps.
CHECK_DEADLOCK FALSE
INVARIANTS
    SignatureNotNull
    NoContextLeft
PROPERTIES
    ClientsConform
