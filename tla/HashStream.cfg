\* One-byte words; messages of up to 36 bytes in any pieces; two nonces.
SPECIFICATION MCSpec
CONSTANTS
    WordBytes = 1
    Unset = Unset
    Byte <- MCByte
    Source <- Letters
    NULL = NULL
    NonceArgs <- MCNonceArgs
    MaxCounter = 2
    StreamLengths = {5, 19}
    MaxCalls = 2
    Macs <- MCMacs
\* After the last user there is no further one.
CHECK_DEADLOCK FALSE
INVARIANTS
    DigestOfPadded
    MacRight
    OutputRight
    NoncesApart
