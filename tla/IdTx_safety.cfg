\* The application may stop, and sends, nonces and blocks are bounded.
SPECIFICATION Spec
CHECK_DEADLOCK FALSE

CONSTANTS
    Calls = {c1, c2}
    Limit <- MCLimit
    Window <- MCWindow
    Polls = 2
    MemoryEnds = FALSE
    MaxSends = 3
    MaxNonces = 3
    MaxHeight = 4

INVARIANTS
    TypeOK
    ExecutedOnce
    SyncMined
