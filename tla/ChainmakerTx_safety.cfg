\* The application may stop, and calls are bounded.
SPECIFICATION Spec
CHECK_DEADLOCK FALSE

CONSTANTS
    Calls = {c1, c2}
    Retry = 3
    MaxInvokes = 2
    MaxAsks = 1

INVARIANTS
    TypeOK
    SyncTold
    ArgsKept
    HeapBalanced
