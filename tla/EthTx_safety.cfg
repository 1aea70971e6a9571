\* The application may stop, and sends are bounded.
SPECIFICATION FairSpec
CHECK_DEADLOCK FALSE

CONSTANTS
    Payments = {p1, p2, p3}
    Polls = 2
    IsSync = TRUE
    MaxSends = 4

INVARIANTS
    TypeOK
    PaidOnce
    SyncMined
    FreshNonce
PROPERTIES
    Returns
