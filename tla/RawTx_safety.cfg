\* The application stops when its calls are used up, and freeing an unset
\* pointer may end the program.
SPECIFICATION SendSpec
CHECK_DEADLOCK FALSE

CONSTANTS
    MaxDesc = 15
    Word = 65536
    MaxCalls = 2
    Wallets <- MCWallets
    Payloads <- MCPayloads
    Signatures <- MCSignatures

INVARIANTS
    TypeOK
    StreamExact
    RoundTrip
    SignatureHolds
    Canonical
    Freed
