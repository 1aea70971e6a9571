CONSTANTS
    NoProtocol = NoProtocol
    ETHEREUM = ETHEREUM
    PLATON = PLATON
    PLATONE = PLATONE
    QUORUM = QUORUM
    VENACHAIN = VENACHAIN
    FISCOBCOS = FISCOBCOS
    CITA = CITA
    CHAINMAKER = CHAINMAKER
    HLFABRIC = HLFABRIC
    HWBCS = HWBCS
    Txs = {first, second}
    Polls = 2
    MaxCalls = 6
SPECIFICATION WalletsSpec
INVARIANTS
    WalletsTypeOK
    HeapBalanced
    SentAsAsked
CHECK_DEADLOCK FALSE
