SPECIFICATION Spec

CONSTANTS
    ETHEREUM = ETHEREUM
    PLATON = PLATON
    PLATONE = PLATONE
    QUORUM = QUORUM
    VENACHAIN = VENACHAIN
    FISCOBCOS = FISCOBCOS
    CITA = CITA
    CHAINMAKER = CHAINMAKER
    HLFABRIC = HLFABRIC
    HWBCS = HWBCS
    Protocols = {ETHEREUM, PLATON, PLATONE, QUORUM, VENACHAIN, FISCOBCOS, CITA, CHAINMAKER, HLFABRIC, HWBCS}
    MaxNetworks = 3
    Configs = {c1}
    NoNetwork = NoNetwork
    FaultKinds = {"write", "alloc", "crash"}
    MaxFaults = 1

CONSTRAINT OnePair
INVARIANTS
    TypeOK
    Addressed
    ListsWhatIsFound
PROPERTIES
    LosesAtMostOne
    CallsAtomic
