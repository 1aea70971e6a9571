\* After a pointer that was never set, or NULL, was used, the model stops.
SPECIFICATION Spec
CHECK_DEADLOCK FALSE

CONSTANTS
    Step = 5
    Ids = 3
    RequestLens = {4, 11}
    ChunkSizes = {4, 5, 10}
    MaxAnswer = 10

INVARIANTS
    TypeOK
    BuffersFit
    AnswerWhole
    HeapBalanced
