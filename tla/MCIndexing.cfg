CONSTANT Calls <- MCCalls
CONSTANT ControlWords = {0, 1}
CONSTANT MaxAttempts = 5
CONSTANT MaxRows = 4
SPECIFICATION IndexingFairSpec
INVARIANTS TypeOK EveryWordInAChunk ChunksFillTheWindow NeighboursOverlap VectorsBelongToTheirRows EveryWordSearchable
PROPERTY Terminates
CHECK_DEADLOCK FALSE
