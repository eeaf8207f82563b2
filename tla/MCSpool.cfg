SPECIFICATION FairSpec
CONSTANTS
    MEMORY_SPOOL_LIMIT = 3
    SPOOL_CHUNK_SIZE = 2
    MaxSizes <- MCMaxSizes
    ChunkSizes <- MCChunkSizes
    None = None
    MAX_STREAM = 8
    IO_ERRORS = TRUE
    DISK_FAULTS = TRUE
INVARIANTS
    TypeOK
    ReleasedInOrder
    ReleasedAll
    NonceUnique
    MemoryBound
    CeilingHolds
PROPERTIES
    CallsReturn
    ImplementsAbs
CHECK_DEADLOCK FALSE
