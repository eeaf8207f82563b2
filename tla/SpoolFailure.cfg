SPECIFICATION Spec
CONSTANTS
    MEMORY_SPOOL_LIMIT = 3
    SPOOL_CHUNK_SIZE = 2
    MaxSizes <- MCMaxSizes
    ChunkSizes <- MCChunkSizes
    None = None
    MAX_STREAM = 8
    IO_ERRORS = FALSE
    DISK_FAULTS = TRUE
CHECK_DEADLOCK FALSE
INVARIANT
    FailureIsSilent
