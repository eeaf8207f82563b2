SPECIFICATION EncFairSpec
CONSTANTS
    CHUNK_SIZE = 3
    None = None
    Modes <- MCModes
    Recipient = Recipient
    Sender = Sender
    Session = Session
    COUNTER_MAX = 3
    MAX_INPUT = 13
    STICKY_EOF = TRUE
    IO_ERRORS = TRUE
INVARIANTS
    EncTypeOK
    StreamIsCanonical
    ChunkNonceUnique
    IntermediateChunksFull
    WireInOrder
    UsageErrorIsSilent
PROPERTIES
    EncTerminates
CHECK_DEADLOCK FALSE
