SPECIFICATION EncSpec
CONSTANTS
    CHUNK_SIZE = 2
    None = None
    Modes <- MCModes
    Recipient = Recipient
    Sender = Sender
    Session = Session
    COUNTER_MAX = 3
    MAX_INPUT = 4
    STICKY_EOF = FALSE
    IO_ERRORS = FALSE
CHECK_DEADLOCK FALSE
INVARIANT
    IntermediateChunksFull
