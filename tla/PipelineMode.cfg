SPECIFICATION PipeSpec
CONSTANTS
    CHUNK_SIZE = 2
    None = None
    Recipient = Recipient
    Me = Recipient
    Other = Other
    Sender = Sender
    Stranger = Stranger
    Garbled = Garbled
    Session = "S"
    STICKY_EOF = TRUE
    PIPE_CAP = 2
    Modes <- OddModes
    COUNTER_MAX = 3
    MAX_INPUT = 2
    IO_ERRORS = FALSE
    LOCAL_ERRORS = FALSE
    Media <- PlainFile
    MaxSizes <- MCMaxSizes
    Senders <- NoSender
    Foreign <- NoForeign
INVARIANTS
    RoundTrip
CHECK_DEADLOCK FALSE
