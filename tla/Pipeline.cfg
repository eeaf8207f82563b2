SPECIFICATION PipeFairSpec
CONSTANTS
    CHUNK_SIZE = 2
    None = None
    Recipient = Recipient
    Me = Recipient
    Other = Other
    Sender = Sender
    Stranger = Stranger
    Garbled = Garbled
    Session = "S"
    STICKY_EOF = TRUE
    PIPE_CAP = 2
    Modes <- MCModes
    COUNTER_MAX = 3
    MAX_INPUT = 7
    IO_ERRORS = TRUE
    LOCAL_ERRORS = TRUE
    Media = {"pipe", "file", "faulty"}
    MaxSizes <- MCMaxSizes
    Senders <- MCSenders
    Foreign <- MCForeign
INVARIANTS
    PipeTypeOK
    AcceptedIsPrefix
    ReleaseOnlyComplete
    SenderAuthenticated
    CeilingRespected
    RoundTrip
PROPERTIES
    BothExit
CHECK_DEADLOCK FALSE
