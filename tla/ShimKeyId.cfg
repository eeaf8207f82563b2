SPECIFICATION GitSpec
CONSTANTS
    None = None
    CHUNK_SIZE = 1
    Me = Me
    Alice = Alice
    Mallory = Mallory
    Unresolvable = Unresolvable
    MAX_LINES = 4
    Earlier <- MCEarlier
    Calls <- SignCalls
INVARIANTS
    SignsOnlyForKeyId
CHECK_DEADLOCK FALSE
