SPECIFICATION SVSpec
CONSTANTS
    None = None
    Garbled = Garbled
    Alice = Alice
    Mallory = Mallory
    CHUNK_SIZE = 2
    TS_MAX = 1
    Keys <- MCKeys
    Pubs <- MCPubs
    Messages <- MCMessages
    MaxSizes <- MCMaxSizes
    Clocks <- MCClocks
    Earlier <- MCEarlier
INVARIANTS
    SVTypeOK
    AcceptsOnlyIssued
    PassThroughWhole
    SignatureRoundTrip
    ArmorSuccessDelivers
PROPERTIES
    BothEnd
CHECK_DEADLOCK FALSE
