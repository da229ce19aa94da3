SPECIFICATION FairSpec
CHECK_DEADLOCK FALSE
CONSTANTS
    Payloads <- SomePayloads
    MaxPayload = 2
    Count = 3
    Cap = 7
    MaxHole = 6
INVARIANTS ChunksAsSent NothingLost
PROPERTIES Drains
