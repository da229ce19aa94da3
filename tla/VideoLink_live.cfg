SPECIFICATION FairSpec
CHECK_DEADLOCK FALSE
CONSTANTS
    Slicings <- OversizeSlicings
    ChunkPayload = 1
    MaxChunkIdx = 3
    ReasmCap = 2
    SeqMod = 2
    LossJump = 2
    SeiLen = 1
    DeadAfter = 1
    BackoffAfter = 2
    RingSlots = 1
    OutqDepth = 1
    MaxOutage = 1
    LinkCap = 2
    MaxFrames = 2
    MaxAux = 2
    MaxReconnects = 0
    MaxRestarts = 1
INVARIANTS TxBalance FwdWithinBuffer
PROPERTIES QueuesServed
