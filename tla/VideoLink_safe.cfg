SPECIFICATION Spec
CHECK_DEADLOCK FALSE
CONSTANTS
    Slicings <- MixedSlicings
    ChunkPayload = 1
    MaxChunkIdx = 8
    ReasmCap = 4
    SeqMod = 3
    LossJump = 3
    SeiLen = 1
    DeadAfter = 1
    BackoffAfter = 2
    RingSlots = 1
    OutqDepth = 1
    MaxOutage = 2
    LinkCap = 1
    MaxFrames = 3
    MaxAux = 0
    MaxReconnects = 0
    MaxRestarts = 1
INVARIANTS TypeOK NoMixing CompletesExactly OutputFaithful CountersExact
PROPERTIES MarkerExact DeliveryInOrder
