SPECIFICATION FairSpec
CONSTANTS
    Khz <- ThreeChannels
    TableRead = TRUE
    DefaultChannel = 1
    CheckDelay = 1
    ChanPushes = 4
    PollTicks = 2
    Requests <- SomeRequests
    MaxRequests = 1
    MaxPeerMoves = 1
    MaxLinks = 3
    MaxPushFails = 1
    MaxReadFails = 1
    MaxRestarts = 1
INVARIANTS PushBudget
PROPERTIES LastAskedSaved LinkReachesChannel
