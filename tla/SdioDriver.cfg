SPECIFICATION FairSpec
CONSTANTS
    BlockSize = 4
    PkgHeader = 1
    OneshotMax = 10
    TransMax = 10
    Images <- MCImages
    WinMax = 2
    DaemonFrame = 2
    NetFrame = 2
    CdevMax = 3
    Pieces <- MCPieces
    RxBufMax = 3
    MaxFrames = 1
    MaxFaults = 1
    Loads <- MCLoads
CHECK_DEADLOCK FALSE
INVARIANTS FirmwareSound StreamsWhole DatagramsExact
PROPERTIES RemovalClean NobodyStuck
