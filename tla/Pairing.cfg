SPECIFICATION FairSpec
CHECK_DEADLOCK FALSE
CONSTANTS
    Macs = {"a", "b", "c", "d"}
    MaxPeers = 3
    LongPress = 1
    TicksPerSec = 2
    Units <- McUnits
    Stored <- McStored
    InRange = {"a", "d"}
    MaxPairs = 1
    MaxForgets = 1
    MaxFaults = 2
INVARIANTS PairingSurvives PeersInStep BoardSound
PROPERTIES PairingSettles
