SPECIFICATION FairSpec
CHECK_DEADLOCK FALSE
CONSTANTS
    Window = 2
    MaxRtt = 1
    Slack = 0
    Jump = 4
    FastPeriod = 1
    Period = 2
    Tokens = {1, 2}
    Slots = 1
    Dedup = 3
    Coalesce = 2
    OutqDepth = 2
    MaxUp = 2
    MaxDown = 2
    MaxFaults = 1
    Configs = {{"sync"}, {"idr"}}
INVARIANTS ClockTrusted
PROPERTIES NoFalseReset KeyframeComes
