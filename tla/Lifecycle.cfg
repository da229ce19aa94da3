SPECIFICATION FairSpec
CONSTANTS
    ConfirmTicks = 2
    DropTicks = 3
    PollTicks = 2
    LostPolls = 2
    DefaultBw = 20
    DefaultPower = "mW400"
    FrameChange = TRUE
    StandbyMode = TRUE
    OverheatMode = TRUE
    Bandwidths <- TwoBws
    Powers <- OnePower
    Retxs <- OneRetx
    ChipBws <- TwoBws
    PromptEvents = TRUE
    MaxRequests = 1
    MaxFaults = 3
INVARIANTS SettingsHeld LowPowerEnds
PROPERTIES DropNeedsOutage LinkServed
