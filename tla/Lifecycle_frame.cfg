SPECIFICATION Spec
CONSTANTS
    ConfirmTicks = 3
    DropTicks = 6
    PollTicks = 5
    LostPolls = 3
    DefaultBw = 20
    DefaultPower = "mW400"
    FrameChange = TRUE
    StandbyMode = FALSE
    OverheatMode = FALSE
    Bandwidths <- TwoBws
    Powers <- None
    Retxs <- None
    ChipBws <- OneBw
    PromptEvents = TRUE
    MaxRequests = 1
    MaxFaults = 2
INVARIANTS FrameChangeHeld
