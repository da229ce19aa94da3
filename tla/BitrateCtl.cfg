SPECIFICATION FairSpec
CONSTANTS
    MinKbps = 9
    MaxKbps = 20
    Margin = 67
    RingBackoff = 50
    RoiMaxKbps = 15
    RoiRecovery = 1
    ShortInterval = 1
    RingCutHoldoff = 2
    PollInterval = 1
    CongestedHold = 1
    FlushSettle = 2
    RetxWindow = 1
    RetxHistory = 16
    Near = 1
    MaxAttempts = 5
    LinkRates = {15, 30}
    Delays = {"low", "congested"}
    LdpcLevels = {"severe"}
    WaybeamFloor = 10
    Configured = 20
    MaxEvents = 1
    MaxMishaps = 1
    Hysteresis = 5
    MinInterval = 1
    FastCutHoldoff = 2
    RampSettle = 2
    RampStep = 100
    UnstableWindow = 2
    UnstableStep = 10
    ProbeFrac = 95
    ProbeHold = 2
    RoiAbort = 2
    LdpcBackoff = 75
    RetxBackoff = 75
    SevereBackoff = 40
    RetxSevere = 2
    FpsDivMax = 2
    FpsRecovery = 1
    KMin = 8
    KMax = 10
    KpUp = 0
    KpDown = 2
    KiUp = 6
    KiDown = 3
    SevereK = 4
    MildTrim = 50
    RecoverStep = 6
    SlewUp = 100
    PiRetxSevere = 2
    DisturbHold = 1
    Quiet = 1
    FocusRetry = 1
    MinUpStep = 25
    MinDownStep = 20
    Due = 1
CHECK_DEADLOCK FALSE
INVARIANTS BeliefsTrue
PROPERTIES SignalsTrue RateSettles
