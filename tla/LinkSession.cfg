SPECIFICATION FairSpec
CHECK_DEADLOCK FALSE
CONSTANTS
    Slots = {0, 1}
    MaxAttempts = 2
    DeadAfter = 2
    MaxOutages = 2
    MaxCrashes = 1
    MaxRefusals = 1
    MaxStops = 1
    MaxFaults = 3
INVARIANTS FreshSlot
PROPERTIES OthersSpared SessionsReturn
