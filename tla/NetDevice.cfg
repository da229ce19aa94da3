SPECIFICATION FairSpec
CONSTANTS
    StopLen = 2
    WakeLen = 1
    PosMod = 7
    MaxLead = 4
    MaxFlight = 2
    MaxLate = 1
    MaxErrors = 1
CHECK_DEADLOCK FALSE
INVARIANTS UpMeansOpen
PROPERTIES SendingResumes
