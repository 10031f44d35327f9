SPECIFICATION FairSpec
CONSTANTS
    Leaves = {leave1, leave2}
    NoLeave = NoLeave
    Intents = {voice, video}
    LeftBehind = TRUE
    LeaveDelay = 1
    JoinAttempts = 2
    MaxCalls = 1
    MaxFaults = 2
    MaxToggles = 1
    MaxStops = 1
    MaxWaiting = 1
INVARIANTS
    TypeOK
    LeavesNothingBehind
PROPERTIES
    CallComesBack
    OrderedLanesEnd
CHECK_DEADLOCK FALSE
