SPECIFICATION FairSpec
CONSTANTS
    Leaves = {leave1}
    NoLeave = NoLeave
    Intents = {voice}
    LeftBehind = FALSE
    LeaveDelay = 1
    JoinAttempts = 1
    MaxCalls = 2
    MaxFaults = 1
    MaxToggles = 0
    MaxStops = 0
    MaxWaiting = 1
INVARIANTS
    EventsAreOfTheirCall
PROPERTIES
    CallComesBack
CHECK_DEADLOCK FALSE
