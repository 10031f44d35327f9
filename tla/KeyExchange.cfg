CONSTANTS
    m1 = m1
    m2 = m2
    Never = Never
    Others = {m1, m2}
    Slots = {0}
    IndexSpan = 3
    KeyReuseWindow = 3
    KeySwitchDelay = 2
    QueuedKeysMax = 1
    MaxSessions = 2
    MaxKeys = 4
    MaxChurn = 2
    MaxSent = 3
SPECIFICATION FairSpec
INVARIANTS
    TypeOK
    NewestKeyReachesMembersOnly
    MediaIsForMembersOnly
    LastArrivalIsKept
PROPERTIES
    KeyInUseStays
    SlotsNeverGoBack
    NewKeyIsUsed
CHECK_DEADLOCK FALSE
