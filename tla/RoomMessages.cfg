SPECIFICATION Spec
CONSTANTS
    Rooms = {r1, r2}
    None = none
    MaxNews = 1
    MaxWindows = 3
    MaxInbox = 2
    MaxSessions = 2
    MaxPicks = 2
    MaxInputs = 4
INVARIANTS
    TypeOK
    EnqueuedInOrder
    NothingSentIsForgotten
    RefusedIsOffered
    DraftIsOfTheRoomShown
    KeptWhileNeeded
    BottomIsRead
PROPERTIES
    UpdatesAreOfTheirWindow
SYMMETRY RoomSymmetry
CHECK_DEADLOCK FALSE
