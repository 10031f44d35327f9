CONSTANTS
    MaxTyped = 4
    MaxWaiting = 1
    MaxTokens = 2
    MaxFaults = 1
SPECIFICATION FairSpec
INVARIANTS
    TypeOK
    OneSignInAtATime
    HeldAsThePhaseSays
    GoneStaysGone
PROPERTIES
    TokensNeverGoBack
    LossEndsItsOwnSession
    RunsAsTheUserAsked
    SignInSettles
    LogoutEnds
    TokensAreSaved
CHECK_DEADLOCK FALSE
