CONSTANTS
    l1 = l1
    l2 = l2
    l3 = l3
    a1 = a1
    a2 = a2
    Logins = {l1, l2, l3}
    Accounts = {a1, a2}
    AccountOf <- TwoOnOneAccount
    Nobody = Nobody
    Nothing = Nothing
    Debris = Debris
    Corrupt = Corrupt
    FaultKinds = {"journal", "sync", "move", "keyring"}
    SignInPastOpenJournal = FALSE
    MaxFaults = 2
    MaxCrashes = 1
SPECIFICATION FairSpec
PROPERTY BlockedUntilRetried
CHECK_DEADLOCK FALSE
