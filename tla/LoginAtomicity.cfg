CONSTANTS
    l1 = l1
    l2 = l2
    l3 = l3
    a1 = a1
    a2 = a2
    Logins = {l1, l2, l3}
    Accounts = {a1, a2}
    AccountOf <- TwoOnOneAccount
    Nobody = Nobody
    Final = Final
    Nothing = Nothing
    Debris = Debris
    Corrupt = Corrupt
    FaultKinds = {"journal", "move", "purge", "keyring"}
    SignInPastOpenJournal = FALSE
    MaxFaults = 2
    MaxCrashes = 2
SPECIFICATION Spec
PROPERTY LoginIsAtomic
CHECK_DEADLOCK FALSE
