SPECIFICATION Spec
CONSTANTS
    d1 = d1
    d2 = d2
    c1 = c1
    c2 = c2
    Docs = {d1}
    Calls = {c1}
    InitialServers <- OneDoc
    LegacyAdapter = FALSE
    IsNotificationsDb = FALSE
    Grants = TRUE
    MaxEdits = 2
    MaxFaults = 1
    MaxSessions = 1
INVARIANT
    PurgesReportsOfThatSync
CHECK_DEADLOCK FALSE
