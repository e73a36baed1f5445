SPECIFICATION FairSpec
CONSTANTS
    d1 = d1
    d2 = d2
    c1 = c1
    c2 = c2
    Docs = {d1}
    Calls = {c1}
    InitialServers <- OneDoc
    LegacyAdapter = FALSE
    IsNotificationsDb = FALSE
    Grants = FALSE
    MaxEdits = 2
    MaxFaults = 2
    MaxSessions = 2
PROPERTIES
    StartedEnds
    LiveSyncConverges
CHECK_DEADLOCK FALSE
