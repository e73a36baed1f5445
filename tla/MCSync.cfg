SPECIFICATION Spec
CONSTANTS
    d1 = d1
    d2 = d2
    c1 = c1
    c2 = c2
    Docs = {d1, d2}
    Calls = {c1, c2}
    InitialServers <- EmptyOrTwoDocs
    LegacyAdapter = FALSE
    IsNotificationsDb = TRUE
    Grants = FALSE
    MaxEdits = 2
    MaxFaults = 1
    MaxSessions = 2
CONSTRAINT OverlapOrTwoDocs
SYMMETRY Symmetry
INVARIANTS
    PullsAreComplete
    LostAccessIsTracked
    TrackingPausedOnlyByFirstSync
    DestroyedIsForgotten
PROPERTIES
    SyncCoversRequest
    ImplementsReplica
CHECK_DEADLOCK FALSE
