SPECIFICATION FairSpec
CONSTANTS
    Users = {ann, bob}
    Linked = {ann}
    Logins = {first, second}
    NoUser = NoUser
    NoEntity = NoEntity
    InitialOffline = {ann}
    MaxLogins = 3
    MaxPages = 2
INVARIANTS
    DatabaseOfSession
    OfflineUsersHaveData
    UserOfSession
    LoginStateOfSession
    RemoteSessionIsKnown
PROPERTIES
    LoginEnds
    LoginIsOffered
