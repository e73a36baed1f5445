------------------------------ MODULE Session ------------------------------
(***************************************************************************)
(* Logins and logouts in one browser tab: SessionManagerService, the parts *)
(* of LoginComponent, KeycloakAuthService and DatabaseResolverService it   *)
(* drives, and what of a login stays on the device.                        *)
(*                                                                         *)
(* A login waits for Keycloak, for the names of the user's databases, for  *)
(* the browser's list of databases, for the app's config and for the       *)
(* user's entity.  Several logins may be under way at once: the silent     *)
(* check of the login page goes on when the user picks an offline login,   *)
(* and nothing cancels it.  Each promise is a member of Logins and runs    *)
(* the steps between two awaits as separate actions.                       *)
(*                                                                         *)
(* The database itself is abstracted to whose it is, and a sync to its     *)
(* start and its outcome (see SyncedPouchDatabase for the rest); Keycloak  *)
(* to the user it has a session for.                                       *)
(***************************************************************************)
EXTENDS Naturals

CONSTANTS
    Users,            \* accounts
    Linked,           \* those linked to an entity of a type in the config
    Logins,           \* login promises that may be pending at the same time
    NoUser,           \* undefined: no session, no database, no current user
    NoEntity,         \* null: the account has no entity, or it cannot be loaded
    InitialOffline,   \* users who completed a sync on this device before
    MaxLogins,        \* bound: logins and silent checks started
    MaxPages          \* bound: page loads

ASSUME UsersAssumption ==
    /\ Linked \subseteq Users /\ InitialOffline \subseteq Users
    /\ NoUser \notin Users /\ NoEntity \notin Users /\ NoUser # NoEntity
ASSUME BoundsAssumption == MaxLogins \in Nat /\ MaxPages \in Nat

VARIABLES
    \* kept on the device
    offlineUsers,        \* USER-... in localStorage: who may log in offline
    synced,              \* whose local database was completely synced once
    resetRemote,         \* RESET_REMOTE in localStorage
    skipNextSsoCheck,    \* SKIP_NEXT_SSO_CHECK in sessionStorage
    \* outside of the app
    online,              \* navigator.onLine
    sso,                 \* the user of the session at Keycloak
    \* the page
    page,                \* "away" (no page of the app), "opening" (navigating to
                         \* /login), "login" or "app"
    loginState,          \* LoginStateSubject
    login,               \* the login promises
    keycloakReady,       \* Keycloak has been initialised
    logoutRejected,      \* the logout that the login page had to make up for was rejected
    sessionInfo,         \* SessionSubject: the user logged in
    currentUser,         \* CurrentUserSubject: the user whose entity it holds
    remoteLoggedIn,
    dbConfig,            \* DatabaseResolverService.dbConfig: whose databases it names
    opened,              \* whose database is open as the "app" database
    setupCompleted,      \* setupCompleted$ has emitted, and replays
    updateSubscription,  \* the user whose entity's updates it delivers
    otherUpdates,        \* subscriptions that were overwritten, and go on
    syncState,           \* the global SyncStateSubject
    forwarding,          \* destroy$ of the database has not fired yet
    syncing,             \* whose databases are being synced
    syncSaveSubscription,\* the user to be saved once a sync completes
    \* budgets of the environment
    started, pages,
    \* history, read by properties only
    crossed,             \* in this page, two logins set dbConfig before either read it
    mixed,               \* in this page, a database was opened in place of another
    unsure,              \* users saved for offline login in such a page
    strays,              \* in this page, users of whom something was still under way
                         \* when their session ended or was replaced
    disturbed,           \* the login page was opened, or a remote login failed, while
                         \* somebody was logged in
    viaRemote,           \* the session is one from Keycloak
    outlived             \* in this page, a login went on after a logout

deviceVars  == <<offlineUsers, synced>>
markVars    == <<resetRemote, skipNextSsoCheck, sso>>
entityVars  == <<currentUser, updateSubscription, otherUpdates>>
flowVars    == <<keycloakReady, logoutRejected>>
sessionVars == <<sessionInfo, remoteLoggedIn, dbConfig, opened>>
syncVars    == <<syncState, forwarding, syncing, syncSaveSubscription>>
historyVars == <<crossed, mixed, unsure, strays, disturbed, viaRemote, outlived>>
pageVars    == <<page, loginState, login, flowVars, sessionVars, setupCompleted, entityVars,
                 syncVars>>
vars == <<deviceVars, markVars, online, pageVars, started, pages, historyVars>>

-----------------------------------------------------------------------------
LoginState == {"LOGGED_OUT", "IN_PROGRESS", "LOGGED_IN", "LOGIN_FAILED"}
SyncState == {"UNSYNCED", "STARTED", "COMPLETED", "FAILED"}
MaybeUser == Users \cup {NoUser}

\* Whether it was rejected, and whether the login page shows its offline users then
Rejections == {"no", "shown", "hidden"}

\* Where a login promise is: waiting for Keycloak, for the names of the databases,
\* for the list of existing ones, for the config, or for the user's entity.
LoginSteps == {"idle", "keycloak", "config", "opening", "setup", "entity"}

\* shown: it is the silent check of the login page that is on screen
IdleLogin == [kind |-> "none", user |-> NoUser, step |-> "idle", shown |-> FALSE]
LoginPromise == [kind : {"none", "check", "remote", "offline"}, user : MaybeUser,
                 step : LoginSteps, shown : BOOLEAN]

TypeOK ==
    /\ offlineUsers \in SUBSET Users /\ synced \in SUBSET Users
    /\ resetRemote \in BOOLEAN /\ skipNextSsoCheck \in BOOLEAN
    /\ online \in BOOLEAN /\ sso \in MaybeUser
    /\ page \in {"away", "opening", "login", "app"}
    /\ loginState \in LoginState
    /\ login \in [Logins -> LoginPromise]
    /\ keycloakReady \in BOOLEAN /\ logoutRejected \in Rejections
    /\ \A n \in Logins :
          login[n].step \in {"config", "opening", "setup", "entity"} => login[n].user \in Users
    /\ sessionInfo \in MaybeUser /\ opened \in MaybeUser /\ dbConfig \in MaybeUser
    /\ currentUser \in MaybeUser \cup {NoEntity}
    /\ remoteLoggedIn \in BOOLEAN /\ setupCompleted \in BOOLEAN /\ forwarding \in BOOLEAN
    /\ updateSubscription \in MaybeUser /\ otherUpdates \in SUBSET Users
    /\ syncState \in SyncState /\ syncing \in SUBSET Users
    /\ syncSaveSubscription \in MaybeUser
    /\ started \in Nat /\ pages \in Nat
    /\ crossed \in BOOLEAN /\ mixed \in BOOLEAN /\ disturbed \in BOOLEAN
    /\ viaRemote \in BOOLEAN /\ outlived \in BOOLEAN
    /\ unsure \in SUBSET Users /\ strays \in SUBSET Users

\* The device was used before, and no page of the app is open.
Init ==
    /\ offlineUsers = InitialOffline /\ synced = InitialOffline
    /\ resetRemote = FALSE /\ skipNextSsoCheck = FALSE
    /\ online \in BOOLEAN /\ sso \in MaybeUser
    /\ page = "away" /\ loginState = "LOGGED_OUT"
    /\ login = [n \in Logins |-> IdleLogin]
    /\ keycloakReady = FALSE /\ logoutRejected = "no"
    /\ sessionInfo = NoUser /\ remoteLoggedIn = FALSE /\ dbConfig = NoUser /\ opened = NoUser
    /\ setupCompleted = FALSE
    /\ currentUser = NoUser /\ updateSubscription = NoUser /\ otherUpdates = {}
    /\ syncState = "UNSYNCED" /\ forwarding = TRUE /\ syncing = {}
    /\ syncSaveSubscription = NoUser
    /\ started = 0 /\ pages = 0
    /\ crossed = FALSE /\ mixed = FALSE /\ unsure = {} /\ strays = {}
    /\ disturbed = FALSE /\ viaRemote = FALSE /\ outlived = FALSE

-----------------------------------------------------------------------------
(***************************************************************************)
(* The page.                                                               *)
(***************************************************************************)

\* The page is left: what it held in memory is gone.
Leave ==
    /\ page' = "away" /\ loginState' = "LOGGED_OUT"
    /\ login' = [n \in Logins |-> IdleLogin]
    /\ keycloakReady' = FALSE /\ logoutRejected' = "no"
    /\ sessionInfo' = NoUser /\ remoteLoggedIn' = FALSE /\ dbConfig' = NoUser /\ opened' = NoUser
    /\ setupCompleted' = FALSE
    /\ currentUser' = NoUser /\ updateSubscription' = NoUser /\ otherUpdates' = {}
    /\ syncState' = "UNSYNCED" /\ forwarding' = TRUE /\ syncing' = {}
    /\ syncSaveSubscription' = NoUser
    /\ crossed' = FALSE /\ mixed' = FALSE /\ strays' = {} /\ disturbed' = FALSE
    /\ viaRemote' = FALSE /\ outlived' = FALSE

\* The app is opened, in the same tab or a new one, whose sessionStorage is empty;
\* the AuthGuard sends it to /login.
PageLoad ==
    /\ page = "away" /\ pages < MaxPages
    /\ page' = "opening" /\ pages' = pages + 1
    /\ skipNextSsoCheck' \in {skipNextSsoCheck, FALSE}
    /\ UNCHANGED <<deviceVars, resetRemote, sso, online, loginState, login, flowVars,
                   sessionVars, setupCompleted, entityVars, syncVars, started, historyVars>>

\* The page is closed or reloaded.
PageEnds ==
    /\ page # "away"
    /\ Leave
    /\ UNCHANGED <<deviceVars, markVars, online, started, pages, unsure>>

ConnectionChanges ==
    /\ online' = ~online
    /\ UNCHANGED <<deviceVars, markVars, pageVars, started, pages, historyVars>>

\* The session at Keycloak expires, or is ended by another application.
SsoSessionEnds ==
    /\ sso # NoUser
    /\ sso' = NoUser
    /\ UNCHANGED <<deviceVars, resetRemote, skipNextSsoCheck, online, pageVars, started,
                   pages, crossed, mixed, unsure, strays, disturbed, viaRemote, outlived>>

\* KeycloakAuthService.logout: the page goes to Keycloak's logout, which may not be
\* reached.  Both callers have set SKIP_NEXT_SSO_CHECK before.
RemoteLogout ==
    /\ skipNextSsoCheck' = TRUE
    /\ sso' \in IF online THEN {NoUser, sso} ELSE {sso}
    /\ Leave

-----------------------------------------------------------------------------
(***************************************************************************)
(* The login page.                                                         *)
(***************************************************************************)

EndOf(n) == [login EXCEPT ![n] = IdleLogin]

\* The login page of before is no longer on screen.
Hidden == [n \in Logins |-> [login[n] EXCEPT !.shown = FALSE]]

\* Mutant: the state is not looked at.
LoggedOutAlways(state) == "LOGGED_OUT"

\* Mutant: a check that finds nobody sets no state.
LoggedOutNever(state) == state

\* setLoggedOutIfNotAlready
LoggedOutIfNotAlready(state) == IF state # "LOGGED_IN" THEN "LOGGED_OUT" ELSE state

\* clearRemoteSessionIfNecessary, at the end of the flow the login page starts: a logout
\* that is due takes the page away, ...
ClearRemoteSession ==
    /\ resetRemote
    /\ resetRemote' = FALSE
    /\ RemoteLogout

\* ... or is rejected, as long as Keycloak is not initialised in this page.  The mark is
\* removed all the same.
ClearRejected ==
    /\ resetRemote
    /\ resetRemote' = FALSE
    /\ skipNextSsoCheck' = TRUE
    /\ UNCHANGED sso

\* The LoginComponent is created: after a page load or a logout, by the AuthGuard, or
\* because the user goes back to it, logged in or not.
OpensLogin == page \in {"opening", "app"}

\* Its silent check is skipped right after a logout, or not possible.
OpenLoginWithoutCheck ==
    /\ OpensLogin
    /\ skipNextSsoCheck \/ ~online
    /\ \/ keycloakReady /\ ClearRemoteSession
       \/ /\ IF resetRemote
             THEN /\ ~keycloakReady /\ ClearRejected
                  /\ logoutRejected' = IF online THEN "hidden" ELSE "shown"
             ELSE /\ skipNextSsoCheck' = FALSE /\ logoutRejected' = "no"
                  /\ UNCHANGED <<resetRemote, sso>>
          /\ page' = "login" /\ loginState' = "LOGGED_OUT" /\ login' = Hidden
          /\ disturbed' = (disturbed \/ sessionInfo # NoUser)
          /\ UNCHANGED <<keycloakReady, sessionVars, setupCompleted, entityVars, syncVars,
                         crossed, mixed, strays, viaRemote, outlived>>
    /\ UNCHANGED <<deviceVars, online, started, pages, unsure>>

\* checkRemoteSession asks Keycloak.
OpenLogin(n) ==
    /\ OpensLogin
    /\ ~skipNextSsoCheck /\ online
    /\ login[n].step = "idle" /\ started < MaxLogins
    /\ page' = "login" /\ loginState' = "IN_PROGRESS"
    /\ login' = [Hidden EXCEPT ![n] = [kind |-> "check", user |-> NoUser,
                                       step |-> "keycloak", shown |-> TRUE]]
    /\ logoutRejected' = "no"
    /\ started' = started + 1
    /\ disturbed' = (disturbed \/ sessionInfo # NoUser)
    /\ UNCHANGED <<deviceVars, markVars, online, keycloakReady, sessionVars, setupCompleted,
                   entityVars, syncVars, pages, crossed, mixed, unsure, strays, viaRemote,
                   outlived>>

\* Mutant: the button is hidden as long as there is no connection.
LoginOfferedOnline ==
    /\ page = "login" /\ loginState # "IN_PROGRESS" /\ logoutRejected = "no" /\ online
    /\ \A n \in Logins : login[n].shown => login[n].step \notin {"keycloak", "config", "opening"}

\* The button of tryLogin is shown once the check of this page is over, and what comes
\* after it has not been rejected.
LoginOffered ==
    /\ page = "login" /\ loginState # "IN_PROGRESS" /\ logoutRejected = "no"
    /\ \A n \in Logins : login[n].shown => login[n].step \notin {"keycloak", "config", "opening"}

\* tryLogin
RemoteLogin(n) ==
    /\ LoginOffered /\ online
    /\ login[n].step = "idle" /\ started < MaxLogins
    /\ loginState' = "IN_PROGRESS"
    /\ login' = [login EXCEPT ![n] = [kind |-> "remote", user |-> NoUser,
                                      step |-> "keycloak", shown |-> FALSE]]
    /\ started' = started + 1
    /\ UNCHANGED <<deviceVars, markVars, online, page, flowVars, sessionVars,
                   setupCompleted, entityVars, syncVars, pages, historyVars>>

RemoteLoginUnavailable ==
    /\ LoginOffered /\ ~online
    /\ loginState' = "LOGIN_FAILED"
    /\ UNCHANGED <<deviceVars, markVars, online, page, login, flowVars, sessionVars,
                   setupCompleted, entityVars, syncVars, started, pages, historyVars>>

\* Mutant: an offline login takes back that Keycloak has found a session.
OfflineLoginOnly(n, u) ==
    /\ page = "login" /\ u \in offlineUsers /\ logoutRejected # "hidden"
    /\ login[n].step = "idle" /\ started < MaxLogins
    /\ login' = [login EXCEPT ![n] = [kind |-> "offline", user |-> u,
                                      step |-> "config", shown |-> FALSE]]
    /\ started' = started + 1
    /\ remoteLoggedIn' = FALSE
    /\ UNCHANGED <<deviceVars, markVars, online, page, loginState, flowVars, sessionInfo,
                   dbConfig, opened, setupCompleted, entityVars, syncVars, pages,
                   historyVars>>

\* One of the offline users is picked: possible as soon as the check is over, and after
\* ten seconds in any case, unless it was rejected before.
OfflineLogin(n, u) ==
    /\ page = "login" /\ u \in offlineUsers /\ logoutRejected # "hidden"
    /\ login[n].step = "idle" /\ started < MaxLogins
    /\ login' = [login EXCEPT ![n] = [kind |-> "offline", user |-> u,
                                      step |-> "config", shown |-> FALSE]]
    /\ started' = started + 1
    /\ UNCHANGED <<deviceVars, markVars, online, page, loginState, flowVars, sessionVars,
                   setupCompleted, entityVars, syncVars, pages, historyVars>>

-----------------------------------------------------------------------------
(***************************************************************************)
(* A login.                                                                *)
(***************************************************************************)

\* Keycloak has a session: handleRemoteLogin.
KeycloakFindsUser(n) ==
    /\ login[n].step = "keycloak" /\ online /\ sso # NoUser
    /\ login' = [login EXCEPT ![n].user = sso, ![n].step = "config"]
    /\ remoteLoggedIn' = TRUE /\ keycloakReady' = TRUE
    /\ UNCHANGED <<deviceVars, markVars, online, page, loginState, logoutRejected,
                   sessionInfo, dbConfig, opened, setupCompleted, entityVars, syncVars,
                   started, pages, historyVars>>

\* The silent check finds no session, fails or times out, before or after Keycloak has been
\* initialised.
CheckFindsNobody(n) ==
    /\ login[n].step = "keycloak" /\ login[n].kind = "check"
    /\ \/ ClearRemoteSession
       \/ /\ IF resetRemote
             THEN /\ ~keycloakReady /\ ClearRejected
                  /\ logoutRejected' \in
                        IF login[n].shown THEN {"hidden", "shown"} ELSE {logoutRejected}
                  /\ UNCHANGED keycloakReady
             ELSE /\ keycloakReady' \in {keycloakReady, TRUE}
                  /\ UNCHANGED <<markVars, logoutRejected>>
          /\ loginState' = LoggedOutIfNotAlready(loginState) /\ login' = EndOf(n)
          /\ UNCHANGED <<page, sessionVars, setupCompleted, entityVars, syncVars, crossed,
                         mixed, strays, disturbed, viaRemote, outlived>>
    /\ UNCHANGED <<deviceVars, online, started, pages, unsure>>

\* A login by the user goes to Keycloak's login page, where somebody logs in or nobody.
RedirectToKeycloak(n) ==
    /\ login[n].step = "keycloak" /\ login[n].kind = "remote"
    /\ online /\ sso = NoUser
    /\ sso' \in MaybeUser
    /\ Leave
    /\ UNCHANGED <<deviceVars, resetRemote, skipNextSsoCheck, online, started, pages,
                   unsure>>

\* A login by the user fails after its retries, whatever has happened meanwhile.
RemoteLoginFails(n) ==
    /\ login[n].step = "keycloak" /\ login[n].kind = "remote"
    /\ loginState' = "LOGIN_FAILED" /\ login' = EndOf(n)
    /\ keycloakReady' \in {keycloakReady, TRUE}
    /\ disturbed' = (disturbed \/ sessionInfo # NoUser)
    /\ UNCHANGED <<deviceVars, markVars, online, page, logoutRejected, sessionVars,
                   setupCompleted, entityVars, syncVars, started, pages, crossed, mixed,
                   unsure, strays, viaRemote, outlived>>

\* initializeUser, initDatabasesForSession: the configuration is resolved ...
ConfigResolved(n) ==
    /\ login[n].step = "config"
    /\ dbConfig' = login[n].user
    /\ login' = [login EXCEPT ![n].step = "opening"]
    /\ crossed' = (crossed \/ \E m \in Logins : login[m].step = "opening")
    /\ UNCHANGED <<deviceVars, markVars, online, page, loginState, flowVars, sessionInfo,
                   remoteLoggedIn, opened, setupCompleted, entityVars, syncVars, started,
                   pages, mixed, unsure, strays, disturbed, viaRemote, outlived>>

\* Users of whom something is still under way in this page.
UnderWay ==
    {login[n].user : n \in {m \in Logins : login[m].step \in {"setup", "entity"}}}
    \cup (({updateSubscription, currentUser} \cup otherUpdates) \cap Users)

\* initUserEntity for the login promises in P, of which the last linked one is called
\* last: their entities are loaded and their updates subscribed to.
InitUserEntity(P, promises) ==
    LET linked == {n \in P : promises[n].user \in Linked}
    IN  /\ login' = [n \in Logins |->
                       IF n \in linked THEN [promises[n] EXCEPT !.step = "entity"]
                       ELSE IF n \in P THEN IdleLogin ELSE promises[n]]
        /\ currentUser' = IF P = linked THEN currentUser ELSE NoEntity
        /\ IF linked = {} THEN UNCHANGED <<updateSubscription, otherUpdates>>
           ELSE \E last \in linked :
                   /\ updateSubscription' = promises[last].user
                   /\ otherUpdates' = otherUpdates \cup ({updateSubscription} \cap Users)
                                        \cup {promises[n].user : n \in linked \ {last}}

\* Mutant: a database that is open already is not opened again.
DatabaseOpenedOnce == IF opened = NoUser THEN dbConfig ELSE opened

\* initializeAppDatabaseForCurrentUser
DatabaseToOpen == dbConfig

\* Another database is open, which is replaced without a reset.
Mixes == opened \notin {NoUser, dbConfig}

\* Mutant: users are saved as soon as they have logged in.
SavedAtLogin(n) ==
    IF login[n].kind # "offline" THEN {login[n].user} ELSE {}

\* handleRemoteLogin waits for a completed sync before it saves the user, and so saves
\* the user at once if the last one has completed.
SavedAtOnce(n) ==
    IF login[n].kind # "offline" /\ syncState = "COMPLETED" THEN {login[n].user} ELSE {}

SaveNow(n) ==
    /\ offlineUsers' = offlineUsers \cup SavedAtOnce(n)
    /\ unsure' = unsure \cup (IF crossed \/ mixed \/ Mixes THEN SavedAtOnce(n) ELSE {})

\* ... the database opened, session and login state set; the login page routes to the app.
\* An offline login leaves alone who is waiting to be saved.
DatabaseOpened(n) ==
    LET u == login[n].user
        promises == [login EXCEPT ![n].step = "setup"]
    IN  /\ login[n].step = "opening"
        /\ login[n].kind = "check" => ~resetRemote
        /\ opened' = DatabaseToOpen /\ sessionInfo' = u /\ loginState' = "LOGGED_IN"
        /\ page' = IF page = "login" THEN "app" ELSE page
        /\ IF setupCompleted THEN InitUserEntity({n}, promises)
           ELSE login' = promises /\ UNCHANGED entityVars
        /\ SaveNow(n)
        /\ syncSaveSubscription' = (IF login[n].kind = "offline" THEN syncSaveSubscription
                                    ELSE IF SavedAtOnce(n) = {} THEN u ELSE NoUser)
        /\ mixed' = (mixed \/ Mixes)
        /\ strays' = strays \cup (IF sessionInfo = NoUser THEN {} ELSE UnderWay \ {u})
        /\ disturbed' = FALSE /\ viaRemote' = (login[n].kind # "offline")
        /\ UNCHANGED <<synced, markVars, online, flowVars, remoteLoggedIn, dbConfig,
                       setupCompleted, syncState, forwarding, syncing, started, pages,
                       crossed, outlived>>

\* A check may find the very session that a logout has left to be ended.
DatabaseOpenedAndLeft(n) ==
    /\ login[n].step = "opening" /\ login[n].kind = "check"
    /\ SaveNow(n)
    /\ ClearRemoteSession
    /\ UNCHANGED <<synced, online, started, pages>>

\* The app's config is loaded from the database and applied.
SetupCompletes ==
    /\ ~setupCompleted /\ opened # NoUser
    /\ setupCompleted' = TRUE
    /\ InitUserEntity({n \in Logins : login[n].step = "setup"}, login)
    /\ UNCHANGED <<deviceVars, markVars, online, page, loginState, flowVars, sessionVars,
                   syncVars, started, pages, historyVars>>

\* The user's entity arrives, or is not there.
EntityLoaded(n) ==
    /\ login[n].step = "entity"
    /\ currentUser' \in {login[n].user, NoEntity}
    /\ login' = EndOf(n)
    /\ UNCHANGED <<deviceVars, markVars, online, page, loginState, flowVars, sessionVars,
                   setupCompleted, updateSubscription, otherUpdates, syncVars, started,
                   pages, historyVars>>

\* A user's entity is changed, here or by a sync.
EntityUpdated(u) ==
    /\ opened # NoUser
    /\ u = updateSubscription \/ u \in otherUpdates
    /\ currentUser' = u
    /\ UNCHANGED <<deviceVars, markVars, online, page, loginState, login, flowVars,
                   sessionVars, setupCompleted, updateSubscription, otherUpdates, syncVars,
                   started, pages, historyVars>>

-----------------------------------------------------------------------------
(***************************************************************************)
(* Syncs of the open database, and their state.                            *)
(***************************************************************************)

\* sync(), by the live sync that LOGGED_IN has started or by others.
SyncStarts ==
    /\ forwarding /\ opened # NoUser /\ online
    /\ syncing' = syncing \cup {opened} /\ syncState' = "STARTED"
    /\ UNCHANGED <<deviceVars, markVars, online, page, loginState, login, flowVars,
                   sessionVars, setupCompleted, entityVars, forwarding,
                   syncSaveSubscription, started, pages, historyVars>>

SyncNotPossible ==
    /\ forwarding /\ opened # NoUser /\ ~online
    /\ syncState' = "UNSYNCED"
    /\ UNCHANGED <<deviceVars, markVars, online, page, loginState, login, flowVars,
                   sessionVars, setupCompleted, entityVars, forwarding, syncing,
                   syncSaveSubscription, started, pages, historyVars>>

\* A completed sync saves the user who waits for it.  After a reset its state is no
\* longer forwarded.
SyncCompletes(u) ==
    /\ u \in syncing
    /\ syncing' = syncing \ {u}
    /\ synced' = synced \cup {u}
    /\ IF forwarding
       THEN LET saved == {syncSaveSubscription} \cap Users
            IN  /\ syncState' = "COMPLETED" /\ syncSaveSubscription' = NoUser
                /\ offlineUsers' = offlineUsers \cup saved
                /\ unsure' = unsure \cup (IF crossed \/ mixed THEN saved ELSE {})
       ELSE UNCHANGED <<syncState, syncSaveSubscription, offlineUsers, unsure>>
    /\ UNCHANGED <<markVars, online, page, loginState, login, flowVars, sessionVars,
                   setupCompleted, entityVars, forwarding, started, pages, crossed, mixed,
                   strays, disturbed, viaRemote, outlived>>

SyncFails(u) ==
    /\ u \in syncing
    /\ syncing' = syncing \ {u}
    /\ syncState' = IF forwarding THEN "FAILED" ELSE syncState
    /\ UNCHANGED <<deviceVars, markVars, online, page, loginState, login, flowVars,
                   sessionVars, setupCompleted, entityVars, forwarding,
                   syncSaveSubscription, started, pages, historyVars>>

-----------------------------------------------------------------------------
(***************************************************************************)
(* Logout.                                                                 *)
(***************************************************************************)

\* Mutant: nothing is ended.
PromisesGoOn == login

\* logout$ ends what waits for the config.
PromisesAfterLogout ==
    [n \in Logins |-> IF login[n].step = "setup" THEN IdleLogin ELSE login[n]]

\* The reset of what the page knows, and of its databases.  Entities that are being loaded
\* and subscriptions that were overwritten go on.
LocalReset ==
    /\ page' = "opening" /\ loginState' = "LOGGED_OUT"
    /\ login' = PromisesAfterLogout
    /\ sessionInfo' = NoUser /\ remoteLoggedIn' = FALSE /\ opened' = NoUser
    /\ updateSubscription' = NoUser /\ currentUser' = NoUser
    /\ syncState' = "UNSYNCED" /\ forwarding' = FALSE /\ syncSaveSubscription' = NoUser
    /\ strays' = strays \cup otherUpdates
                     \cup {login[n].user : n \in {m \in Logins : login[m].step = "entity"}}
    /\ disturbed' = FALSE
    /\ outlived' = (outlived \/ \E n \in Logins : login[n].step \in {"config", "opening"})
    /\ UNCHANGED <<flowVars, viaRemote, dbConfig, setupCompleted, otherUpdates, syncing,
                   crossed, mixed, unsure>>

Logout ==
    /\ loginState = "LOGGED_IN"
    /\ \/ /\ remoteLoggedIn /\ online
          /\ RemoteLogout
          /\ UNCHANGED <<resetRemote, unsure>>
       \/ /\ remoteLoggedIn /\ ~online
          /\ resetRemote' = TRUE /\ skipNextSsoCheck' = TRUE
          /\ LocalReset
          /\ UNCHANGED sso
       \/ /\ ~remoteLoggedIn
          /\ LocalReset
          /\ UNCHANGED markVars
    /\ UNCHANGED <<deviceVars, online, started, pages>>

-----------------------------------------------------------------------------
KeycloakAnswers(n) ==
    \/ KeycloakFindsUser(n) \/ CheckFindsNobody(n)
    \/ RedirectToKeycloak(n) \/ RemoteLoginFails(n)

DatabasesInitialised(n) ==
    ConfigResolved(n) \/ DatabaseOpened(n) \/ DatabaseOpenedAndLeft(n)

Sync == SyncStarts \/ SyncNotPossible \/ \E u \in Users : SyncCompletes(u) \/ SyncFails(u)

Next ==
    \/ PageLoad \/ PageEnds \/ ConnectionChanges \/ SsoSessionEnds
    \/ OpenLoginWithoutCheck \/ RemoteLoginUnavailable
    \/ \E n \in Logins :
          \/ OpenLogin(n) \/ RemoteLogin(n) \/ \E u \in Users : OfflineLogin(n, u)
          \/ KeycloakAnswers(n) \/ DatabasesInitialised(n) \/ EntityLoaded(n)
    \/ SetupCompletes \/ \E u \in Users : EntityUpdated(u)
    \/ Sync
    \/ Logout

Spec == Init /\ [][Next]_vars

\* Keycloak operations time out after 15 seconds, and what initDatabasesForSession waits
\* for is the browser's own list of databases.
FairSpec ==
    /\ Spec
    /\ \A n \in Logins : WF_vars(KeycloakAnswers(n)) /\ WF_vars(DatabasesInitialised(n))

-----------------------------------------------------------------------------
(***************************************************************************)
(* Properties.                                                             *)
(***************************************************************************)

\* The open database is the one of the user logged in.  dbConfig is one field for all
\* logins, set before an await and read after it: two logins whose awaits cross may leave
\* one user's session on the other's database.
DatabaseOfSession == sessionInfo # NoUser /\ ~crossed => opened = sessionInfo

\* Who may log in offline has the data to work with: the database was completely synced
\* once (session-manager.service.ts, "so the option is only shown when local data is
\* actually available").  Not so where a login has replaced another one in its page: the
\* global sync state may be that of the other user's database.
OfflineUsersHaveData == offlineUsers \subseteq synced \cup unsure

\* The current user is the user logged in, or still loading; without a session there is
\* none.  Only a user of whom something was still under way when the session ended or was
\* replaced may show up later: an entity that arrives late, or a subscription that a
\* second login in the page has overwritten.
UserOfSession ==
    /\ currentUser \in Users => currentUser \in {sessionInfo} \cup strays
    /\ sessionInfo = NoUser /\ strays = {} => currentUser = NoUser

\* Whoever the AuthGuard lets into the app has a session and an open database; and a
\* session keeps the login state, whatever a slow check of Keycloak finds, until the login
\* page is opened again or a remote login fails after an offline one.
LoginStateOfSession ==
    /\ loginState = "LOGGED_IN" => sessionInfo # NoUser /\ opened # NoUser
    /\ sessionInfo # NoUser => loginState = "LOGGED_IN" \/ disturbed

\* A session from Keycloak is known as one, so that its logout ends it there too.  A login
\* that is under way during a logout of the page escapes: the logout resets the flag it
\* has set, and it completes all the same.
RemoteSessionIsKnown ==
    sessionInfo # NoUser /\ viaRemote => remoteLoggedIn \/ outlived

\* A login or check that is under way ends, in whatever order the answers come.
LoginEnds == loginState = "IN_PROGRESS" ~> loginState # "IN_PROGRESS"

\* The login page comes to offer the login, or is left.  Not if a logout that an earlier
\* page has left to be made up for is rejected, since Keycloak was not initialised in this
\* one (clearRemoteSessionIfNecessary, session-manager.service.ts:222-234, whose error
\* login.component.ts:138-149 does not catch): the button stays hidden then.
LoginIsOffered == page = "login" ~> page # "login" \/ LoginOffered \/ logoutRejected # "no"
=============================================================================
