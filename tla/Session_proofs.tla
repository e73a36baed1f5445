--------------------------- MODULE Session_proofs ---------------------------
(***************************************************************************)
(* Proofs about Session, for any users, any number of logins that are      *)
(* under way at once, and any bounds.                                      *)
(***************************************************************************)
EXTENDS Session, TLAPS

-----------------------------------------------------------------------------
(***************************************************************************)
(* Types.                                                                  *)
(***************************************************************************)

\* An unused promise has the type of one.
LEMMA IdleTyped == IdleLogin \in LoginPromise /\ IdleLogin.step = "idle"
  BY DEF IdleLogin, LoginPromise, LoginSteps, MaybeUser

\* The types of the fields of a promise, and of a changed one.
LEMMA PromiseFields ==
  ASSUME NEW p \in LoginPromise
  PROVE  /\ p.kind \in {"none", "check", "remote", "offline"}
         /\ p.user \in MaybeUser /\ p.step \in LoginSteps /\ p.shown \in BOOLEAN
         /\ \A s \in LoginSteps : /\ [p EXCEPT !.step = s] \in LoginPromise
                                  /\ [p EXCEPT !.step = s].step = s
                                  /\ [p EXCEPT !.step = s].user = p.user
                                  /\ [p EXCEPT !.step = s].kind = p.kind
         /\ \A u \in MaybeUser, s \in LoginSteps :
               /\ [p EXCEPT !.user = u, !.step = s] \in LoginPromise
               /\ [p EXCEPT !.user = u, !.step = s].step = s
               /\ [p EXCEPT !.user = u, !.step = s].user = u
               /\ [p EXCEPT !.user = u, !.step = s].kind = p.kind
         /\ /\ [p EXCEPT !.shown = FALSE] \in LoginPromise
            /\ [p EXCEPT !.shown = FALSE].step = p.step
            /\ [p EXCEPT !.shown = FALSE].user = p.user
            /\ [p EXCEPT !.shown = FALSE].kind = p.kind
  BY DEF LoginPromise

\* The promises, each with a user where there has to be one.
Promises == {f \in [Logins -> LoginPromise] :
                \A n \in Logins : f[n].step \in {"config", "opening", "setup", "entity"}
                                     => f[n].user \in Users}

\* What a page holds in memory has its type.
PageTyped ==
    /\ page \in {"away", "opening", "login", "app"}
    /\ loginState \in LoginState
    /\ login \in Promises
    /\ keycloakReady \in BOOLEAN /\ logoutRejected \in Rejections
    /\ sessionInfo \in MaybeUser /\ opened \in MaybeUser /\ dbConfig \in MaybeUser
    /\ currentUser \in MaybeUser \cup {NoEntity}
    /\ remoteLoggedIn \in BOOLEAN /\ setupCompleted \in BOOLEAN /\ forwarding \in BOOLEAN
    /\ updateSubscription \in MaybeUser /\ otherUpdates \in SUBSET Users
    /\ syncState \in SyncState /\ syncing \in SUBSET Users
    /\ syncSaveSubscription \in MaybeUser
    /\ crossed \in BOOLEAN /\ mixed \in BOOLEAN /\ disturbed \in BOOLEAN
    /\ viaRemote \in BOOLEAN /\ outlived \in BOOLEAN /\ strays \in SUBSET Users

\* So does what outlives it.
RestTyped ==
    /\ offlineUsers \in SUBSET Users /\ synced \in SUBSET Users
    /\ resetRemote \in BOOLEAN /\ skipNextSsoCheck \in BOOLEAN
    /\ online \in BOOLEAN /\ sso \in MaybeUser
    /\ started \in Nat /\ pages \in Nat
    /\ unsure \in SUBSET Users

LEMMA TypeParts == TypeOK <=> PageTyped /\ RestTyped
  BY DEF TypeOK, PageTyped, RestTyped, Promises

LEMMA NoPromises == [n \in Logins |-> IdleLogin] \in Promises
  BY IdleTyped DEF Promises

\* A promise put in the place of another.
LEMMA PromiseChanged ==
  ASSUME NEW f \in Promises, NEW n \in Logins, NEW p \in LoginPromise,
         p.step \in {"config", "opening", "setup", "entity"} => p.user \in Users
  PROVE  [f EXCEPT ![n] = p] \in Promises
  BY DEF Promises

LEMMA PromiseEnds ==
  ASSUME login \in Promises, NEW n \in Logins
  PROVE  EndOf(n) \in Promises
  BY PromiseChanged, IdleTyped DEF EndOf

\* A promise that takes a step, one that learns its user, and those hidden.
LEMMA StepTaken ==
  ASSUME NEW f \in Promises, NEW n \in Logins, NEW s \in LoginSteps, f[n].user \in Users
  PROVE  /\ [f EXCEPT ![n].step = s] \in Promises
         /\ [f EXCEPT ![n].step = s][n].step = s
<1>1. f[n] \in LoginPromise
  BY DEF Promises
<1>2. /\ [f[n] EXCEPT !.step = s] \in LoginPromise
      /\ [f[n] EXCEPT !.step = s].step = s /\ [f[n] EXCEPT !.step = s].user = f[n].user
  BY <1>1, PromiseFields
<1> DEFINE p == [f[n] EXCEPT !.step = s]
<1>3. [f EXCEPT ![n].step = s] = [f EXCEPT ![n] = p]
  BY DEF Promises
<1>4. [f EXCEPT ![n] = p][n] = p
  BY DEF Promises
<1> HIDE DEF p
<1>5. [f EXCEPT ![n] = p] \in Promises
  BY <1>2, PromiseChanged DEF p
<1> QED
  BY <1>2, <1>3, <1>4, <1>5 DEF p

LEMMA UserFound ==
  ASSUME NEW f \in Promises, NEW n \in Logins, NEW u \in Users, NEW s \in LoginSteps
  PROVE  [f EXCEPT ![n].user = u, ![n].step = s] \in Promises
<1>1. f[n] \in LoginPromise /\ u \in MaybeUser
  BY DEF Promises, MaybeUser
<1> DEFINE p == [f[n] EXCEPT !.user = u, !.step = s]
<1>2. p \in LoginPromise /\ p.user = u
  BY <1>1 DEF LoginPromise
<1>3. [f EXCEPT ![n].user = u, ![n].step = s] = [f EXCEPT ![n] = p]
  BY DEF Promises
<1> HIDE DEF p
<1> QED
  BY <1>2, <1>3, PromiseChanged

LEMMA HiddenTyped == login \in Promises => Hidden \in Promises
<1> SUFFICES ASSUME login \in Promises
             PROVE  Hidden \in Promises
  OBVIOUS
<1>1. \A n \in Logins : /\ [login[n] EXCEPT !.shown = FALSE] \in LoginPromise
                       /\ [login[n] EXCEPT !.shown = FALSE].step = login[n].step
                       /\ [login[n] EXCEPT !.shown = FALSE].user = login[n].user
  BY PromiseFields DEF Promises
<1> QED
  BY <1>1 DEF Hidden, Promises

LEMMA LeaveTyped == Leave => PageTyped'
  BY NoPromises DEF Leave, PageTyped, LoginState, SyncState, MaybeUser, Rejections

\* Promises whose users' entities are loaded.
LEMMA InitUserEntityTyped ==
  ASSUME UsersAssumption, NEW P \in SUBSET Logins, NEW promises \in Promises,
         \A n \in P : promises[n].step = "setup",
         updateSubscription \in MaybeUser, otherUpdates \in SUBSET Users,
         currentUser \in MaybeUser \cup {NoEntity},
         InitUserEntity(P, promises)
  PROVE  /\ login' \in Promises
         /\ currentUser' \in MaybeUser \cup {NoEntity}
         /\ updateSubscription' \in MaybeUser /\ otherUpdates' \in SUBSET Users
<1> DEFINE linked == {n \in P : promises[n].user \in Linked}
<1>1. \A n \in P : promises[n].user \in Users
  BY DEF Promises
<1>2. login' \in Promises
  <2>1. \A n \in P : /\ [promises[n] EXCEPT !.step = "entity"] \in LoginPromise
                     /\ [promises[n] EXCEPT !.step = "entity"].user = promises[n].user
    <3> TAKE n \in P
    <3>1. promises[n] \in LoginPromise /\ "entity" \in LoginSteps
      BY DEF Promises, LoginSteps
    <3> QED
      BY <3>1, PromiseFields
  <2>2. login' = [n \in Logins |->
                    IF n \in linked THEN [promises[n] EXCEPT !.step = "entity"]
                    ELSE IF n \in P THEN IdleLogin ELSE promises[n]]
    BY DEF InitUserEntity
  <2> QED
    BY <1>1, <2>1, <2>2, IdleTyped DEF Promises
<1>3. currentUser' \in MaybeUser \cup {NoEntity}
  BY DEF InitUserEntity
<1>4. updateSubscription' \in MaybeUser /\ otherUpdates' \in SUBSET Users
  <2>1. CASE linked = {}
    BY <2>1 DEF InitUserEntity
  <2>2. CASE linked # {}
    <3>1. PICK last \in linked :
             /\ updateSubscription' = promises[last].user
             /\ otherUpdates' = otherUpdates \cup ({updateSubscription} \cap Users)
                                  \cup {promises[n].user : n \in linked \ {last}}
      BY <2>2 DEF InitUserEntity
    <3> QED
      BY <1>1, <3>1 DEF MaybeUser
  <2> QED
    BY <2>1, <2>2
<1> QED
  BY <1>2, <1>3, <1>4

\* The types, kept by every step.
LEMMA TypeInductive ==
  ASSUME UsersAssumption, PageTyped, RestTyped, [Next]_vars
  PROVE  PageTyped' /\ RestTyped'
<1> USE DEF deviceVars, markVars, entityVars, flowVars, sessionVars, syncVars, historyVars, pageVars
<1>0. /\ login \in Promises
      /\ \A n \in Logins : /\ login[n] \in LoginPromise
                           /\ login[n].step \in {"config", "opening", "setup", "entity"}
                                 => login[n].user \in Users
  BY DEF PageTyped, Promises
<1>a. ASSUME NEW n \in Logins
      PROVE  /\ login[n].step = "config" => login[n].user \in Users
             /\ login[n].step = "opening" => login[n].user \in Users
             /\ login[n].step = "setup" => login[n].user \in Users
             /\ login[n].step = "entity" => login[n].user \in Users
  <2>1. login[n].step \in {"config", "opening", "setup", "entity"} => login[n].user \in Users
    BY <1>0
  <2> QED
    BY <2>1
<1>1. CASE UNCHANGED vars
  BY <1>1 DEF vars, PageTyped, RestTyped
<1>2. CASE PageLoad
  <2>1. skipNextSsoCheck' \in BOOLEAN
    BY <1>2 DEF PageLoad, RestTyped
  <2>2. pages' \in Nat
    BY <1>2 DEF PageLoad, RestTyped
  <2> QED
    BY <1>2, <2>1, <2>2 DEF PageLoad, PageTyped, RestTyped
<1>3. CASE PageEnds
  BY <1>3, LeaveTyped DEF PageEnds, RestTyped
<1>4. CASE ConnectionChanges
  BY <1>4 DEF ConnectionChanges, PageTyped, RestTyped
<1>5. CASE SsoSessionEnds
  <2>1. PageTyped'
    BY <1>5 DEF SsoSessionEnds, PageTyped
  <2>2. RestTyped'
    BY <1>5 DEF SsoSessionEnds, RestTyped, MaybeUser
  <2> QED
    BY <2>1, <2>2
<1>6. CASE OpenLoginWithoutCheck
  <2>1. CASE ClearRemoteSession
    BY <1>6, <2>1, LeaveTyped
       DEF OpenLoginWithoutCheck, ClearRemoteSession, RemoteLogout, RestTyped, MaybeUser
  <2>2. CASE ~ClearRemoteSession
    <3>1. Hidden \in Promises
      BY <1>0, HiddenTyped
    <3>2. /\ resetRemote' \in BOOLEAN /\ skipNextSsoCheck' \in BOOLEAN /\ sso' = sso
          /\ logoutRejected' \in Rejections
      BY <1>6, <2>2 DEF OpenLoginWithoutCheck, ClearRejected, RestTyped, Rejections
    <3>3. login' = Hidden /\ page' = "login" /\ loginState' = "LOGGED_OUT"
      BY <1>6, <2>2 DEF OpenLoginWithoutCheck
    <3>4. PageTyped'
      BY <1>6, <2>2, <3>1, <3>2, <3>3 DEF OpenLoginWithoutCheck, PageTyped, LoginState
    <3>5. RestTyped'
      BY <1>6, <3>2 DEF OpenLoginWithoutCheck, RestTyped
    <3> QED
      BY <3>4, <3>5
  <2> QED
    BY <2>1, <2>2
<1>7. ASSUME NEW n \in Logins, OpenLogin(n)
      PROVE  PageTyped' /\ RestTyped'
  <2>1. Hidden \in Promises
    BY <1>0, HiddenTyped
  <2>2. [kind |-> "check", user |-> NoUser, step |-> "keycloak", shown |-> TRUE]
           \in LoginPromise
    BY DEF LoginPromise, MaybeUser, LoginSteps
  <2>3. login' \in Promises
    BY <1>7, <2>1, <2>2, PromiseChanged DEF OpenLogin
  <2> QED
    BY <1>7, <2>3 DEF OpenLogin, PageTyped, RestTyped, LoginState, Rejections
<1>8. ASSUME NEW n \in Logins, RemoteLogin(n)
      PROVE  PageTyped' /\ RestTyped'
  <2>1. [kind |-> "remote", user |-> NoUser, step |-> "keycloak", shown |-> FALSE]
           \in LoginPromise
    BY DEF LoginPromise, MaybeUser, LoginSteps
  <2>2. login' \in Promises
    BY <1>0, <1>8, <2>1, PromiseChanged DEF RemoteLogin
  <2> QED
    BY <1>8, <2>2 DEF RemoteLogin, PageTyped, RestTyped, LoginState
<1>9. CASE RemoteLoginUnavailable
  BY <1>9 DEF RemoteLoginUnavailable, PageTyped, RestTyped, LoginState
<1>10. ASSUME NEW n \in Logins, NEW u \in Users, OfflineLogin(n, u)
       PROVE  PageTyped' /\ RestTyped'
  <2>1. [kind |-> "offline", user |-> u, step |-> "config", shown |-> FALSE] \in LoginPromise
    BY DEF LoginPromise, MaybeUser, LoginSteps
  <2>2. login' \in Promises
    BY <1>0, <1>10, <2>1, PromiseChanged DEF OfflineLogin
  <2> QED
    BY <1>10, <2>2 DEF OfflineLogin, PageTyped, RestTyped
<1>11. ASSUME NEW n \in Logins, KeycloakFindsUser(n)
       PROVE  PageTyped' /\ RestTyped'
  <2>1. sso \in Users /\ "config" \in LoginSteps
    BY <1>11 DEF KeycloakFindsUser, RestTyped, MaybeUser, LoginSteps
  <2>2. login' \in Promises
    BY <1>0, <1>11, <2>1, UserFound DEF KeycloakFindsUser
  <2> QED
    BY <1>11, <2>2 DEF KeycloakFindsUser, PageTyped, RestTyped
<1>12. ASSUME NEW n \in Logins, CheckFindsNobody(n)
       PROVE  PageTyped' /\ RestTyped'
  <2>1. CASE ClearRemoteSession
    BY <1>12, <2>1, LeaveTyped
       DEF CheckFindsNobody, ClearRemoteSession, RemoteLogout, RestTyped, MaybeUser
  <2>2. CASE ~ClearRemoteSession
    <3>1. EndOf(n) \in Promises
      BY <1>0, PromiseEnds
    <3>2. LoggedOutIfNotAlready(loginState) \in LoginState
      BY DEF LoggedOutIfNotAlready, LoginState, PageTyped
    <3>3. /\ resetRemote' \in BOOLEAN /\ skipNextSsoCheck' \in BOOLEAN /\ sso' = sso
          /\ keycloakReady' \in BOOLEAN /\ logoutRejected' \in Rejections
      BY <1>12, <2>2 DEF CheckFindsNobody, ClearRejected, PageTyped, RestTyped, Rejections
    <3>4. PageTyped'
      BY <1>12, <2>2, <3>1, <3>2, <3>3 DEF CheckFindsNobody, PageTyped
    <3>5. RestTyped'
      BY <1>12, <2>2, <3>3 DEF CheckFindsNobody, RestTyped
    <3> QED
      BY <3>4, <3>5
  <2> QED
    BY <2>1, <2>2
<1>13. ASSUME NEW n \in Logins, RedirectToKeycloak(n)
       PROVE  PageTyped' /\ RestTyped'
  BY <1>13, LeaveTyped DEF RedirectToKeycloak, RestTyped
<1>14. ASSUME NEW n \in Logins, RemoteLoginFails(n)
       PROVE  PageTyped' /\ RestTyped'
  <2>1. EndOf(n) \in Promises
    BY <1>0, PromiseEnds
  <2>2. keycloakReady' \in BOOLEAN
    BY <1>14 DEF RemoteLoginFails, PageTyped
  <2>3. PageTyped'
    BY <1>14, <2>1, <2>2 DEF RemoteLoginFails, PageTyped, LoginState
  <2>4. RestTyped'
    BY <1>14 DEF RemoteLoginFails, RestTyped
  <2> QED
    BY <2>3, <2>4
<1>15. ASSUME NEW n \in Logins, ConfigResolved(n)
       PROVE  PageTyped' /\ RestTyped'
  <2>1. login[n].user \in Users
    BY <1>a, <1>15 DEF ConfigResolved
  <2>2. "opening" \in LoginSteps
    BY DEF LoginSteps
  <2>3. login' \in Promises
    BY <1>0, <1>15, <2>1, <2>2, StepTaken DEF ConfigResolved
  <2> QED
    BY <1>15, <2>1, <2>3 DEF ConfigResolved, PageTyped, RestTyped, MaybeUser
<1>16. ASSUME NEW n \in Logins, DatabaseOpened(n)
       PROVE  PageTyped' /\ RestTyped'
  <2> DEFINE promises == [login EXCEPT ![n].step = "setup"]
  <2>1. login[n].step = "opening" /\ login[n].user \in Users
    BY <1>a, <1>16 DEF DatabaseOpened
  <2>2. promises \in Promises /\ promises[n].step = "setup"
    BY <1>0, <2>1, StepTaken DEF LoginSteps
  <2>3. /\ login' \in Promises
        /\ currentUser' \in MaybeUser \cup {NoEntity}
        /\ updateSubscription' \in MaybeUser /\ otherUpdates' \in SUBSET Users
    <3>1. CASE setupCompleted
      <4>1. InitUserEntity({n}, promises)
        BY <1>16, <3>1 DEF DatabaseOpened
      <4> HIDE DEF promises
      <4> QED
        BY <2>2, <4>1, InitUserEntityTyped DEF PageTyped
    <3>2. CASE ~setupCompleted
      BY <1>16, <2>2, <3>2 DEF DatabaseOpened, PageTyped
    <3> QED
      BY <3>1, <3>2
  <2>4. SavedAtOnce(n) \in SUBSET Users
    BY <2>1 DEF SavedAtOnce
  <2>5. offlineUsers' \in SUBSET Users /\ unsure' \in SUBSET Users
    BY <1>16, <2>4 DEF DatabaseOpened, SaveNow, RestTyped
  <2>6. strays' \in SUBSET Users
    <3>1. UnderWay \in SUBSET Users
      BY <1>a DEF UnderWay
    <3> QED
      BY <1>16, <3>1 DEF DatabaseOpened, PageTyped
  <2>7. RestTyped'
    BY <1>16, <2>5 DEF DatabaseOpened, RestTyped
  <2>8. PageTyped'
    BY <1>16, <2>1, <2>3, <2>6
       DEF DatabaseOpened, PageTyped, MaybeUser, LoginState, DatabaseToOpen, Mixes
  <2> QED
    BY <2>7, <2>8
<1>17. ASSUME NEW n \in Logins, DatabaseOpenedAndLeft(n)
       PROVE  PageTyped' /\ RestTyped'
  <2>1. SavedAtOnce(n) \in SUBSET Users
    BY <1>a, <1>17 DEF DatabaseOpenedAndLeft, SavedAtOnce
  <2>2. offlineUsers' \in SUBSET Users /\ unsure' \in SUBSET Users
    BY <1>17, <2>1 DEF DatabaseOpenedAndLeft, SaveNow, RestTyped
  <2> QED
    BY <1>17, <2>2, LeaveTyped
       DEF DatabaseOpenedAndLeft, ClearRemoteSession, RemoteLogout, RestTyped, MaybeUser
<1>18. CASE SetupCompletes
  <2> DEFINE P == {n \in Logins : login[n].step = "setup"}
  <2>1. InitUserEntity(P, login)
    BY <1>18 DEF SetupCompletes
  <2>2. /\ login' \in Promises
        /\ currentUser' \in MaybeUser \cup {NoEntity}
        /\ updateSubscription' \in MaybeUser /\ otherUpdates' \in SUBSET Users
    BY <1>0, <2>1, InitUserEntityTyped DEF PageTyped
  <2> QED
    BY <1>18, <2>2 DEF SetupCompletes, PageTyped, RestTyped
<1>19. ASSUME NEW n \in Logins, EntityLoaded(n)
       PROVE  PageTyped' /\ RestTyped'
  <2>1. EndOf(n) \in Promises
    BY <1>0, PromiseEnds
  <2>2. login[n].user \in Users
    BY <1>a, <1>19 DEF EntityLoaded
  <2> QED
    BY <1>19, <2>1, <2>2 DEF EntityLoaded, PageTyped, RestTyped, MaybeUser
<1>20. ASSUME NEW u \in Users, EntityUpdated(u)
       PROVE  PageTyped' /\ RestTyped'
  BY <1>20 DEF EntityUpdated, PageTyped, RestTyped, MaybeUser
<1>21. CASE Sync
  <2>1. CASE SyncStarts
    <3>1. opened \in Users
      BY <2>1 DEF SyncStarts, PageTyped, MaybeUser
    <3> QED
      BY <2>1, <3>1 DEF SyncStarts, PageTyped, RestTyped, SyncState
  <2>2. CASE SyncNotPossible
    BY <2>2 DEF SyncNotPossible, PageTyped, RestTyped, SyncState
  <2>3. ASSUME NEW u \in Users, SyncCompletes(u)
        PROVE  PageTyped' /\ RestTyped'
    BY <2>3 DEF SyncCompletes, PageTyped, RestTyped, SyncState, MaybeUser
  <2>4. ASSUME NEW u \in Users, SyncFails(u)
        PROVE  PageTyped' /\ RestTyped'
    BY <2>4 DEF SyncFails, PageTyped, RestTyped, SyncState
  <2> QED
    BY <1>21, <2>1, <2>2, <2>3, <2>4 DEF Sync
<1>22. CASE Logout
  <2>1. CASE RemoteLogout /\ UNCHANGED <<resetRemote, unsure>>
    BY <1>22, <2>1, LeaveTyped DEF Logout, RemoteLogout, RestTyped, MaybeUser
  <2>2. CASE LocalReset
    <3>1. PromisesAfterLogout \in Promises
      BY <1>0, IdleTyped DEF PromisesAfterLogout, Promises
    <3>2. strays' \in SUBSET Users
      BY <1>a, <2>2 DEF LocalReset, PageTyped
    <3>3. PageTyped'
      BY <2>2, <3>1, <3>2 DEF LocalReset, PageTyped, LoginState, SyncState, MaybeUser
    <3>4. RestTyped'
      BY <1>22, <2>2 DEF Logout, LocalReset, RemoteLogout, RestTyped, MaybeUser
    <3> QED
      BY <3>3, <3>4
  <2> QED
    BY <1>22, <2>1, <2>2 DEF Logout
<1> QED
  BY <1>1, <1>2, <1>3, <1>4, <1>5, <1>6, <1>7, <1>8, <1>9, <1>10, <1>11, <1>12, <1>13, <1>14,
     <1>15, <1>16, <1>17, <1>18, <1>19, <1>20, <1>21, <1>22
     DEF Next, KeycloakAnswers, DatabasesInitialised

LEMMA TypesAtFirst == Init => PageTyped /\ RestTyped
<1> SUFFICES ASSUME Init
             PROVE  PageTyped /\ RestTyped
  OBVIOUS
<1>1. PageTyped
  BY NoPromises DEF Init, PageTyped, MaybeUser, LoginState, SyncState, Rejections
<1>2. InitialOffline \in SUBSET Users
  BY UsersAssumption
<1>3. started \in Nat /\ pages \in Nat
  BY DEF Init
<1>4. resetRemote \in BOOLEAN /\ skipNextSsoCheck \in BOOLEAN
  BY DEF Init
<1>5. offlineUsers \in SUBSET Users /\ synced \in SUBSET Users /\ unsure \in SUBSET Users
  BY <1>2 DEF Init
<1> QED
  BY <1>1, <1>3, <1>4, <1>5 DEF Init, RestTyped

\* What each variable holds has its type, in every state.
THEOREM TypeCorrect == Spec => []TypeOK
<1>1. PageTyped /\ RestTyped /\ [Next]_vars => (PageTyped /\ RestTyped)'
  BY UsersAssumption, TypeInductive
<1>2. PageTyped /\ RestTyped => TypeOK
  BY TypeParts
<1> QED
  BY TypesAtFirst, <1>1, <1>2, PTL DEF Spec

-----------------------------------------------------------------------------
(***************************************************************************)
(* How a login promise that waits for the config or for a database came to *)
(* do so.                                                                  *)
(***************************************************************************)

\* After a step, the promise n is as before, has got its config, or has just begun to wait
\* for it; a session from Keycloak is still known as one, or a logout has gone between; and
\* whose databases are named has only changed if a config was resolved.
Goes(n) ==
    /\ \/ /\ login'[n].step = "config"
          /\ login'[n].kind = "offline" \/ remoteLoggedIn'
       \/ ConfigResolved(n) /\ login'[n].user = login[n].user /\ login'[n].kind = login[n].kind
       \/ /\ login'[n].step = login[n].step
          /\ login'[n].user = login[n].user /\ login'[n].kind = login[n].kind
    /\ remoteLoggedIn \/ outlived => remoteLoggedIn' \/ outlived'
    /\ \/ dbConfig' = dbConfig /\ crossed' = crossed
       \/ \E m \in Logins : ConfigResolved(m)

\* The promises a step leaves alone.
LEMMA OthersGoOn ==
  ASSUME NEW f \in Promises, NEW n \in Logins, NEW m \in Logins, NEW p \in LoginPromise,
         m # n
  PROVE  [f EXCEPT ![n] = p][m] = f[m]
  BY DEF Promises

\* A page that is left has no promise that waits.
LEMMA NobodyWaits ==
  ASSUME NEW n \in Logins, Leave
  PROVE  login'[n].step = "idle"
  BY IdleTyped DEF Leave

\* What InitUserEntity does with a promise: those it is called for wait no longer.
LEMMA InitUserEntityGoes ==
  ASSUME NEW P \in SUBSET Logins, NEW promises \in Promises, InitUserEntity(P, promises),
         NEW n \in Logins
  PROVE  IF n \in P THEN login'[n].step \in {"idle", "entity"}
                    ELSE login'[n] = promises[n]
<1> DEFINE linked == {m \in P : promises[m].user \in Linked}
<1>1. login'[n] = IF n \in linked THEN [promises[n] EXCEPT !.step = "entity"]
                  ELSE IF n \in P THEN IdleLogin ELSE promises[n]
  BY DEF InitUserEntity
<1>2. promises[n] \in LoginPromise /\ "entity" \in LoginSteps
  BY DEF Promises, LoginSteps
<1>3. [promises[n] EXCEPT !.step = "entity"].step = "entity"
  BY <1>2, PromiseFields
<1> QED
  BY <1>1, <1>3, IdleTyped

LEMMA WaitingGoes ==
  ASSUME UsersAssumption, PageTyped, RestTyped, [Next]_vars,
         NEW n \in Logins, login'[n].step \in {"config", "opening"}
  PROVE  Goes(n)
<1> USE DEF deviceVars, markVars, entityVars, flowVars, sessionVars, syncVars, historyVars, pageVars
<1>0. login \in Promises /\ login[n] \in LoginPromise
  BY DEF PageTyped, Promises
<1>1. ~Leave
  BY NobodyWaits
<1>2. ASSUME UNCHANGED <<login, remoteLoggedIn, dbConfig, crossed>>, outlived => outlived'
      PROVE  Goes(n)
  BY <1>2 DEF Goes
<1>3. ASSUME NEW m \in Logins, NEW p \in LoginPromise, login' = [login EXCEPT ![m] = p],
             p.step \notin {"config", "opening"},
             UNCHANGED <<remoteLoggedIn, dbConfig, crossed, outlived>>
      PROVE  Goes(n)
  <2>1. m # n
    BY <1>0, <1>3 DEF Promises
  <2>2. login'[n] = login[n]
    BY <1>0, <1>3, <2>1, OthersGoOn
  <2> QED
    BY <1>3, <2>2 DEF Goes
<1>4. ASSUME login' = Hidden, UNCHANGED <<remoteLoggedIn, dbConfig, crossed, outlived>>
      PROVE  Goes(n)
  <2>1. login'[n] = [login[n] EXCEPT !.shown = FALSE]
    BY <1>4 DEF Hidden
  <2>2. /\ login'[n].step = login[n].step
        /\ login'[n].user = login[n].user /\ login'[n].kind = login[n].kind
    BY <1>0, <2>1, PromiseFields
  <2> QED
    BY <1>4, <2>2 DEF Goes
<1>5. CASE UNCHANGED vars
  BY <1>2, <1>5 DEF vars
<1>6. CASE PageLoad \/ ConnectionChanges \/ SsoSessionEnds \/ RemoteLoginUnavailable
  BY <1>2, <1>6 DEF PageLoad, ConnectionChanges, SsoSessionEnds, RemoteLoginUnavailable
<1>7. CASE PageEnds
  BY <1>1, <1>7 DEF PageEnds
<1>8. CASE OpenLoginWithoutCheck
  BY <1>1, <1>4, <1>8 DEF OpenLoginWithoutCheck, ClearRemoteSession, RemoteLogout
<1>9. ASSUME NEW m \in Logins, OpenLogin(m)
      PROVE  Goes(n)
  <2>1. Hidden \in Promises
    BY <1>0, HiddenTyped
  <2>2. PICK p \in LoginPromise : p.step = "keycloak" /\ login' = [Hidden EXCEPT ![m] = p]
    <3>1. [kind |-> "check", user |-> NoUser, step |-> "keycloak", shown |-> TRUE]
             \in LoginPromise
      BY DEF LoginPromise, MaybeUser, LoginSteps
    <3> QED
      BY <1>9, <3>1 DEF OpenLogin
  <2>3. m # n
    BY <2>1, <2>2 DEF Promises
  <2>4. login'[n] = Hidden[n]
    BY <2>1, <2>2, <2>3, OthersGoOn
  <2>5. login'[n] = [login[n] EXCEPT !.shown = FALSE]
    BY <2>4 DEF Hidden
  <2>6. /\ login'[n].step = login[n].step
        /\ login'[n].user = login[n].user /\ login'[n].kind = login[n].kind
    BY <1>0, <2>5, PromiseFields
  <2> QED
    BY <1>9, <2>6 DEF Goes, OpenLogin
<1>10. ASSUME NEW m \in Logins, RemoteLogin(m)
       PROVE  Goes(n)
  <2>1. [kind |-> "remote", user |-> NoUser, step |-> "keycloak", shown |-> FALSE]
           \in LoginPromise
    BY DEF LoginPromise, MaybeUser, LoginSteps
  <2> QED
    BY <1>3, <1>10, <2>1 DEF RemoteLogin
<1>11. ASSUME NEW m \in Logins, NEW u \in Users, OfflineLogin(m, u)
       PROVE  Goes(n)
  <2> DEFINE p == [kind |-> "offline", user |-> u, step |-> "config", shown |-> FALSE]
  <2>1. p \in LoginPromise /\ p.step = "config" /\ p.kind = "offline"
    BY DEF LoginPromise, MaybeUser, LoginSteps
  <2>2. login' = [login EXCEPT ![m] = p]
    BY <1>11 DEF OfflineLogin
  <2> HIDE DEF p
  <2>3. IF m = n THEN login'[n] = p ELSE login'[n] = login[n]
    BY <1>0, <2>1, <2>2, OthersGoOn DEF Promises
  <2> QED
    BY <1>11, <2>1, <2>3 DEF Goes, OfflineLogin
<1>12. ASSUME NEW m \in Logins, KeycloakFindsUser(m)
       PROVE  Goes(n)
  <2>1. CASE m = n
    <3>1. login'[n].step = "config"
      BY <1>0, <1>12, <2>1 DEF KeycloakFindsUser, Promises, LoginPromise
    <3> QED
      BY <1>12, <3>1 DEF Goes, KeycloakFindsUser
  <2>2. CASE m # n
    <3>1. login'[n] = login[n]
      BY <1>0, <1>12, <2>2 DEF KeycloakFindsUser, Promises
    <3> QED
      BY <1>12, <3>1 DEF Goes, KeycloakFindsUser
  <2> QED
    BY <2>1, <2>2
<1>13. ASSUME NEW m \in Logins, CheckFindsNobody(m)
       PROVE  Goes(n)
  BY <1>1, <1>3, <1>13, IdleTyped
     DEF CheckFindsNobody, ClearRemoteSession, RemoteLogout, EndOf
<1>14. ASSUME NEW m \in Logins, RedirectToKeycloak(m)
       PROVE  Goes(n)
  BY <1>1, <1>14 DEF RedirectToKeycloak
<1>15. ASSUME NEW m \in Logins, RemoteLoginFails(m)
       PROVE  Goes(n)
  BY <1>3, <1>15, IdleTyped DEF RemoteLoginFails, EndOf
<1>16. ASSUME NEW m \in Logins, ConfigResolved(m)
       PROVE  Goes(n)
  <2>1. CASE m = n
    <3>1. login'[n] = [login[n] EXCEPT !.step = "opening"] /\ "opening" \in LoginSteps
      BY <1>0, <1>16, <2>1 DEF ConfigResolved, Promises, LoginSteps
    <3>2. login'[n].user = login[n].user /\ login'[n].kind = login[n].kind
      BY <1>0, <3>1 DEF LoginPromise
    <3>3. UNCHANGED <<remoteLoggedIn, outlived>>
      BY <1>16 DEF ConfigResolved
    <3> QED
      BY <1>16, <2>1, <3>2, <3>3 DEF Goes
  <2>2. CASE m # n
    <3>1. login'[n] = login[n]
      BY <1>0, <1>16, <2>2 DEF ConfigResolved, Promises
    <3>2. UNCHANGED <<remoteLoggedIn, outlived>>
      BY <1>16 DEF ConfigResolved
    <3> QED
      BY <1>16, <3>1, <3>2 DEF Goes
  <2> QED
    BY <2>1, <2>2
<1>17. ASSUME NEW m \in Logins, DatabaseOpened(m)
       PROVE  Goes(n)
  <2> DEFINE promises == [login EXCEPT ![m].step = "setup"]
  <2>1. login[m].step = "opening" /\ login[m].user \in Users
    BY <1>17 DEF DatabaseOpened, PageTyped, Promises
  <2>2. promises \in Promises /\ promises[m].step = "setup"
    BY <1>0, <2>1, StepTaken DEF LoginSteps
  <2>3. m # n => promises[n] = login[n]
    BY <1>0 DEF Promises
  <2>4. m # n /\ login'[n] = promises[n]
    <3>1. CASE setupCompleted
      <4>1. InitUserEntity({m}, promises)
        BY <1>17, <3>1 DEF DatabaseOpened
      <4> HIDE DEF promises
      <4> QED
        BY <2>2, <4>1, InitUserEntityGoes
    <3>2. CASE ~setupCompleted
      BY <1>17, <2>2, <3>2 DEF DatabaseOpened
    <3> QED
      BY <3>1, <3>2
  <2> QED
    BY <1>17, <2>3, <2>4 DEF Goes, DatabaseOpened
<1>18. ASSUME NEW m \in Logins, DatabaseOpenedAndLeft(m)
       PROVE  Goes(n)
  BY <1>1, <1>18 DEF DatabaseOpenedAndLeft, ClearRemoteSession, RemoteLogout
<1>19. CASE SetupCompletes
  <2> DEFINE P == {m \in Logins : login[m].step = "setup"}
  <2>1. InitUserEntity(P, login)
    BY <1>19 DEF SetupCompletes
  <2>2. login'[n] = login[n]
    BY <1>0, <2>1, InitUserEntityGoes
  <2> QED
    BY <1>19, <2>2 DEF Goes, SetupCompletes
<1>20. ASSUME NEW m \in Logins, EntityLoaded(m)
       PROVE  Goes(n)
  BY <1>3, <1>20, IdleTyped DEF EntityLoaded, EndOf
<1>21. ASSUME NEW u \in Users, EntityUpdated(u)
       PROVE  Goes(n)
  BY <1>2, <1>21 DEF EntityUpdated
<1>22. CASE Sync
  BY <1>2, <1>22 DEF Sync, SyncStarts, SyncNotPossible, SyncCompletes, SyncFails
<1>23. CASE Logout
  <2>1. LocalReset
    BY <1>1, <1>23 DEF Logout, RemoteLogout
  <2>2. login'[n] = IF login[n].step = "setup" THEN IdleLogin ELSE login[n]
    BY <2>1 DEF LocalReset, PromisesAfterLogout
  <2>3. login'[n] = login[n]
    BY <2>2, IdleTyped
  <2>4. outlived'
    BY <2>1, <2>3 DEF LocalReset
  <2> QED
    BY <2>1, <2>3, <2>4 DEF Goes, LocalReset
<1> QED
  BY <1>5, <1>6, <1>7, <1>8, <1>9, <1>10, <1>11, <1>12, <1>13, <1>14, <1>15, <1>16, <1>17,
     <1>18, <1>19, <1>20, <1>21, <1>22, <1>23 DEF Next, KeycloakAnswers, DatabasesInitialised

-----------------------------------------------------------------------------
(***************************************************************************)
(* The database of the session, and sessions from Keycloak.                *)
(***************************************************************************)

\* As long as no two logins crossed in this page, the one whose database is being opened
\* is the last that has set dbConfig; in any case it is set.
Openings ==
    /\ \A n \in Logins : login[n].step = "opening" => dbConfig \in Users
    /\ ~crossed => \A n \in Logins : login[n].step = "opening" => dbConfig = login[n].user

\* A login by Keycloak that has not opened its database yet is known to be one, unless a
\* logout has gone between.
RemoteLogins ==
    \A n \in Logins : login[n].step \in {"config", "opening"} /\ login[n].kind # "offline"
                         => remoteLoggedIn \/ outlived

LEMMA OpeningsInductive ==
  ASSUME UsersAssumption, PageTyped, RestTyped, [Next]_vars, Openings
  PROVE  Openings'
<1>1. ASSUME NEW m \in Logins, ConfigResolved(m)
      PROVE  Openings'
  <2>1. dbConfig' = login[m].user /\ dbConfig' \in Users
    BY <1>1 DEF ConfigResolved, PageTyped, Promises
  <2>2. ASSUME NEW n \in Logins, login'[n].step = "opening", n # m
        PROVE  crossed'
    <3>1. login'[n] = login[n]
      BY <1>1, <2>2 DEF ConfigResolved, PageTyped, Promises
    <3> QED
      BY <1>1, <2>2, <3>1 DEF ConfigResolved
  <2>3. login'[m].user = login[m].user
    BY <1>1 DEF ConfigResolved, PageTyped, Promises, LoginPromise
  <2> QED
    BY <2>1, <2>2, <2>3 DEF Openings
<1>2. ASSUME \A m \in Logins : ~ConfigResolved(m),
             NEW n \in Logins, login'[n].step = "opening"
      PROVE  /\ dbConfig' \in Users
             /\ ~crossed' => dbConfig' = login'[n].user
  <2>1. Goes(n)
    BY <1>2, WaitingGoes
  <2>2. /\ login[n].step = "opening" /\ login'[n].user = login[n].user
        /\ dbConfig' = dbConfig /\ crossed' = crossed
    BY <1>2, <2>1 DEF Goes
  <2> QED
    BY <2>2 DEF Openings
<1> QED
  BY <1>1, <1>2 DEF Openings

LEMMA RemoteLoginsInductive ==
  ASSUME UsersAssumption, PageTyped, RestTyped, [Next]_vars, RemoteLogins
  PROVE  RemoteLogins'
<1> SUFFICES ASSUME NEW n \in Logins, login'[n].step \in {"config", "opening"},
                    login'[n].kind # "offline"
             PROVE  remoteLoggedIn' \/ outlived'
  BY DEF RemoteLogins
<1>1. Goes(n)
  BY WaitingGoes
<1>2. CASE ConfigResolved(n) /\ login'[n].kind = login[n].kind
  BY <1>1, <1>2 DEF Goes, ConfigResolved, RemoteLogins
<1>3. CASE login'[n].step = login[n].step /\ login'[n].kind = login[n].kind
  BY <1>1, <1>3 DEF Goes, RemoteLogins
<1> QED
  BY <1>1, <1>2, <1>3 DEF Goes

\* What a step does to the session: it ends, with the page or by a logout; it begins; or it
\* is as before, and is still known for what it was.
SessionKept ==
    /\ UNCHANGED <<sessionInfo, opened, viaRemote>>
    /\ crossed => crossed'
    /\ remoteLoggedIn \/ outlived => remoteLoggedIn' \/ outlived'

LEMMA SessionSteps ==
  ASSUME [Next]_vars
  PROVE  Leave \/ LocalReset \/ SessionKept \/ \E n \in Logins : DatabaseOpened(n)
<1> USE DEF deviceVars, markVars, entityVars, flowVars, sessionVars, syncVars, historyVars, pageVars,
            SessionKept
<1>1. CASE UNCHANGED vars
  BY <1>1 DEF vars
<1>2. CASE PageLoad \/ PageEnds \/ ConnectionChanges \/ SsoSessionEnds \/ RemoteLoginUnavailable
  BY <1>2 DEF PageLoad, PageEnds, ConnectionChanges, SsoSessionEnds, RemoteLoginUnavailable
<1>3. CASE OpenLoginWithoutCheck
  BY <1>3 DEF OpenLoginWithoutCheck, ClearRemoteSession, RemoteLogout
<1>4. ASSUME NEW n \in Logins, OpenLogin(n) \/ RemoteLogin(n) \/ \E u \in Users : OfflineLogin(n, u)
      PROVE  SessionKept
  BY <1>4 DEF OpenLogin, RemoteLogin, OfflineLogin
<1>5. ASSUME NEW n \in Logins, KeycloakAnswers(n)
      PROVE  Leave \/ SessionKept
  BY <1>5 DEF KeycloakAnswers, KeycloakFindsUser, CheckFindsNobody, RedirectToKeycloak,
              RemoteLoginFails, ClearRemoteSession, RemoteLogout
<1>6. ASSUME NEW n \in Logins, ConfigResolved(n) \/ DatabaseOpenedAndLeft(n)
      PROVE  Leave \/ SessionKept
  BY <1>6 DEF ConfigResolved, DatabaseOpenedAndLeft, ClearRemoteSession, RemoteLogout
<1>7. ASSUME NEW n \in Logins, EntityLoaded(n)
      PROVE  SessionKept
  BY <1>7 DEF EntityLoaded
<1>8. CASE SetupCompletes \/ \E u \in Users : EntityUpdated(u)
  BY <1>8 DEF SetupCompletes, EntityUpdated
<1>9. CASE Sync
  BY <1>9 DEF Sync, SyncStarts, SyncNotPossible, SyncCompletes, SyncFails
<1>10. CASE Logout
  BY <1>10 DEF Logout, RemoteLogout
<1> QED
  BY <1>1, <1>2, <1>3, <1>4, <1>5, <1>6, <1>7, <1>8, <1>9, <1>10 DEF Next, DatabasesInitialised

\* The invariant of types and openings that the theorems below build on.
Base == PageTyped /\ RestTyped /\ Openings

LEMMA BaseInvariant == Spec => []Base
<1>1. Init => Base
  <2>1. Init => PageTyped /\ RestTyped
    BY TypesAtFirst
  <2>2. Init => Openings
    BY IdleTyped DEF Init, Openings
  <2> QED
    BY <2>1, <2>2 DEF Base
<1>2. Base /\ [Next]_vars => Base'
  BY UsersAssumption, TypeInductive, OpeningsInductive DEF Base
<1> QED
  BY <1>1, <1>2, PTL DEF Spec

\* The open database is the one of the user logged in, unless two logins crossed in this
\* page (initDatabasesForSession, initializeAppDatabaseForCurrentUser).
THEOREM OpenDatabaseIsTheSessions == Spec => []DatabaseOfSession
<1>1. Init => DatabaseOfSession
  BY DEF Init, DatabaseOfSession
<1>2. Base /\ DatabaseOfSession /\ [Next]_vars => DatabaseOfSession'
  <2> SUFFICES ASSUME Base, DatabaseOfSession, [Next]_vars
               PROVE  DatabaseOfSession'
    OBVIOUS
  <2>1. CASE Leave \/ LocalReset
    BY <2>1 DEF Leave, LocalReset, DatabaseOfSession
  <2>2. CASE SessionKept
    BY <2>2 DEF SessionKept, DatabaseOfSession
  <2>3. ASSUME NEW n \in Logins, DatabaseOpened(n)
        PROVE  DatabaseOfSession'
    BY <2>3 DEF DatabaseOpened, DatabaseToOpen, DatabaseOfSession, Base, Openings
  <2> QED
    BY <2>1, <2>2, <2>3, SessionSteps
<1> QED
  BY <1>1, <1>2, BaseInvariant, PTL DEF Spec

\* A session from Keycloak is known as one, so that its logout ends it there too, unless a
\* login outlived a logout of the page (checkLogin, logout).
THEOREM RemoteSessionsAreKnown == Spec => []RemoteSessionIsKnown
<1>1. Init => RemoteLogins /\ RemoteSessionIsKnown
  BY IdleTyped DEF Init, RemoteLogins, RemoteSessionIsKnown
<1>2. Base /\ RemoteLogins /\ RemoteSessionIsKnown /\ [Next]_vars
         => (RemoteLogins /\ RemoteSessionIsKnown)'
  <2> SUFFICES ASSUME Base, RemoteLogins, RemoteSessionIsKnown, [Next]_vars
               PROVE  (RemoteLogins /\ RemoteSessionIsKnown)'
    OBVIOUS
  <2>1. RemoteLogins'
    BY UsersAssumption, RemoteLoginsInductive DEF Base
  <2>2. CASE Leave \/ LocalReset
    BY <2>1, <2>2 DEF Leave, LocalReset, RemoteSessionIsKnown
  <2>3. CASE SessionKept
    BY <2>1, <2>3 DEF SessionKept, RemoteSessionIsKnown
  <2>4. ASSUME NEW n \in Logins, DatabaseOpened(n)
        PROVE  RemoteSessionIsKnown'
    BY <2>4 DEF DatabaseOpened, RemoteLogins, RemoteSessionIsKnown
  <2> QED
    BY <2>1, <2>2, <2>3, <2>4, SessionSteps
<1> QED
  BY <1>1, <1>2, BaseInvariant, PTL DEF Spec

-----------------------------------------------------------------------------
(***************************************************************************)
(* The login state.                                                        *)
(***************************************************************************)

\* Who is on the login page with a session has been disturbed.
LoginPages == page = "login" /\ sessionInfo # NoUser => disturbed

\* Whoever the AuthGuard lets into the app has a session and an open database, and a
\* session keeps the login state until the login page is opened again or a remote login
\* fails after an offline one (setLoggedOutIfNotAlready).
THEOREM LoginStateFollowsSession == Spec => []LoginStateOfSession
<1> DEFINE Inv == LoginStateOfSession /\ LoginPages
<1>1. Init => Inv
  BY DEF Init, LoginStateOfSession, LoginPages
<1>2. Base /\ Inv /\ [Next]_vars => Inv'
  <2> SUFFICES ASSUME Base, Inv, [Next]_vars
               PROVE  Inv'
    OBVIOUS
  <2> USE DEF deviceVars, markVars, entityVars, flowVars, sessionVars, syncVars, historyVars, pageVars,
              LoginStateOfSession, LoginPages
  <2>1. CASE UNCHANGED vars
    BY <2>1 DEF vars
  <2>2. CASE PageLoad
    BY <2>2 DEF PageLoad
  <2>3. CASE Leave
    BY <2>3 DEF Leave
  <2>4. CASE LocalReset
    BY <2>4 DEF LocalReset
  <2>5. CASE PageEnds \/ ConnectionChanges \/ SsoSessionEnds
    BY <2>3, <2>5 DEF PageEnds, ConnectionChanges, SsoSessionEnds
  <2>6. CASE OpenLoginWithoutCheck
    <3>1. CASE ClearRemoteSession
      BY <2>3, <3>1 DEF ClearRemoteSession, RemoteLogout
    <3>2. CASE ~ClearRemoteSession
      BY <2>6, <3>2 DEF OpenLoginWithoutCheck
    <3> QED
      BY <3>1, <3>2
  <2>7. CASE RemoteLoginUnavailable
    BY <2>7 DEF RemoteLoginUnavailable, LoginOffered
  <2>8. ASSUME NEW n \in Logins, OpenLogin(n)
        PROVE  Inv'
    BY <2>8 DEF OpenLogin
  <2>9. ASSUME NEW n \in Logins, RemoteLogin(n)
        PROVE  Inv'
    BY <2>9 DEF RemoteLogin, LoginOffered
  <2>10. ASSUME NEW n \in Logins, NEW u \in Users, OfflineLogin(n, u)
         PROVE  Inv'
    BY <2>10 DEF OfflineLogin
  <2>11. ASSUME NEW n \in Logins, KeycloakAnswers(n)
         PROVE  Inv'
    <3>1. CASE KeycloakFindsUser(n)
      BY <3>1 DEF KeycloakFindsUser
    <3>2. CASE CheckFindsNobody(n)
      <4>1. CASE ClearRemoteSession
        BY <2>3, <4>1 DEF ClearRemoteSession, RemoteLogout
      <4>2. CASE ~ClearRemoteSession
        BY <3>2, <4>2 DEF CheckFindsNobody, LoggedOutIfNotAlready
      <4> QED
        BY <4>1, <4>2
    <3>3. CASE RedirectToKeycloak(n)
      BY <2>3, <3>3 DEF RedirectToKeycloak
    <3>4. CASE RemoteLoginFails(n)
      BY <3>4 DEF RemoteLoginFails
    <3> QED
      BY <2>11, <3>1, <3>2, <3>3, <3>4 DEF KeycloakAnswers
  <2>12. ASSUME NEW n \in Logins, DatabasesInitialised(n)
         PROVE  Inv'
    <3>1. CASE ConfigResolved(n)
      BY <3>1 DEF ConfigResolved
    <3>2. CASE DatabaseOpened(n)
      <4>1. opened' = dbConfig /\ dbConfig \in Users /\ dbConfig # NoUser
        BY <3>2, UsersAssumption DEF DatabaseOpened, DatabaseToOpen, Base, Openings
      <4>2. sessionInfo' \in Users /\ sessionInfo' # NoUser
        BY <3>2, UsersAssumption DEF DatabaseOpened, Base, PageTyped, Promises
      <4>3. page' # "login" /\ loginState' = "LOGGED_IN"
        BY <3>2 DEF DatabaseOpened
      <4> QED
        BY <4>1, <4>2, <4>3
    <3>3. CASE DatabaseOpenedAndLeft(n)
      BY <2>3, <3>3 DEF DatabaseOpenedAndLeft, ClearRemoteSession, RemoteLogout
    <3> QED
      BY <2>12, <3>1, <3>2, <3>3 DEF DatabasesInitialised
  <2>13. CASE SetupCompletes \/ \E n \in Logins : EntityLoaded(n)
    BY <2>13 DEF SetupCompletes, EntityLoaded
  <2>14. CASE \E u \in Users : EntityUpdated(u)
    BY <2>14 DEF EntityUpdated
  <2>15. CASE Sync
    BY <2>15 DEF Sync, SyncStarts, SyncNotPossible, SyncCompletes, SyncFails
  <2>16. CASE Logout
    BY <2>3, <2>4, <2>16 DEF Logout, RemoteLogout
  <2> QED
    BY <2>1, <2>2, <2>5, <2>6, <2>7, <2>8, <2>9, <2>10, <2>11, <2>12, <2>13, <2>14, <2>15,
       <2>16 DEF Next
<1> QED
  BY <1>1, <1>2, BaseInvariant, PTL DEF Spec

-----------------------------------------------------------------------------
(***************************************************************************)
(* Who may log in offline.                                                 *)
(***************************************************************************)

\* In a page that has opened one user's database only, the syncs that run, the user who
\* waits for one to complete, and the state of the last are about that database; once the
\* page was reset, the state is not forwarded any more.
SyncsOfOneDatabase ==
    /\ forwarding /\ ~crossed /\ ~mixed =>
          /\ syncing \subseteq {opened}
          /\ syncSaveSubscription \in {NoUser, opened}
          /\ syncState = "COMPLETED" => opened \in synced
    /\ ~forwarding => syncState # "COMPLETED"

\* What the invariant of the syncs is about.
SyncFrame ==
    UNCHANGED <<deviceVars, opened, mixed, unsure, syncVars>> /\ (crossed => crossed')

LEMMA SyncSteps ==
  ASSUME [Next]_vars
  PROVE  \/ SyncFrame \/ Sync
         \/ \E n \in Logins : DatabaseOpened(n) \/ DatabaseOpenedAndLeft(n)
         \/ (Leave \/ LocalReset) /\ UNCHANGED <<offlineUsers, synced, unsure>>
<1> USE DEF deviceVars, markVars, entityVars, flowVars, sessionVars, syncVars, historyVars, pageVars,
            SyncFrame
<1>1. CASE UNCHANGED vars
  BY <1>1 DEF vars
<1>2. CASE PageLoad \/ PageEnds \/ ConnectionChanges \/ SsoSessionEnds \/ RemoteLoginUnavailable
  BY <1>2 DEF PageLoad, PageEnds, ConnectionChanges, SsoSessionEnds, RemoteLoginUnavailable
<1>3. CASE OpenLoginWithoutCheck
  BY <1>3 DEF OpenLoginWithoutCheck, ClearRemoteSession, RemoteLogout
<1>4. ASSUME NEW n \in Logins, OpenLogin(n) \/ RemoteLogin(n) \/ \E u \in Users : OfflineLogin(n, u)
      PROVE  SyncFrame
  BY <1>4 DEF OpenLogin, RemoteLogin, OfflineLogin
<1>5. ASSUME NEW n \in Logins, KeycloakAnswers(n)
      PROVE  SyncFrame \/ (Leave /\ UNCHANGED <<offlineUsers, synced, unsure>>)
  BY <1>5 DEF KeycloakAnswers, KeycloakFindsUser, CheckFindsNobody, RedirectToKeycloak,
              RemoteLoginFails, ClearRemoteSession, RemoteLogout
<1>6. ASSUME NEW n \in Logins, ConfigResolved(n)
      PROVE  SyncFrame
  BY <1>6 DEF ConfigResolved
<1>7. ASSUME NEW n \in Logins, EntityLoaded(n)
      PROVE  SyncFrame
  BY <1>7 DEF EntityLoaded
<1>8. CASE SetupCompletes \/ \E u \in Users : EntityUpdated(u)
  BY <1>8 DEF SetupCompletes, EntityUpdated
<1>9. CASE Logout
  BY <1>9 DEF Logout, RemoteLogout, LocalReset
<1> QED
  BY <1>1, <1>2, <1>3, <1>4, <1>5, <1>6, <1>7, <1>8, <1>9 DEF Next, DatabasesInitialised

\* Whom a login saves at once has a synced database, or is marked as unsure.
LEMMA SavedAtOnceIsSure ==
  ASSUME Base, SyncsOfOneDatabase, OfflineUsersHaveData, NEW n \in Logins,
         login[n].step = "opening", SaveNow(n), synced' = synced
  PROVE  OfflineUsersHaveData'
<1>1. CASE SavedAtOnce(n) = {}
  BY <1>1 DEF SaveNow, OfflineUsersHaveData
<1>2. CASE SavedAtOnce(n) # {}
  <2>1. SavedAtOnce(n) = {login[n].user} /\ syncState = "COMPLETED"
    BY <1>2 DEF SavedAtOnce
  <2>2. CASE crossed \/ mixed \/ Mixes
    BY <2>2 DEF SaveNow, OfflineUsersHaveData
  <2>3. CASE ~(crossed \/ mixed \/ Mixes)
    <3>1. opened \in synced
      BY <2>1, <2>3 DEF SyncsOfOneDatabase
    <3>2. opened # NoUser
      BY <3>1, UsersAssumption DEF Base, RestTyped
    <3>3. opened = dbConfig /\ dbConfig = login[n].user
      BY <2>3, <3>2 DEF Mixes, Base, Openings
    <3> QED
      BY <2>1, <3>1, <3>3 DEF SaveNow, OfflineUsersHaveData
  <2> QED
    BY <2>2, <2>3
<1> QED
  BY <1>1, <1>2

\* Who may log in offline has a completely synced database, unless a login has replaced
\* another one in the page that saved the user (handleRemoteLogin).
THEOREM OfflineUsersAreSynced == Spec => []OfflineUsersHaveData
<1> DEFINE Inv == SyncsOfOneDatabase /\ OfflineUsersHaveData
<1>1. Init => Inv
  BY DEF Init, SyncsOfOneDatabase, OfflineUsersHaveData
<1>2. Base /\ Inv /\ [Next]_vars => Inv'
  <2> SUFFICES ASSUME Base, Inv, [Next]_vars
               PROVE  Inv'
    OBVIOUS
  <2> USE DEF deviceVars, syncVars
  <2>1. CASE SyncFrame
    BY <2>1 DEF SyncFrame, SyncsOfOneDatabase, OfflineUsersHaveData
  <2>2. CASE (Leave \/ LocalReset) /\ UNCHANGED <<offlineUsers, synced, unsure>>
    BY <2>2 DEF Leave, LocalReset, SyncsOfOneDatabase, OfflineUsersHaveData
  <2>3. ASSUME NEW n \in Logins, DatabaseOpened(n)
        PROVE  Inv'
    <3>1. OfflineUsersHaveData'
      BY <2>3, SavedAtOnceIsSure DEF DatabaseOpened
    <3>2. ASSUME forwarding', ~crossed', ~mixed'
          PROVE  /\ syncing' \subseteq {opened'}
                 /\ syncSaveSubscription' \in {NoUser, opened'}
                 /\ syncState' = "COMPLETED" => opened' \in synced'
      <4>1. forwarding /\ ~crossed /\ ~mixed /\ opened \in {NoUser, dbConfig}
        BY <2>3, <3>2 DEF DatabaseOpened, Mixes
      <4>2. opened' = dbConfig /\ dbConfig = login[n].user
        BY <2>3, <4>1 DEF DatabaseOpened, DatabaseToOpen, Base, Openings
      <4>3. /\ syncing \subseteq {opened}
            /\ syncSaveSubscription \in {NoUser, opened}
            /\ syncState = "COMPLETED" => opened \in synced
        BY <4>1 DEF SyncsOfOneDatabase
      <4>4. NoUser \notin syncing /\ NoUser \notin synced
        BY UsersAssumption DEF Base, PageTyped, RestTyped
      <4>5. syncing \subseteq {dbConfig} /\ syncSaveSubscription \in {NoUser, dbConfig}
            /\ (syncState = "COMPLETED" => dbConfig \in synced)
        BY <4>1, <4>3, <4>4
      <4>6. syncSaveSubscription' \in {syncSaveSubscription, login[n].user, NoUser}
        BY <2>3 DEF DatabaseOpened
      <4> QED
        BY <2>3, <4>2, <4>5, <4>6 DEF DatabaseOpened
    <3>3. ~forwarding' => syncState' # "COMPLETED"
      BY <2>3 DEF DatabaseOpened, SyncsOfOneDatabase
    <3> QED
      BY <3>1, <3>2, <3>3 DEF SyncsOfOneDatabase
  <2>4. ASSUME NEW n \in Logins, DatabaseOpenedAndLeft(n)
        PROVE  Inv'
    <3>1. OfflineUsersHaveData'
      BY <2>4, SavedAtOnceIsSure DEF DatabaseOpenedAndLeft
    <3>2. Leave
      BY <2>4 DEF DatabaseOpenedAndLeft, ClearRemoteSession, RemoteLogout
    <3> QED
      BY <3>1, <3>2 DEF Leave, SyncsOfOneDatabase
  <2>5. CASE SyncStarts
    BY <2>5 DEF SyncStarts, historyVars, SyncsOfOneDatabase, OfflineUsersHaveData, sessionVars
  <2>6. CASE SyncNotPossible
    BY <2>6 DEF SyncNotPossible, historyVars, SyncsOfOneDatabase, OfflineUsersHaveData, sessionVars
  <2>7. ASSUME NEW u \in Users, SyncCompletes(u)
        PROVE  Inv'
    <3>1. CASE forwarding /\ ~crossed /\ ~mixed
      <4>1. opened = u /\ syncSaveSubscription \in {NoUser, u}
        BY <2>7, <3>1 DEF SyncCompletes, SyncsOfOneDatabase
      <4>2. {syncSaveSubscription} \cap Users \subseteq {u}
        BY <4>1, UsersAssumption
      <4>3. offlineUsers' \subseteq offlineUsers \cup {u} /\ synced' = synced \cup {u}
        BY <2>7, <3>1, <4>2 DEF SyncCompletes
      <4>4. OfflineUsersHaveData'
        BY <2>7, <3>1, <4>3 DEF SyncCompletes, OfflineUsersHaveData
      <4> QED
        BY <2>7, <3>1, <4>1, <4>3, <4>4 DEF SyncCompletes, SyncsOfOneDatabase, sessionVars
    <3>2. CASE forwarding /\ (crossed \/ mixed)
      BY <2>7, <3>2 DEF SyncCompletes, SyncsOfOneDatabase, OfflineUsersHaveData
    <3>3. CASE ~forwarding
      BY <2>7, <3>3 DEF SyncCompletes, SyncsOfOneDatabase, OfflineUsersHaveData
    <3> QED
      BY <3>1, <3>2, <3>3
  <2>8. ASSUME NEW u \in Users, SyncFails(u)
        PROVE  Inv'
    BY <2>8 DEF SyncFails, historyVars, SyncsOfOneDatabase, OfflineUsersHaveData, sessionVars
  <2> QED
    BY <2>1, <2>2, <2>3, <2>4, <2>5, <2>6, <2>7, <2>8, SyncSteps DEF Sync
<1> QED
  BY <1>1, <1>2, BaseInvariant, PTL DEF Spec

-----------------------------------------------------------------------------
(***************************************************************************)
(* The current user.                                                       *)
(***************************************************************************)

\* All that is under way is of the user logged in, or of a stray; without either, nobody
\* is the current user.
Traces ==
    /\ UnderWay \subseteq {sessionInfo} \cup strays
    /\ sessionInfo = NoUser /\ strays = {} => currentUser = NoUser

\* A step by which no promise comes to wait for the config or for an entity.
UserFrame ==
    /\ UNCHANGED <<sessionInfo, strays, entityVars>>
    /\ \A m \in Logins : login'[m].step \in {"setup", "entity"}
                            => login[m].step = login'[m].step /\ login[m].user = login'[m].user

\* A promise that is changed does not come to wait if its new step is another one.
LEMMA ChangedElsewhere ==
  ASSUME login \in Promises, NEW n \in Logins, NEW p \in LoginPromise,
         login' = [login EXCEPT ![n] = p], p.step \notin {"setup", "entity"},
         UNCHANGED <<sessionInfo, strays, entityVars>>
  PROVE  UserFrame
<1> SUFFICES ASSUME NEW m \in Logins, login'[m].step \in {"setup", "entity"}
             PROVE  login[m].step = login'[m].step /\ login[m].user = login'[m].user
  BY DEF UserFrame
<1>1. m # n
  BY DEF Promises
<1> QED
  BY <1>1, OthersGoOn

LEMMA HiddenElsewhere ==
  ASSUME login \in Promises, NEW m \in Logins
  PROVE  Hidden[m].step = login[m].step /\ Hidden[m].user = login[m].user
<1>1. login[m] \in LoginPromise
  BY DEF Promises
<1> QED
  BY <1>1, PromiseFields DEF Hidden

LEMMA UserSteps ==
  ASSUME UsersAssumption, PageTyped, RestTyped, [Next]_vars
  PROVE  \/ Leave \/ LocalReset \/ SetupCompletes \/ UserFrame
         \/ \E n \in Logins : DatabaseOpened(n) \/ EntityLoaded(n)
         \/ \E u \in Users : EntityUpdated(u)
<1> USE DEF deviceVars, markVars, entityVars, flowVars, sessionVars, syncVars, historyVars, pageVars
<1>0. login \in Promises
  BY DEF PageTyped
<1>1. CASE UNCHANGED vars
  BY <1>1 DEF vars, UserFrame
<1>2. CASE PageLoad \/ PageEnds \/ ConnectionChanges \/ SsoSessionEnds \/ RemoteLoginUnavailable
  BY <1>2 DEF PageLoad, PageEnds, ConnectionChanges, SsoSessionEnds, RemoteLoginUnavailable,
              UserFrame
<1>3. CASE OpenLoginWithoutCheck
  <2>1. CASE ClearRemoteSession
    BY <2>1 DEF ClearRemoteSession, RemoteLogout
  <2>2. CASE ~ClearRemoteSession
    BY <1>0, <1>3, <2>2, HiddenElsewhere DEF OpenLoginWithoutCheck, UserFrame
  <2> QED
    BY <2>1, <2>2
<1>4. ASSUME NEW n \in Logins, OpenLogin(n)
      PROVE  UserFrame
  <2>1. Hidden \in Promises
    BY <1>0, HiddenTyped
  <2>2. PICK p \in LoginPromise : p.step = "keycloak" /\ login' = [Hidden EXCEPT ![n] = p]
    <3>1. [kind |-> "check", user |-> NoUser, step |-> "keycloak", shown |-> TRUE]
             \in LoginPromise
      BY DEF LoginPromise, MaybeUser, LoginSteps
    <3> QED
      BY <1>4, <3>1 DEF OpenLogin
  <2>3. ASSUME NEW m \in Logins, login'[m].step \in {"setup", "entity"}
        PROVE  login[m].step = login'[m].step /\ login[m].user = login'[m].user
    <3>1. m # n
      BY <2>1, <2>2, <2>3 DEF Promises
    <3>2. login'[m] = Hidden[m]
      BY <2>1, <2>2, <3>1, OthersGoOn
    <3> QED
      BY <1>0, <3>2, HiddenElsewhere
  <2> QED
    BY <1>4, <2>3 DEF OpenLogin, UserFrame
<1>5. ASSUME NEW n \in Logins, RemoteLogin(n)
      PROVE  UserFrame
  <2>1. [kind |-> "remote", user |-> NoUser, step |-> "keycloak", shown |-> FALSE]
           \in LoginPromise
    BY DEF LoginPromise, MaybeUser, LoginSteps
  <2> QED
    BY <1>0, <1>5, <2>1, ChangedElsewhere DEF RemoteLogin
<1>6. ASSUME NEW n \in Logins, NEW u \in Users, OfflineLogin(n, u)
      PROVE  UserFrame
  <2>1. [kind |-> "offline", user |-> u, step |-> "config", shown |-> FALSE] \in LoginPromise
    BY DEF LoginPromise, MaybeUser, LoginSteps
  <2> QED
    BY <1>0, <1>6, <2>1, ChangedElsewhere DEF OfflineLogin
<1>7. ASSUME NEW n \in Logins, KeycloakAnswers(n)
      PROVE  Leave \/ UserFrame
  <2>1. CASE KeycloakFindsUser(n)
    <3>1. ASSUME NEW m \in Logins, login'[m].step \in {"setup", "entity"}
          PROVE  login'[m] = login[m]
      BY <1>0, <2>1, <3>1 DEF KeycloakFindsUser, Promises, LoginPromise
    <3> QED
      BY <2>1, <3>1 DEF KeycloakFindsUser, UserFrame
  <2>2. CASE CheckFindsNobody(n)
    <3>1. CASE ClearRemoteSession
      BY <3>1 DEF ClearRemoteSession, RemoteLogout
    <3>2. CASE ~ClearRemoteSession
      BY <1>0, <2>2, <3>2, IdleTyped, ChangedElsewhere DEF CheckFindsNobody, EndOf
    <3> QED
      BY <3>1, <3>2
  <2>3. CASE RedirectToKeycloak(n)
    BY <2>3 DEF RedirectToKeycloak
  <2>4. CASE RemoteLoginFails(n)
    BY <1>0, <2>4, IdleTyped, ChangedElsewhere DEF RemoteLoginFails, EndOf
  <2> QED
    BY <1>7, <2>1, <2>2, <2>3, <2>4 DEF KeycloakAnswers
<1>8. ASSUME NEW n \in Logins, ConfigResolved(n)
      PROVE  UserFrame
  <2>1. ASSUME NEW m \in Logins, login'[m].step \in {"setup", "entity"}
        PROVE  login'[m] = login[m]
    BY <1>0, <1>8, <2>1 DEF ConfigResolved, Promises, LoginPromise
  <2> QED
    BY <1>8, <2>1 DEF ConfigResolved, UserFrame
<1>9. ASSUME NEW n \in Logins, DatabaseOpenedAndLeft(n)
      PROVE  Leave
  BY <1>9 DEF DatabaseOpenedAndLeft, ClearRemoteSession, RemoteLogout
<1>10. CASE Sync
  BY <1>10 DEF Sync, SyncStarts, SyncNotPossible, SyncCompletes, SyncFails, UserFrame
<1>11. CASE Logout
  BY <1>11 DEF Logout, RemoteLogout
<1> QED
  BY <1>1, <1>2, <1>3, <1>4, <1>5, <1>6, <1>7, <1>8, <1>9, <1>10, <1>11
     DEF Next, DatabasesInitialised

\* Whose entity is to be loaded, or delivers updates, was under way before.
LEMMA InitUserEntityTraces ==
  ASSUME NEW P \in SUBSET Logins, NEW promises \in Promises,
         \A n \in P : promises[n].step = "setup",
         InitUserEntity(P, promises)
  PROVE  /\ UnderWay' \subseteq
              {promises[n].user : n \in {m \in Logins : promises[m].step \in {"setup", "entity"}}}
              \cup (({updateSubscription, currentUser} \cup otherUpdates) \cap Users)
              \cup ({NoEntity} \cap Users)
         /\ P = {} => currentUser' = currentUser
<1> DEFINE linked == {n \in P : promises[n].user \in Linked}
           waiting == {m \in Logins : promises[m].step \in {"setup", "entity"}}
           before == {promises[n].user : n \in waiting}
                        \cup (({updateSubscription, currentUser} \cup otherUpdates) \cap Users)
                        \cup ({NoEntity} \cap Users)
<1>1. \A n \in P : n \in waiting /\ promises[n].user \in before
  OBVIOUS
<1>2. ASSUME NEW n \in Logins, login'[n].step \in {"setup", "entity"}
      PROVE  login'[n].user \in before
  <2>1. login'[n] = IF n \in linked THEN [promises[n] EXCEPT !.step = "entity"]
                    ELSE IF n \in P THEN IdleLogin ELSE promises[n]
    BY DEF InitUserEntity
  <2>2. CASE n \in linked
    <3>1. promises[n] \in LoginPromise /\ "entity" \in LoginSteps
      BY DEF Promises, LoginSteps
    <3>2. login'[n].user = promises[n].user
      BY <2>1, <2>2, <3>1 DEF LoginPromise
    <3> QED
      BY <1>1, <2>2, <3>2
  <2>3. CASE n \notin linked
    <3>1. n \notin P /\ login'[n] = promises[n]
      BY <1>2, <2>1, <2>3, IdleTyped
    <3> QED
      BY <1>2, <3>1
  <2> QED
    BY <2>2, <2>3
<1>3. currentUser' \in {currentUser, NoEntity}
  BY DEF InitUserEntity
<1>4. ({updateSubscription'} \cup otherUpdates') \cap Users \subseteq before
  <2>1. CASE linked = {}
    BY <2>1 DEF InitUserEntity
  <2>2. CASE linked # {}
    <3>1. PICK last \in linked :
             /\ updateSubscription' = promises[last].user
             /\ otherUpdates' = otherUpdates \cup ({updateSubscription} \cap Users)
                                  \cup {promises[n].user : n \in linked \ {last}}
      BY <2>2 DEF InitUserEntity
    <3> QED
      BY <1>1, <3>1
  <2> QED
    BY <2>1, <2>2
<1>5. UnderWay' \subseteq before
  <2> HIDE DEF before
  <2>1. {currentUser'} \cap Users \subseteq before
    BY <1>3 DEF before
  <2> QED
    BY <1>2, <1>4, <2>1 DEF UnderWay
<1>6. P = {} => currentUser' = currentUser
  BY DEF InitUserEntity
<1> QED
  BY <1>5, <1>6

\* The current user is the user logged in, or a stray: one of whom something was still
\* under way when the session ended or was replaced (initUserEntity, logout).
THEOREM CurrentUserIsTheSessions == Spec => []UserOfSession
<1>1. Init => Traces
  BY IdleTyped, UsersAssumption DEF Init, Traces, UnderWay
<1>2. Base /\ Traces /\ [Next]_vars => Traces'
  <2> SUFFICES ASSUME Base, Traces, [Next]_vars
               PROVE  Traces'
    OBVIOUS
  <2>0. login \in Promises /\ NoUser \notin Users /\ NoEntity \notin Users
    BY UsersAssumption DEF Base, PageTyped
  <2>1. CASE Leave
    BY <2>0, <2>1, IdleTyped DEF Leave, Traces, UnderWay
  <2>2. CASE LocalReset
    <3>1. ASSUME NEW n \in Logins, login'[n].step \in {"setup", "entity"}
          PROVE  login'[n].user \in strays'
      <4>1. login'[n] = login[n] /\ login[n].step = "entity"
        BY <2>2, <3>1, IdleTyped DEF LocalReset, PromisesAfterLogout
      <4> QED
        BY <2>2, <4>1 DEF LocalReset
    <3>2. otherUpdates' \subseteq strays' /\ currentUser' = NoUser /\ updateSubscription' = NoUser
      BY <2>2 DEF LocalReset
    <3> QED
      BY <2>0, <3>1, <3>2 DEF Traces, UnderWay
  <2>3. CASE SetupCompletes
    <3> DEFINE P == {n \in Logins : login[n].step = "setup"}
    <3>1. InitUserEntity(P, login) /\ UNCHANGED <<sessionInfo, strays>>
      BY <2>3 DEF SetupCompletes, sessionVars, historyVars
    <3>2. UnderWay' \subseteq UnderWay /\ (P = {} => currentUser' = currentUser)
      BY <2>0, <3>1, InitUserEntityTraces DEF UnderWay
    <3>3. ASSUME sessionInfo = NoUser, strays = {}
          PROVE  P = {}
      <4>1. \A n \in P : login[n].user \in UnderWay /\ login[n].user \in Users
        BY <2>0 DEF UnderWay, Promises
      <4> QED
        BY <2>0, <3>3, <4>1 DEF Traces
    <3> QED
      BY <3>1, <3>2, <3>3 DEF Traces
  <2>4. ASSUME NEW n \in Logins, DatabaseOpened(n)
        PROVE  Traces'
    <3> DEFINE promises == [login EXCEPT ![n].step = "setup"]
               u == login[n].user
    <3>1. login[n].step = "opening" /\ u \in Users
      BY <2>0, <2>4 DEF DatabaseOpened, Promises
    <3>2. promises \in Promises /\ promises[n].step = "setup"
      BY <2>0, <3>1, StepTaken DEF LoginSteps
    <3>3. promises[n].user = u /\ \A m \in Logins \ {n} : promises[m] = login[m]
      BY <2>0, <3>1 DEF Promises, LoginPromise
    <3>4. {promises[m].user : m \in {k \in Logins : promises[k].step \in {"setup", "entity"}}}
             \cup (({updateSubscription, currentUser} \cup otherUpdates) \cap Users)
             \subseteq UnderWay \cup {u}
      <4> HIDE DEF promises, u
      <4> QED
        BY <3>3 DEF UnderWay
    <3>5. UnderWay' \subseteq UnderWay \cup {u}
      <4>1. CASE setupCompleted
        <5>1. InitUserEntity({n}, promises)
          BY <2>4, <4>1 DEF DatabaseOpened
        <5> HIDE DEF promises, u
        <5> QED
          BY <2>0, <3>2, <3>4, <5>1, InitUserEntityTraces
      <4>2. CASE ~setupCompleted
        <5>1. login' = promises /\ UNCHANGED entityVars
          BY <2>4, <4>2 DEF DatabaseOpened
        <5> HIDE DEF promises, u
        <5> QED
          BY <3>4, <5>1 DEF UnderWay, entityVars
      <4> QED
        BY <4>1, <4>2
    <3>6. UnderWay \subseteq Users
      BY <2>0 DEF UnderWay, Promises
    <3>7. sessionInfo' = u /\ UnderWay \ {u} \subseteq strays'
      BY <2>0, <2>4, <3>6 DEF DatabaseOpened, Traces
    <3> QED
      BY <2>0, <3>1, <3>5, <3>7 DEF Traces
  <2>5. ASSUME NEW n \in Logins, EntityLoaded(n)
        PROVE  Traces'
    <3>1. login[n].user \in UnderWay /\ login[n].user \in Users
      BY <2>0, <2>5 DEF EntityLoaded, UnderWay, Promises
    <3>2. \A m \in Logins : m # n => login'[m] = login[m]
      BY <2>0, <2>5, IdleTyped, OthersGoOn DEF EntityLoaded, EndOf
    <3>3. login'[n].step = "idle"
      BY <2>0, <2>5, IdleTyped DEF EntityLoaded, EndOf, Promises
    <3>4. UnderWay' \subseteq UnderWay
      BY <2>0, <2>5, <3>1, <3>2, <3>3 DEF EntityLoaded, UnderWay
    <3>5. ~(sessionInfo = NoUser /\ strays = {})
      BY <2>0, <3>1 DEF Traces
    <3> QED
      BY <2>5, <3>4, <3>5 DEF EntityLoaded, Traces, sessionVars, historyVars
  <2>6. ASSUME NEW u \in Users, EntityUpdated(u)
        PROVE  Traces'
    <3>1. u \in UnderWay
      BY <2>6 DEF EntityUpdated, UnderWay
    <3>2. UnderWay' \subseteq UnderWay
      BY <2>6, <3>1 DEF EntityUpdated, UnderWay
    <3>3. ~(sessionInfo = NoUser /\ strays = {})
      BY <2>0, <3>1 DEF Traces
    <3> QED
      BY <2>6, <3>2, <3>3 DEF EntityUpdated, Traces, sessionVars, historyVars
  <2>7. CASE UserFrame
    <3>1. UnderWay' \subseteq UnderWay
      BY <2>7 DEF UserFrame, UnderWay, entityVars
    <3> QED
      BY <2>7, <3>1 DEF UserFrame, Traces, entityVars
  <2> QED
    BY <2>1, <2>2, <2>3, <2>4, <2>5, <2>6, <2>7, UserSteps, UsersAssumption DEF Base
<1>3. Traces => UserOfSession
  BY DEF Traces, UserOfSession, UnderWay
<1> QED
  BY <1>1, <1>2, <1>3, BaseInvariant, PTL DEF Spec
=============================================================================
