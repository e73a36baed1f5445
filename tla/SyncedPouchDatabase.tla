------------------------ MODULE SyncedPouchDatabase ------------------------
(***************************************************************************)
(* One local database of the app and its synchronisation with the server:  *)
(* SyncedPouchDatabase (on top of PouchDatabase) and the lost-permission   *)
(* bookkeeping of the RemotePouchDatabase it owns.                         *)
(*                                                                         *)
(* Several sync() promises may be under way at once: the live sync, an     *)
(* ensureSynced() and a resetSync() do not exclude each other.  Each is a  *)
(* member of Calls and runs the steps between two awaits of the code as    *)
(* separate actions.  PouchDB's replication itself is external and is      *)
(* modelled by what the code relies on: batches read from _changes since a *)
(* checkpoint, stored with the checkpoint of the batch, local revisions    *)
(* pushed one by one, refused ones left behind.                            *)
(*                                                                         *)
(* Document contents are abstracted to the number of the last server       *)
(* change the device has seen, and whether there are local revisions the   *)
(* server does not have.                                                   *)
(***************************************************************************)
EXTENDS Integers

CONSTANTS
    Docs,               \* document ids
    Calls,              \* sync() promises that may be pending at the same time
    InitialServers,     \* what may be on the server at first: seq, [Docs -> Nat] with
                        \* 0 = absent, and its update sequence last
    LegacyAdapter,      \* the local database runs on the "idb" adapter
    IsNotificationsDb,  \* isNotificationsDatabase()
    Grants,             \* access to a document may also be (re)gained
    MaxEdits,           \* bound: changes made by users, on the server or here
    MaxFaults,          \* bound: failures that are not due to being offline
    MaxSessions         \* bound: logins and page loads

ASSUME InitialServersAssumption ==
    \A i \in InitialServers :
        /\ i.seq \in [Docs -> Nat] /\ i.last \in Nat
        /\ \A d \in Docs : i.seq[d] <= i.last
ASSUME FlagsAssumption ==
    LegacyAdapter \in BOOLEAN /\ IsNotificationsDb \in BOOLEAN /\ Grants \in BOOLEAN
ASSUME BoundsAssumption ==
    MaxEdits \in Nat /\ MaxFaults \in Nat /\ MaxSessions \in Nat

VARIABLES
    \* the server
    updateSeq,     \* sequence number of its latest change
    server,        \* per document: seq of its latest change, access of this user
    \* kept on the device across page loads
    local,         \* per document: what the local database holds of it
    checkpoint,    \* the pull checkpoint of the replication
    lastSync,      \* the LAST_SYNC marker in localStorage is set
    \* the page
    online,        \* navigator.onLine
    loggedIn,      \* LoginState.LOGGED_IN
    db,            \* "closed", "open", "destroying" or "destroyed"
    alive,         \* destroy$ has not fired: the constructor's subscriptions live
    pipelines,     \* number of running liveSync() pipelines
    syncState,     \* this database's SyncState
    trackLost,     \* remoteDatabase.trackLostPermissions
    pendingLost,   \* remoteDatabase.pendingLostPermissions
    call,          \* the state of each sync() promise, with three history fields for the
                   \* properties: owedSeq, owedDocs (what there was to transfer at its
                   \* start) and reported (the lost access it was told of)
    \* budgets of the environment
    edits, faults, sessions,
    \* history, read by properties only
    missed         \* reports of lost access that came to nothing: dropped by the client,
                   \* or the document arrived once more from an overlapping sync

serverVars == <<updateSeq, server>>
deviceVars == <<local, checkpoint>>
pageVars   == <<loggedIn, db, alive, pipelines>>
stateVars  == <<syncState, lastSync>>
lostVars   == <<trackLost, pendingLost>>
budgetVars == <<edits, faults, sessions>>
vars == <<serverVars, deviceVars, pageVars, stateVars, lostVars, budgetVars,
          online, call, missed>>

-----------------------------------------------------------------------------
SyncState == {"UNSYNCED", "STARTED", "COMPLETED", "FAILED"}
Access == {"none", "read", "write"}

\* A document missing from the local database (or purged from it)
Absent == [held |-> FALSE, seen |-> 0, unsent |-> "no"]

NoBatch == [d \in Docs |-> 0]

IdleCall == [pc |-> "idle", first |-> FALSE, full |-> FALSE, since |-> 0,
             upto |-> 0, got |-> NoBatch, dirs |-> {}, toPurge |-> {},
             handle |-> FALSE, owedSeq |-> 0, owedDocs |-> {}, reported |-> {}]

DocState == [held : BOOLEAN, seen : Nat, unsent : {"no", "yes", "refused"}]

CallState ==
    [pc : {"idle", "awaitOpen", "info", "replicating", "purging"},
     first : BOOLEAN, full : BOOLEAN, since : Nat, upto : Nat,
     got : [Docs -> Nat], dirs : SUBSET {"pull", "push"}, toPurge : SUBSET Docs,
     handle : BOOLEAN,  \* the purge() under way has been given the database
     owedSeq : Nat, owedDocs : SUBSET Docs, reported : SUBSET Docs]

TypeOK ==
    /\ updateSeq \in Nat
    /\ server \in [Docs -> [seq : Nat, access : Access]]
    /\ local \in [Docs -> DocState]
    /\ checkpoint \in Nat
    /\ lastSync \in BOOLEAN /\ online \in BOOLEAN /\ loggedIn \in BOOLEAN
    /\ db \in {"closed", "open", "destroying", "destroyed"}
    /\ alive \in BOOLEAN
    /\ pipelines \in Nat
    /\ syncState \in SyncState
    /\ trackLost \in BOOLEAN
    /\ pendingLost \in SUBSET Docs
    /\ call \in [Calls -> CallState]
    /\ edits \in Nat /\ faults \in Nat /\ sessions \in Nat
    /\ missed \in SUBSET Docs

\* A page is loaded and nobody is logged in; the device was never used before.
Init ==
    /\ \E i \in InitialServers :
          /\ server = [d \in Docs |-> [seq |-> i.seq[d], access |-> "write"]]
          /\ updateSeq = i.last
    /\ local = [d \in Docs |-> Absent]
    /\ checkpoint = 0
    /\ lastSync = FALSE
    /\ online \in BOOLEAN
    /\ loggedIn = FALSE /\ db = "closed" /\ alive = TRUE /\ pipelines = 0
    /\ syncState = "UNSYNCED"
    /\ trackLost = FALSE /\ pendingLost = {}
    /\ call = [c \in Calls |-> IdleCall]
    /\ edits = 0 /\ faults = 0 /\ sessions = 0
    /\ missed = {}

-----------------------------------------------------------------------------
(***************************************************************************)
(* The users: changes on the server and in the local database.             *)
(***************************************************************************)

\* What the access of this user may become by a change of the document.
AccessAfter(a) ==
    IF Grants THEN Access
    ELSE {b \in Access : b = "none" \/ b = a \/ a = "write"}

\* Somebody else changes a document, which may move it in or out of what the
\* user of this device may read (conditional permission rules).
ServerChange(d) ==
    /\ edits < MaxEdits
    /\ server[d].seq > 0 \/ ~local[d].held
    /\ updateSeq' = updateSeq + 1
    /\ \E a \in AccessAfter(server[d].access) :
          server' = [server EXCEPT ![d] = [seq |-> updateSeq + 1, access |-> a]]
    /\ edits' = edits + 1
    /\ UNCHANGED <<deviceVars, pageVars, stateVars, lostVars, faults, sessions,
                   online, call, missed>>

\* The user of this device creates or edits a document (PouchDatabase.put).
LocalEdit(d) ==
    /\ edits < MaxEdits
    /\ loggedIn /\ db = "open"
    /\ local[d].held \/ server[d].seq = 0
    /\ local' = [local EXCEPT ![d] = [local[d] EXCEPT !.held = TRUE, !.unsent = "yes"]]
    /\ call' = [c \in Calls |-> [call[c] EXCEPT !.owedDocs = @ \ {d}]]
    /\ edits' = edits + 1
    /\ UNCHANGED <<serverVars, checkpoint, pageVars, stateVars, lostVars, faults,
                   sessions, online, missed>>

\* Failures, connection losses included, are limited by a budget.
UseFault ==
    /\ faults < MaxFaults
    /\ faults' = faults + 1
    /\ UNCHANGED <<edits, sessions>>

GoOffline ==
    /\ online /\ online' = FALSE
    /\ UseFault
    /\ UNCHANGED <<serverVars, deviceVars, pageVars, stateVars, lostVars,
                   call, missed>>

GoOnline ==
    /\ ~online /\ online' = TRUE
    /\ UNCHANGED <<serverVars, deviceVars, pageVars, stateVars, lostVars,
                   budgetVars, call, missed>>

-----------------------------------------------------------------------------
(***************************************************************************)
(* sync()                                                                  *)
(***************************************************************************)

\* syncState.next(s), and the subscription that stores the LAST_SYNC marker.
Emit(s) ==
    /\ syncState' = s
    /\ lastSync' = (lastSync \/ (alive /\ s = "COMPLETED"))

\* Mutant: tracking resumes at the end of a successful first sync only.
SettlesWithoutFinally(c, state) ==
    /\ Emit(state)
    /\ call' = [call EXCEPT ![c] = IdleCall]
    /\ trackLost' = (trackLost \/ (call[c].first /\ state = "COMPLETED"))
    /\ UNCHANGED <<serverVars, deviceVars, pageVars, pendingLost, online, missed>>

\* The promise of a started sync settles: the state is emitted, and the finally
\* block runs.
Settles(c, state) ==
    /\ Emit(state)
    /\ call' = [call EXCEPT ![c] = IdleCall]
    /\ trackLost' = (trackLost \/ call[c].first)
    /\ UNCHANGED <<serverVars, deviceVars, pageVars, pendingLost, online, missed>>

\* Steps that concern nothing but the call
CallOnly == UNCHANGED <<serverVars, deviceVars, pageVars, stateVars, lostVars,
                        budgetVars, online, missed>>

\* sync(), up to its first await.
Sync(c, full) ==
    /\ call[c].pc = "idle"
    /\ \/ /\ ~online
          /\ Emit("UNSYNCED")
          /\ UNCHANGED call
       \/ /\ online
          /\ call' = [call EXCEPT ![c] = [IdleCall EXCEPT
                        !.pc = IF db = "closed" THEN "awaitOpen" ELSE "info",
                        !.full = full]]
          /\ UNCHANGED stateVars
    /\ UNCHANGED <<serverVars, deviceVars, pageVars, lostVars, budgetVars,
                   online, missed>>

\* Mutant: a failed sync ends the live sync.
LiveSyncGivesUp(c) ==
    /\ pipelines > 0
    /\ syncState \notin {"STARTED", "FAILED"}
    /\ Sync(c, FALSE)

\* One trigger of liveSync(): at once, after SYNC_INTERVAL or on a change.
LiveSync(c) ==
    /\ pipelines > 0
    /\ syncState # "STARTED"
    /\ Sync(c, FALSE)

\* The other callers run in a session, or go on after its logout.
InOrAfterSession == loggedIn \/ ~alive

\* ensureSynced() throws when offline, instead of calling sync().
EnsureSynced(c) ==
    /\ InOrAfterSession
    /\ online
    /\ Sync(c, FALSE)

\* resetSync(): a sync with checkpoint: false
ResetSync(c) ==
    /\ InOrAfterSession
    /\ Sync(c, TRUE)

\* A request to the server fails: always when offline.
RequestFails == IF online THEN UseFault ELSE UNCHANGED budgetVars

\* localDb.info() rejects, e.g. because IndexedDB is broken.
InfoFails(c) ==
    /\ call[c].pc = "info"
    /\ \/ db \in {"destroying", "destroyed"} /\ UNCHANGED budgetVars
       \/ UseFault
    /\ call' = [call EXCEPT ![c] = IdleCall]
    /\ Emit("FAILED")
    /\ UNCHANGED <<serverVars, deviceVars, pageVars, lostVars, online, missed>>

\* Mutant: the reports of an earlier sync are cleared when the next one starts.
StartReplicationForgets(c) ==
    LET isFirstSync == \A d \in Docs : ~local[d].held
    IN /\ call[c].pc = "info"
       /\ db # "destroyed"
       /\ trackLost' = (trackLost /\ ~isFirstSync)
       /\ pendingLost' = {}
       /\ Emit("STARTED")
       /\ call' = [call EXCEPT ![c] = [call[c] EXCEPT
                     !.pc = "replicating", !.first = isFirstSync,
                     !.since = IF call[c].full THEN 0 ELSE checkpoint,
                     !.dirs = {"pull", "push"},
                     !.owedSeq = updateSeq,
                     !.owedDocs = {d \in Docs : local[d].unsent = "yes"}]]
       /\ UNCHANGED <<serverVars, deviceVars, pageVars, budgetVars, online, missed>>

\* localDb.info() resolves: the sync starts, and PouchDB reads its checkpoint.
StartReplication(c) ==
    LET isFirstSync == \A d \in Docs : ~local[d].held
    IN /\ call[c].pc = "info"
       /\ db # "destroyed"
       /\ trackLost' = (trackLost /\ ~isFirstSync)
       /\ Emit("STARTED")
       /\ call' = [call EXCEPT ![c] = [call[c] EXCEPT
                     !.pc = "replicating", !.first = isFirstSync,
                     !.since = IF call[c].full THEN 0 ELSE checkpoint,
                     !.dirs = {"pull", "push"},
                     !.owedSeq = updateSeq,
                     !.owedDocs = {d \in Docs : local[d].unsent = "yes"}]]
       /\ UNCHANGED <<serverVars, deviceVars, pageVars, pendingLost, budgetVars,
                      online, missed>>

Replicating(c, dir) ==
    /\ call[c].pc = "replicating"
    /\ dir \in call[c].dirs
    /\ db # "destroyed"

\* Documents that a sync has fetched and not stored yet
Arriving == {d \in Docs : \E c \in Calls : call[c].got[d] > 0}

\* A _changes response: documents the user may read are fetched, the others
\* are reported in lostPermissions, which defaultFetch collects.
FetchBatch(c) ==
    /\ Replicating(c, "pull") /\ online
    /\ call[c].upto = 0
    /\ \E upto \in (call[c].since + 1)..updateSeq :
          LET changed == {d \in Docs : call[c].since < server[d].seq /\ server[d].seq <= upto}
              lost == {d \in changed : server[d].access = "none"}
          IN /\ call' = [call EXCEPT ![c] = [call[c] EXCEPT
                           !.upto = upto,
                           !.reported = IF trackLost THEN @ \cup lost ELSE @,
                           !.got = [d \in Docs |-> IF d \in changed \ lost
                                                   THEN server[d].seq ELSE 0]]]
             /\ IF trackLost
                THEN pendingLost' = pendingLost \cup lost /\ UNCHANGED missed
                ELSE missed' = missed \cup {d \in lost : local[d].held \/ d \in Arriving}
                     /\ UNCHANGED pendingLost
    /\ UNCHANGED <<serverVars, deviceVars, pageVars, stateVars, trackLost,
                   budgetVars, online>>

\* Mutant: the batch is written over what an overlapping sync has stored since.
StoreBatchOverwrites(c) ==
    /\ Replicating(c, "pull")
    /\ call[c].upto > 0
    /\ local' = [d \in Docs |->
          IF call[c].got[d] > 0
          THEN [local[d] EXCEPT !.held = TRUE, !.seen = call[c].got[d]]
          ELSE local[d]]
    /\ checkpoint' = IF call[c].full THEN checkpoint ELSE call[c].upto
    /\ call' = [call EXCEPT ![c] = [call[c] EXCEPT
                  !.since = call[c].upto, !.upto = 0, !.got = NoBatch]]
    /\ UNCHANGED <<serverVars, pageVars, stateVars, lostVars, budgetVars,
                   online, missed>>

\* Mutant: the checkpoint is the server's sequence, not that of the batch.
StoreBatchTooFar(c) ==
    /\ Replicating(c, "pull")
    /\ call[c].upto > 0
    /\ local' = [d \in Docs |->
          IF call[c].got[d] > 0
          THEN [local[d] EXCEPT !.held = TRUE, !.seen = call[c].got[d]]
          ELSE local[d]]
    /\ checkpoint' = IF call[c].full THEN checkpoint ELSE updateSeq
    /\ call' = [call EXCEPT ![c] = [call[c] EXCEPT
                  !.since = call[c].upto, !.upto = 0, !.got = NoBatch]]
    /\ UNCHANGED <<serverVars, pageVars, stateVars, lostVars, budgetVars,
                   online, missed>>

\* The batch is written, with its checkpoint unless the sync ignores those.
StoreBatch(c) ==
    /\ Replicating(c, "pull")
    /\ call[c].upto > 0
    /\ local' = [d \in Docs |->
          IF call[c].got[d] > 0
          THEN [local[d] EXCEPT !.held = TRUE,
                  !.seen = IF @ < call[c].got[d] THEN call[c].got[d] ELSE @]
          ELSE local[d]]
    /\ checkpoint' = IF call[c].full THEN checkpoint ELSE call[c].upto
    /\ call' = [call EXCEPT ![c] = [call[c] EXCEPT
                  !.since = call[c].upto, !.upto = 0, !.got = NoBatch]]
    /\ UNCHANGED <<serverVars, pageVars, stateVars, lostVars, budgetVars,
                   online, missed>>

\* _changes has nothing more to report.
PullDone(c) ==
    /\ Replicating(c, "pull") /\ online
    /\ call[c].upto = 0 /\ call[c].since >= updateSeq
    /\ call' = [call EXCEPT ![c] = [call[c] EXCEPT !.dirs = @ \ {"pull"}, !.since = 0]]
    /\ CallOnly

\* Local revisions the push direction still has to send.
ToPush(c) ==
    {d \in Docs : \/ local[d].unsent = "yes"
                  \/ local[d].unsent = "refused" /\ call[c].full
                     /\ server[d].access = "write"}

\* The server takes the local revisions of a document, or refuses them with a
\* "denied" event, which leaves the change in the local database only.
PushDoc(c, d) ==
    /\ Replicating(c, "push") /\ online
    /\ d \in ToPush(c)
    /\ \/ /\ server[d].access = "write"
          /\ updateSeq' = updateSeq + 1
          /\ server' = [server EXCEPT ![d].seq = updateSeq + 1]
          /\ local' = [local EXCEPT ![d] = [local[d] EXCEPT !.unsent = "no",
                          !.seen = IF @ = server[d].seq THEN updateSeq + 1 ELSE @]]
       \/ /\ server[d].access # "write"
          /\ local' = [local EXCEPT ![d].unsent = "refused"]
          /\ UNCHANGED serverVars
    /\ UNCHANGED <<checkpoint, pageVars, stateVars, lostVars, budgetVars,
                   online, call, missed>>

PushDone(c) ==
    /\ Replicating(c, "push") /\ online
    /\ ToPush(c) = {}
    /\ call' = [call EXCEPT ![c].dirs = @ \ {"push"}]
    /\ CallOnly

\* The replication resolved.  After a first sync nothing is purged.
FirstSyncCompletes(c) ==
    /\ call[c].pc = "replicating" /\ call[c].dirs = {} /\ call[c].first
    /\ Settles(c, "COMPLETED")
    /\ UNCHANGED budgetVars

\* purgeDocsWithLostPermissions() takes the collected reports.  The legacy
\* adapter cannot purge, the reports are dropped.
StartPurge(c) ==
    /\ call[c].pc = "replicating" /\ call[c].dirs = {} /\ ~call[c].first
    /\ pendingLost' = {}
    /\ call' = [call EXCEPT ![c] = [call[c] EXCEPT !.pc = "purging",
                  !.handle = (db # "closed"),
                  !.toPurge = IF LegacyAdapter THEN {} ELSE pendingLost]]
    /\ missed' = IF LegacyAdapter THEN missed \cup pendingLost ELSE missed
    /\ UNCHANGED <<serverVars, deviceVars, pageVars, stateVars, trackLost,
                   budgetVars, online>>

\* One purge(), once getPouchDBOnceReady() has given it the database: between a
\* logout and the next login it waits, and the stall timer no longer guards it.  When
\* it fails that is only logged, and the report is dropped.
PurgeDoc(c, d) ==
    /\ call[c].pc = "purging" /\ d \in call[c].toPurge /\ call[c].handle
    /\ call' = [call EXCEPT ![c] = [call[c] EXCEPT
                  !.handle = (db # "closed"), !.toPurge = @ \ {d}]]
    /\ \/ /\ db \in {"open", "closed"}
          /\ local' = [local EXCEPT ![d] = Absent]
          /\ missed' = missed \cup ({d} \cap Arriving)
          /\ UNCHANGED budgetVars
       \/ /\ \/ db \in {"destroying", "destroyed"} /\ UNCHANGED budgetVars
             \/ UseFault
          /\ missed' = missed \cup {d}
          /\ UNCHANGED local
    /\ UNCHANGED <<serverVars, checkpoint, pageVars, stateVars, lostVars,
                   online>>

SyncCompletes(c) ==
    /\ call[c].pc = "purging" /\ call[c].toPurge = {}
    /\ Settles(c, "COMPLETED")
    /\ UNCHANGED budgetVars

\* The replication fails; the call rejects.  Reports of lost access that it
\* has collected stay in pendingLost.
SyncFails(c) ==
    /\ call[c].pc = "replicating" /\ call[c].dirs # {}
    /\ IF db = "destroyed" THEN UNCHANGED budgetVars ELSE RequestFails
    /\ Settles(c, "FAILED")

\* Mutant: the replication is cancelled first, and resolves as if complete.
SyncStallsCancelsFirst(c) ==
    /\ call[c].pc = "replicating" /\ call[c].dirs # {} /\ db # "destroyed"
    /\ RequestFails
    /\ Settles(c, "COMPLETED")

\* Mutant: the stall timer watches the pull direction only.
SyncStallsOnPull(c) ==
    /\ call[c].pc = "replicating" /\ "pull" \in call[c].dirs /\ db # "destroyed"
    /\ RequestFails
    /\ Settles(c, "FAILED")

\* No progress within SYNC_STALL_TIMEOUT: the guard rejects before the
\* replication is cancelled (a cancelled replication resolves).
SyncStalls(c) ==
    /\ call[c].pc = "replicating" /\ call[c].dirs # {} /\ db # "destroyed"
    /\ RequestFails
    /\ Settles(c, "FAILED")

\* The notifications database is created with the first notification.
MayBeMissing == IsNotificationsDb /\ updateSeq = 0

\* The notifications database does not exist on the server yet.
NotificationsNotFound(c) ==
    /\ MayBeMissing
    /\ online /\ Replicating(c, "pull")
    /\ Settles(c, "COMPLETED")
    /\ UNCHANGED budgetVars

-----------------------------------------------------------------------------
(***************************************************************************)
(* The session: what SessionManagerService and DatabaseResolverService do  *)
(* with this database, and page loads.                                     *)
(***************************************************************************)

\* initializeUser(): init() opens the database, also when it is open already (a
\* slow SSO check that succeeds after an offline login), and LOGGED_IN starts a
\* live sync.  The remote database is initialised again, with nothing pending.
LogIn ==
    /\ sessions < MaxSessions
    /\ sessions' = sessions + 1
    /\ db \in {"closed", "open"}
    /\ db' = "open" /\ loggedIn' = TRUE
    /\ pipelines' = IF alive THEN pipelines + 1 ELSE pipelines
    /\ trackLost' = TRUE
    /\ pendingLost' = {}
    /\ missed' = missed \cup pendingLost
    /\ call' = [c \in Calls |->
          [call[c] EXCEPT !.pc = IF @ = "awaitOpen" THEN "info" ELSE @,
                          !.handle = (call[c].pc = "purging")]]
    /\ UNCHANGED <<serverVars, deviceVars, alive, stateVars, edits, faults,
                   online>>

\* logout() of a session the page survives (no redirect to Keycloak), which
\* resets the databases: destroy$ fires, for good.
LogOut ==
    /\ loggedIn /\ db = "open"
    /\ loggedIn' = FALSE /\ db' = "closed" /\ alive' = FALSE /\ pipelines' = 0
    /\ UNCHANGED <<serverVars, deviceVars, stateVars, lostVars, budgetVars,
                   online, call, missed>>

\* Mutant: destroy$ does not end the subscriptions of the constructor.
BeginDestroyKeepsSubscriptions ==
    /\ db = "open"
    /\ db' = "destroying" /\ pipelines' = 0
    /\ UNCHANGED <<serverVars, deviceVars, loggedIn, alive, stateVars, lostVars,
                   budgetVars, online, call, missed>>

\* destroy(): destroy$ fires at once, the data goes when PouchDB has deleted it,
\* and then the LAST_SYNC marker.
BeginDestroy ==
    /\ db = "open"
    /\ db' = "destroying" /\ alive' = FALSE /\ pipelines' = 0
    /\ UNCHANGED <<serverVars, deviceVars, loggedIn, stateVars, lostVars,
                   budgetVars, online, call, missed>>

EndDestroy ==
    /\ db = "destroying"
    /\ db' = "destroyed"
    /\ local' = [d \in Docs |-> Absent] /\ checkpoint' = 0
    /\ lastSync' = FALSE
    /\ UNCHANGED <<serverVars, loggedIn, alive, pipelines, syncState,
                   lostVars, budgetVars, online, call, missed>>

\* The page is closed, crashes or reloads at any moment: what was in memory is
\* gone, the reports of lost access included.
PageLoad ==
    /\ sessions < MaxSessions
    /\ sessions' = sessions + 1
    /\ loggedIn' = FALSE /\ db' = "closed" /\ alive' = TRUE /\ pipelines' = 0
    /\ syncState' = "UNSYNCED"
    /\ trackLost' = FALSE /\ pendingLost' = {}
    /\ missed' = missed \cup pendingLost \cup UNION {call[c].toPurge : c \in Calls}
    /\ call' = [c \in Calls |-> IdleCall]
    /\ UNCHANGED <<serverVars, deviceVars, lastSync, edits, faults, online>>

-----------------------------------------------------------------------------
\* What a pending sync() does on its own.
CallStep(c) ==
    \/ StartReplication(c)
    \/ FetchBatch(c) \/ StoreBatch(c) \/ PullDone(c)
    \/ (\E d \in Docs : PushDoc(c, d)) \/ PushDone(c)
    \/ FirstSyncCompletes(c)
    \/ StartPurge(c) \/ (\E d \in Docs : PurgeDoc(c, d)) \/ SyncCompletes(c)

Fault(c) == InfoFails(c) \/ SyncFails(c) \/ SyncStalls(c) \/ NotificationsNotFound(c)

Request(c) == LiveSync(c) \/ EnsureSynced(c) \/ ResetSync(c)

User == \E d \in Docs : ServerChange(d) \/ LocalEdit(d)

Session == LogIn \/ LogOut \/ BeginDestroy \/ EndDestroy \/ PageLoad

Next ==
    \/ \E c \in Calls : Request(c) \/ CallStep(c) \/ Fault(c)
    \/ User
    \/ GoOffline \/ GoOnline
    \/ Session

Spec == Init /\ [][Next]_vars

(***************************************************************************)
(* Promises of PouchDB settle, the interval of liveSync() fires again and  *)
(* again, the stall timer fires when nothing moves, and requests to a      *)
(* destroyed database reject.                                              *)
(***************************************************************************)
FairSpec ==
    /\ Spec
    /\ WF_vars(\E c \in Calls : LiveSync(c))
    /\ \A c \in Calls : WF_vars(CallStep(c))
    /\ \A c \in Calls : WF_vars(SyncStalls(c) /\ ~online)
    /\ \A c \in Calls : WF_vars(SyncFails(c) /\ db = "destroyed")
-----------------------------------------------------------------------------
(***************************************************************************)
(* Safety                                                                  *)
(***************************************************************************)

\* What the pull checkpoint claims: a document the user may read whose latest
\* server change lies at or below the checkpoint is on the device in that
\* version.  It would be lost from the device otherwise, since later syncs only
\* ask for what follows the checkpoint.  (Holds without Grants: see the README.)
CheckpointSound ==
    \A d \in Docs :
        server[d].access # "none" /\ 0 < server[d].seq /\ server[d].seq <= checkpoint
            => local[d].held /\ local[d].seen = server[d].seq

\* Sequence numbers that the device or a batch knows of have been given out.
SeqBounds ==
    /\ checkpoint <= updateSeq
    /\ \A d \in Docs : server[d].seq <= updateSeq /\ local[d].seen <= server[d].seq
    /\ \A c \in Calls : call[c].since <= updateSeq /\ call[c].upto <= updateSeq
    /\ \A c \in Calls : \A d \in Docs : call[c].got[d] <= server[d].seq

\* A fetched batch belongs to a pull, and holds the latest version of every
\* readable document of its range that has not changed again since it was read.
BatchComplete ==
    \A c \in Calls : call[c].upto > 0 =>
        /\ call[c].pc = "replicating" /\ "pull" \in call[c].dirs
        /\ \A d \in Docs :
              server[d].access # "none"
                /\ call[c].since < server[d].seq /\ server[d].seq <= call[c].upto
              => call[c].got[d] = server[d].seq

\* Every pull, also one from sequence 0, has on the device what it has read.
SinceSound ==
    \A c \in Calls : \A d \in Docs :
        /\ Replicating(c, "pull")
        /\ server[d].access # "none" /\ 0 < server[d].seq /\ server[d].seq <= call[c].since
        => local[d].held /\ local[d].seen = server[d].seq

Purging == UNION {call[c].toPurge : c \in Calls}

\* Only documents without access are up for purging.
OnlyLostArePurged ==
    \A d \in Docs : d \in pendingLost \cup Purging => server[d].access = "none"

\* Overlapping syncs, each with a position and a batch of its own, write one
\* local database and one checkpoint; the checkpoint is right because each of
\* them is complete up to its own position, and no purge undoes that.
PullsAreComplete ==
    SeqBounds /\ BatchComplete /\ SinceSound /\ CheckpointSound /\ OnlyLostArePurged

\* A document the user may no longer read and that no later sync will report
\* again (it lies at or below the checkpoint) is still waiting to be purged, or
\* its report came to nothing in one of the ways that "missed" records.  A failed
\* or stalled sync is not one of them.
LostAccessIsTracked ==
    \A d \in Docs :
        local[d].held /\ server[d].access = "none" /\ server[d].seq <= checkpoint
            => d \in pendingLost \cup Purging \cup missed

\* Reports of lost access are ignored only while a first sync is replicating:
\* however it ends, and whatever else runs, tracking resumes with it.
TrackingPausedOnlyByFirstSync ==
    db = "open" /\ ~trackLost
        => \E c \in Calls : call[c].pc = "replicating" /\ call[c].first

\* A destroyed database leaves no LAST_SYNC marker behind, also when a sync was
\* under way: the next start would report that local data has vanished.
DestroyedIsForgotten ==
    db = "destroyed" => ~lastSync

\* The promise of this call fulfils with a result, in this step.
Fulfils(c) ==
    /\ call[c].pc # "idle" /\ call'[c].pc = "idle"
    /\ syncState' = "COMPLETED"

\* Who awaits a sync gets what was there to transfer when it started: documents
\* changed on the server until then are on the device in their latest version,
\* and local changes made until then have been sent, or were refused.  (While the
\* notifications database is missing on the server, there is nothing to rely on.)
SyncCoversRequest ==
    [][\A c \in Calls : Fulfils(c) /\ db # "destroyed" /\ ~MayBeMissing =>
          \A d \in Docs :
             /\ server[d].access # "none" /\ 0 < server[d].seq
                  /\ server[d].seq <= call[c].owedSeq
                  => local[d].held /\ local[d].seen = server[d].seq
             /\ d \in call[c].owedDocs => local[d].unsent # "yes"]_vars

-----------------------------------------------------------------------------
(***************************************************************************)
(* What the database promises to the rest of the app: to be a replica of   *)
(* what the user may read on the server, see the module Replica.  (Holds   *)
(* without Grants.)                                                        *)
(***************************************************************************)
AbstractReplica == INSTANCE Replica WITH complete <- checkpoint

ImplementsReplica == AbstractReplica!Spec

-----------------------------------------------------------------------------
(***************************************************************************)
(* Liveness, under FairSpec                                                *)
(***************************************************************************)

\* A purge that began after a logout: it waits for a database that only the next
\* login of this page opens.
WaitsForLogin(c) ==
    call[c].pc = "purging" /\ call[c].toPurge # {} /\ ~call[c].handle

\* A sync does not stay STARTED forever, through its replication and its purges,
\* unless a logout has cut off the purges; then it goes on with the next login.
StartedEnds ==
    syncState = "STARTED" ~> syncState # "STARTED" \/ \E c \in Calls : WaitsForLogin(c)

\* Nothing is left to transfer between the device and the server.
UpToDate ==
    \A d \in Docs :
        /\ local[d].unsent # "yes"
        /\ server[d].access # "none" /\ server[d].seq > 0
             => local[d].held /\ local[d].seen = server[d].seq

\* A page that stays online and logged in brings the device and the server
\* together, whatever failed before.
LiveSyncConverges ==
    <>[](online /\ loggedIn /\ alive) => <>[]UpToDate

-----------------------------------------------------------------------------
(***************************************************************************)
(* What comments of the code say, and the code does not do                 *)
(***************************************************************************)

\* synced-pouch-database.ts: "Start live sync whenever the user is logged in."
LiveSyncWheneverLoggedIn == loggedIn /\ db = "open" => pipelines > 0

\* The user may read the document, and the device has received its latest version.
Received(d) ==
    server[d].access # "none" /\ local[d].held /\ local[d].seen = server[d].seq

\* synced-pouch-database.ts: "Purge local documents for which the server reported
\* lost permissions during the most recent sync's `_changes` calls."  So a document
\* that is readable again, and received again, is not purged by a sync that nobody
\* has told of its loss.
PurgesReportsOfThatSync ==
    \A c \in Calls : \A d \in call[c].toPurge : Received(d) => d \in call[c].reported
=============================================================================
