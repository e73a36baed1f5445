# TLA+ models of Aam Digital (ndb-core)

Aam Digital is an offline-first Angular app for case management. Each device keeps a PouchDB database that is
synchronised with a CouchDB behind a permission-checking replication backend; without a local database
("online" sessions, public forms) the app talks to the server directly. What is hard about it is not any single
function but what happens between two `await`s: overlapping syncs, page loads in the middle of one, permission
rules that change while the last change is still being enforced, answers that arrive late.

Paths below are relative to `src/src/app/core/` unless they start with `src/`.

## Inventory

| component | state | operations | talks to | hard behaviour | what makes it correct |
|---|---|---|---|---|---|
| Synced database `database/pouchdb/synced-pouch-database.ts` | sync state, LAST_SYNC marker, PouchDB and its checkpoint, running `sync()` promises | `sync`, `liveSync`, `ensureSynced`, `resetSync`, purge of lost documents, `destroy` | login state, remote database, PouchDB replication | syncs that overlap, stall or fail; checkpoint ahead of the purge; crash in between | checkpoint never claims what is not there; no lost access forgotten; STARTED never left behind; live sync recovers |
| Remote database `database/pouchdb/remote-pouch-database.ts` | announced revisions, `lastSequence`, `pendingLostPermissions`, `trackLostPermissions` | poll, announce, collect reports, retry, renew session | CouchDB, synced database, entity mapper | polls and writes answered in any order, full map | subscribers never go back and become current |
| PouchDB wrapper `database/pouchdb/pouch-database.ts` | PouchDB handle, changes feed, `destroy$` | put, putAll, remove, purge, conflict resolution, reset, destroy, queries | everything that stores data | `destroy$` completes subscriptions for good; second conflict of a forced overwrite | writes are applied once or rejected |
| Ability service `permissions/ability/ability.service.ts` (with `entity/latest-entity-loader.ts`) | `currentRules`, `rulesKnown`, the ability, pending derivations | `initializeRules`, reactions to rules, session, user | session, entity mapper, enforcer | rules picked before the user entity is awaited; failed load | ability is that of the current rules and user; unknown rules widen nothing |
| Local permission enforcer `permissions/permission-enforcer/local-permission-enforcer.service.ts` | rules stored per user, running enforcements | scan and purge, re-sync, second pass, store; destroy and reload on the legacy adapter | ability, database resolver | overlapping enforcements, page end at any step, failed steps | rules stored as enforced really are |
| Session manager `session/session-service/session-manager.service.ts` | session, login state, current user | login (SSO, offline), logout, user entity, save for offline login | databases, Keycloak, permissions | logout and login in one page; slow SSO after offline login; global sync state | one session's data and subscriptions do not leak into the next |
| Database resolver `database/database-resolver.service.ts` | the open databases | open, reset, destroy, re-sync all; vanished database check | session, migration | order of opening and checks | never destroys server data; no false alarm |
| Keycloak and local login `session/auth/` , `utils/reuse-first-async.ts` | token, offline users | refresh, login, logout, save user | remote database | concurrent refreshes | one refresh for all waiting requests |
| Bulk write `database/pouchdb/bulk-write-batches.ts` | none | split, write one request after the other | remote database | a request fails after others stored documents | results say what was stored |
| Migration and reset `database/indexeddb-migration.service.ts`, `database/local-device-reset.service.ts`, `src/src/bootstrap-reset.ts` | existing databases, migrated flag | list, resolve, open, sync, switch, delete, reset | resolver, multi-tab detection | page end between any two steps; other tabs; toggled configuration | unsynced data is never deleted or left behind |
| Multi-tab detection `database/multi-tab-detection.service.ts` | other tabs last seen | hello, ping, goodbye, reload | migration, recovery | throttled tabs, pages that end before a message | a tab whose database is gone reloads |
| Cascading actions `entity/entity-actions/` | the entities and their references | delete, anonymize, undo | entity mapper, files, user accounts | cycles, entity reached twice, partial failure, edits in between | no dangling references; only parts are deleted; undo restores; no personal data overlooked |
| Bulk operation state `entity/entity-actions/bulk-operation-state.service.ts` | expected and processed updates | start, progress, complete, wait | entity lists, dialogs | missing or foreign updates | waiting ends |
| Import `import/import.service.ts` with `update-existing/`, `additional-actions/` | import history, links to imported records | import, link, undo | entity mapper, bulk write | several requests, concurrent link actions, lost responses, undo of what others edited | the history lists what is stored; undo takes back the import and nothing else |
| Files `src/src/app/features/file/` | upload queue, cached images, attachment documents | upload, remove, remove all, revert a failed change | CouchDB, sync, entity mapper | queue that re-runs failed jobs, lost responses, revision read before use | the file is the one the record names |
| Entity mapper `entity/entity-mapper/` | none | load, save, saveAll, remove, updates | databases | results of a bulk write against entities | saved entities know their revision |
| Corruption recovery `database/pouchdb/pouchdb-corruption-recovery.service.ts` | none | classify errors, offer a reset | device reset | reset keeps the local storage | as for the reset |
| Domain features, user interface, command line tools | mostly none of their own | | | data conversion, rendering | |

`PROJECT.json` lists the same components with their status, and the hazards of the modelled ones at the lines where
they bite.

How they interact: a login opens the databases (resolver), then announces session and login state; the login
state starts the live sync; the first sync brings the app's config, which lets the session manager load the user
entity, which lets the ability service finish deriving rules; applying them starts an enforcement, which reads and
purges through the entity mapper and asks the resolver for a full re-sync. A sync brings new rules to the ability
service through the changes feed, and lost access to the purge at its end. Which database a login opens is decided by the
migration, which waits for a completed sync, asks the other tabs, and ends with a reload. Entity actions, imports
and file uploads write through the entity mapper: to the local database, or directly to the server, where a bulk
write is split.

## Modules

| module | models | checked by | proved in |
|---|---|---|---|
| `Replica` | what a local database promises: an abstract replica of the documents a user may read | as a property of `MCSync` | |
| `SyncedPouchDatabase` | one local database, its syncs and the lost-permission bookkeeping of its remote database; implements `Replica` | `MCSyncedPouchDatabase` | `SyncedPouchDatabase_proofs` |
| `RemoteChangesFeed` | the changes feed of a database without a local copy | `MCRemoteChangesFeed` | `RemoteChangesFeed_proofs` |
| `PermissionEnforcement` | ability service and local enforcer, with sessions and several users on a device | `MCPermissionEnforcement` | `PermissionEnforcement_proofs` |
| `CascadingActions` | deletion and anonymization over a graph of references, and their undo | `MCCascadingActions` | `CascadingActions_proofs` |
| `BulkWriteBatches` | the split of a bulk write into requests, and a reference definition of it | `MCImport` | `Import_proofs` |
| `Import` | an import with its links, history and undo; uses `BulkWriteBatches` | `MCImport` | `Import_proofs` |
| `IndexeddbMigration` | the databases of an account on a device, opened, migrated and reset by several tabs | `MCIndexeddbMigration` | `IndexeddbMigration_proofs` |
| `CouchdbFileService` | the upload queue, the attachments documents and the component that edits a file field | `MCCouchdbFileService` | `CouchdbFileService_proofs` |
| `Session` | logins and logouts in a tab: session manager, login page, Keycloak, and what of a login stays on the device | `MCSession` | `Session_proofs` |

Definitions keep the names of the code where they have one; `PROJECT.json` maps each of them to its lines.
Definitions marked "Mutant:" are plausible bugs, used to show that each property can fail. Constants named `Max...`
bound the environment (edits, faults, sessions, revisions), never the code, except for `MaxBytes` and `MaxDocuments`
(limits of a request) and `MaxAnnounced`, which are constants of the code.

### Replica

A document is held or not, at the sequence number of the last change seen, with changes to send or refused;
`complete` is a point of the server's history up to which nothing is missing. Versions only go forward, local changes
are given up only by sending them or having them refused, documents are forgotten only when access is lost or
the database is wiped. `SyncedPouchDatabase!AbstractReplica` is the refinement mapping: the documents as they are, and
the stored checkpoint for `complete`.

### SyncedPouchDatabase

Each member of `Calls` is a `sync()` promise that may be pending: idle, waiting for the database to open, waiting
for `info()`, replicating (pull and push go on independently), or purging. One action is what runs between two
awaits: `StartReplication` is the code from `info()` to `localDb.sync`, `FetchBatch` a `_changes` response with the
fetch hook that collects `lostPermissions`, `Settles` the emitted state and the `finally` block. Live sync,
`ensureSynced` and `resetSync` start calls under their own guards and do not exclude each other, as in the code.
`PurgeDoc` is one purge of one document; `handle` says whether `getPouchDBOnceReady()` has given it the database. A purge
that begins after a logout has not got it and waits, outside the stall guard, until the next login opens the database.

Abstractions:

- A document is the sequence number of the last server change the device has seen, and whether there are local
  revisions to send. Deletions are edits. Revision trees and conflicts inside PouchDB are left out.
- PouchDB's replication is external. Modelled is what the code relies on: batches since a checkpoint, batch and
  checkpoint written together, older revisions never replacing newer ones, refused documents left behind without
  failing the sync, `checkpoint: false` starting from 0 and writing no checkpoint.
- `doc_count === 0` counts entities; design documents of indices, which the code also counts, only make a first
  sync rarer.
- The forwarding to the global sync state, the debounce of the live sync and logging are left out.
- `missed` and the call fields `owedSeq`, `owedDocs`, `reported` are history: only properties read them. `missed`
  collects the reports that the code drops: tracked off, page closed, legacy adapter, failed purge, second login.

### RemoteChangesFeed

Own writes (`put`, `remove`, each document of a `putAll`) go through request, storage at the server, response, and a
conflict with `forceOverwrite` through a second request. The poll reads at the server and delivers later. `view` is
what the feed emitted last for a document. The model starts when the first poll has answered "now".

The server is CouchDB, as far as the feed depends on it: a document is a tree of revisions, each with its generation,
its ancestors, and whether it is a deletion; own writes must name a leaf, others may replicate a branch made from any
revision; and `_changes` delivers the winner among the leaves (`Beats`): one that is not deleted before one that is, then
the longer branch, then the higher hash. Hashes are compared by the numbers of the changes that made the
revisions, with either sign, so that a later sibling may win or lose.

### PermissionEnforcement

`svc` is the state of `AbilityService`; the operators `Enforce`, `Derive`, `React`, `Subscribe`, `Resume` are what
its code does between two awaits, as functions of that state, so that one event (a user entity that arrives) can
run several continuations in the order the code runs them; `ApplyAll` lets all derivations that waited for the user
entity go on, one after the other. `svc.runs` are enforcements under way.

Abstractions:

- A rule set is the set of documents it permits reading, each document being the only one of its entity type, so
  that "restricted types" are the documents not permitted. New documents, and rules with conditions on a document's
  content, are left out.
- The database is reduced to what matters here: documents held, the config version held, and whether it has been
  synced at all. A re-sync that completes brings exactly what the server permits, or, as a fault, leaves what a failed
  purge or a server that lags behind would leave.
- A second login without a logout in between (slow SSO after an offline login) is left out here; it is in
  `SyncedPouchDatabase`.

### CascadingActions

The recursion of the code is a stack of frames, the innermost one last, one for each record that is being processed;
each frame holds the instance it loaded, what it found linking to it, which of these references it has yet to visit
(`todo`, taken in the order of `Precedes`: by record, then by field) and what it has collected for undo. Every write is a step, so that
others edit in between and requests fail anywhere; a write of an instance whose `_rev` is not the latest is refused.
`Complete` and `Fail` are the end of an action with and without an offer to undo it; `UndoBulk` and `UndoOverwrite` are the two
requests of a forced bulk write.

Abstractions: a record is its references, whether personal data is left in it, and whether it is anonymized.
A field is composite or not, and the code looks at one field at a time: a record is a part if one composite field of it
names a single record, whatever its other fields say. The confirmation dialogs are answered by "yes"; the one about a user
account may be cancelled. Loading several
entity types at the start of a frame is one step. `before`, `edited` and `raced` are history.

### BulkWriteBatches and Import

`SplitIntoRequests` adds the documents of a write one after the other to the request that is being filled (`Add`), a
recursive function over their number. `IsSplit` says what a split has to be: each request continues where the one before
it ends, they end with the last document, each keeps the limits unless it is a single document, and none is closed early.
Only a write to a server that needs more than one request is split; a file lists each record once.
An import writes request after request; each document of a request may be refused (conflict or missing permission)
and the request may fail before or after it was executed. `Settled` is what `EntityMapperService.saveAll()` and the
database make of the results, `EntryFor` the entry of the history. Link actions and the parts of an undo run
concurrently, each as load and save. An import to a local database is one request with the same results.

Abstractions: one imported field per record; a value is absent, the old, the imported or one of somebody else.
An undo compares values with `===`, in database format: those that are objects there (arrays, Dates, locations) are in the
constant `ByReference` and never found equal. When the bulk save of an indirect link is rejected, any of its relations may
have been stored. `written`, `lost` and `unrecorded` are history.

### IndexeddbMigration

A database is its adapter and the local changes in it; an account has at most two names for one. A tab logs in
(`Load`), lists the databases, resolves adapter and name, opens the database, and then edits, syncs and migrates it;
each step is what the code does between two awaits. A tab's page (`Page`) may end in any state. `known` and `inbox` are the
multi-tab detection: messages are received in order by the tabs that are open when they are sent. A tab may be forgotten at
any time (`RemoveStaleTabs`), whether its page has ended or the browser throttles it so that its pings stay out for longer
than 7 s, and is found again when a ping does come (`Ping`). If that happens to an open tab during the final sync of another,
the changes this sync has not covered become `exposed`. `Toggle` and `NameAccount` change the deployment at any time, and each page keeps
the one it was loaded with.

Abstractions: one account on the device; the notifications database is never migrated and left out; a reset deletes
what the model has (databases and the flag), not caches and service workers. `exposed`, `given`, `denied`,
`recreated`, `named` and `unannounced` are history.

### CouchdbFileService

A job of the queue is new, waiting, running, failed or done; `Subscribe` is what rxjs does when somebody subscribes to
the shared observable of a job, which subscribes to that of the job before it and runs again those that have failed,
and `Settle` what it does when a job ends. The requests of a job are steps, with the revision they read; `ensureSynced()` is a promise awaited once.
The component saves the record with the new name first, uploads, and takes the name back when that fails:
`LoadEntity` and `Revert` are the load and the save of `revertEntityChanges()`, which nobody awaits or catches, with others in
between. `copies` are the records that somebody has loaded and is about to save; when one is saved, all other copies of
the record are outdated and their saves refused (`SaveRecord`). The anonymization of a record is such a copy too: it
keeps the instance it was given while files are removed, and saves it in the end. A lost connection rejects `ensureSynced()`
of one job or of all that wait for it.

Abstractions: a file is the number of the job that uploads it. The content of requests, progress and
downloads are left out. A form is opened again, with the latest revision, before a field of the record is changed by
hand. `rerun`, `raced`, `lost`, `overlapped`, `unsaved` and `anonymized` are history.

### Session

Each member of `Logins` is a promise of `checkRemoteSession`, `remoteLogin` or `offlineLogin`. Its `step` is the await it
is at: Keycloak, the names of the user's databases (`resolveDbConfig`), the list of existing ones
(`checkForVanishedLocalDatabase`), the app's config (`setupCompleted$`), or the user's entity. `ConfigResolved` and
`DatabaseOpened` are what runs after the second and third; the field `dbConfig` of the resolver is written by one and read by
the other, and shared by all promises. The login page may be opened while a login is under way, and its silent check
goes on when an offline login is picked; `shown` marks the promise of the page on screen. A logout ends what waits for the
config (`logout$`) and nothing else. What outlives a page is what the app stores (`offlineUsers`, `resetRemote`,
`skipNextSsoCheck`), the databases, and the session at Keycloak (`sso`).

Abstractions:

- A database is whose it is, and whether it was ever completely synced (`synced`); a sync has a start and an outcome.
  `SyncedPouchDatabase` has the rest. A database that does not exist on the device is not distinguished from one never synced.
- Keycloak is the user it has a session for. Its login page ends with somebody's session or nobody's, and a logout may not be
  reached. It has been initialised in a page (`keycloakReady`) once a check or login got that far; a logout before that is
  rejected. This is the behaviour of the keycloak-angular library, which is not part of the repository. Tokens, their refresh,
  and the login that a 401 triggers are left out: a sync may complete or fail
  whoever is logged in.
- Opening databases does not fail: `resolveDbConfig` and the check for vanished databases catch what their calls throw.
- Whoever logs in is in the app at once. The code navigates there after LOGGED_IN, and the login page is on screen for a moment
  longer (`session/login/login.component.ts:195-199`), with its buttons.
- Only the session type "synced". Public forms have no session manager's session.
- `crossed`, `mixed`, `unsure`, `strays`, `disturbed`, `viaRemote` and `outlived` are history.

## Properties and runs

Every property is stated with a comment in its module. No run lists the modules' type invariants `TypeOK`: they are proved
for every value of the constants. Deadlock checking is off in all runs but that of `Session`: the
budgets of the environment run out, and a page where nobody does anything is legal.

| run | instance | shows |
|---|---|---|
| `MCSync` | 2 overlapping calls on 1 document in a deployment nobody has written to (2 edits and faults in all), or 1 call at a time on 2 documents (`OverlapOrTwoDocs`, 3 logins, edits and faults in all); the notifications database, which the server may not have yet | `PullsAreComplete`: overlapping syncs leave a checkpoint that claims nothing missing. `LostAccessIsTracked`: a document whose access was lost, and that no later sync will report, is waiting to be purged or was dropped in a way listed above. `TrackingPausedOnlyByFirstSync`: the shared tracking flag comes back however a first sync ends. `DestroyedIsForgotten`: no LAST_SYNC marker survives a destroy. `SyncCoversRequest`: a fulfilled sync has transferred what there was when it started. `ImplementsReplica` |
| `MCSyncLiveness` | 1 document, 1 call, 2 edits, 2 faults, 2 sessions, fair | `StartedEnds`: no sync stays STARTED, through replication and purges, unless a logout has cut off the purges (until the next login). `LiveSyncConverges`: a page that stays online and logged in brings device and server together |
| `MCFeed` | 2 documents, one of them with other writers, 2 own writes, map large enough; 2 changes on the server, or 3 to the contended document alone (`TwoChangesOrOneDoc`); fair | `NeverOlder`: subscribers never go back on a document with one writer at a time. `PollNeverOlder`: no poll takes them back on any. `WinnerIsEmitted`: the winner on the server is never taken for an echo, except where it has outlived a deleted longer branch. `OwnEventuallyCurrent`: lost responses and failed polls are made up for |
| `MCEnforce` | 4 scenarios: rules change and a request fails; rules change and the page reloads 4 times, on either adapter; two users share a new device with 2 faults and offline phases | `EnforcedMeansEnforced`: stored rules in force mean local data as they say, wherever the page ended or one step failed. `AbilityFollowsRules`: the ability is that of the current rules and user although derivations are applied late. `UnknownRulesStayAsTheyWere` |
| `MCCascade` | 3 records, 2 reference fields of either role, every graph of up to 3 references, 1 or 2 selected, one edit or one fault | `NoDanglingReferences`: also halfway through and after a failure. `OnlyPartsAreDeleted`: only what is a part by one of its fields is deleted as well, although links are edited meanwhile. `UndoRestores`: whatever the order in which the cascade met a record. `NothingPersonalOverlooked`. `AnonymizingTerminatesOnCycles` |
| `MCImport` | a new record and 2 existing ones, one of these with a value compared by reference, limits of 3 bytes and 2 documents with 3 choices of sizes, a direct and an indirect link action on one target, 1 edit, 1 fault | `RequestsAreASplit`. `StoredAreReported`, `NextSaveFits`: what the app knows of a write that failed in part. `StoredAreInHistory`: what is stored can be undone. `OthersChangesSurvive`, `UndoneIsGone`: undo takes back the import and nothing else |
| `MCMigration` | 2 tabs and no change of the deployment, or one tab at a time with 2 changes of the adapter or of the name and a reset (`Steady`); 4 page loads, the last of them next to another tab only for an account with a name in a browser that lists its databases (`FewPages`); 1 local change, which may be refused | `NothingIsLost`: wherever a page ends, a local change is on the server or in a database, unless the migration could not know of it. `NothingIsForgotten`: and not in one that is no longer opened. `AdapterFits`: no database is opened with the wrong adapter. `CutOffTabsReload` |
| `MCFiles` | 1 record with a file and a photo field, 3 jobs, 1 fault (a lost connection for several jobs is one), fair | `AttachmentMatchesValue`: the file on the server is the one the field names, unless the record could not be saved. `LastSuccessCounts`: failed jobs that run again do not undo later ones, at any moment and not only when nothing is under way. `JobsEnd`: a failed job does not hold up the queue |
| `MCSession` | 2 users, one of whom is linked to an entity and has used the device before; 2 login promises at a time, 3 in all, 2 page loads, fair | `DatabaseOfSession`: whatever check, login and offline login do to each other, the open database is the session's. `LoginStateOfSession`: no late answer of Keycloak logs out who has logged in. `RemoteSessionIsKnown`: a logout knows of the session at Keycloak. `UserOfSession`: no user of an earlier session is the current one. `OfflineUsersHaveData`: who is offered for offline login has a synced database. `LoginEnds`: every login and check ends. `LoginIsOffered`: a login page comes to offer a login, unless a remote logout was rejected in it |
| `MCStalePurge` | 1 document, access regained | violated, see below |
| `MCSecondLogin` | 1 document, 2 sessions | violated, see below |
| `MCCascadeCycle` | 3 records, 2 references, nobody interferes | violated, see below |

### Bounds and why they are enough

Two calls are enough for an overlap, since calls interact only through shared state (checkpoint, local documents,
tracking flag, pending reports), and the proofs below cover any number of them. One document shows every interleaving of a
fetch, a change, a store and a purge of it; two show checkpoints between them. Two edits give a document a state
before and after a fetched batch. With one fault each recovery path is taken; with two in the liveness run a
recovery is itself disturbed. `MaxSeq = 3` in the feed gives a write before, during and after a poll, and the three revisions that a deletion
of a longer branch next to a shorter one takes. Documents of the feed meet only in the map of announced revisions, so
the third change need not be combined with the other document. Four sessions in
the reload scenario let an enforcement be interrupted three times.

Three records with three references hold chains, diamonds, two-cycles, three-cycles and a part of two wholes, in each
combination of roles. Three records over requests of at most two documents give a request before, and one after, the one
that fails, and a document too large for a request by itself. Four page loads let one tab migrate, reload and be interrupted
again while another is opened twice; a second local change would only repeat what the first shows, as changes do not
interact. Three jobs are a failed one, one that re-runs it, and one after both.

A last page next to another tab, where the account has no name or the browser cannot list databases, would be the fourth
in a history whose first three are covered. Two logins of two users are enough to cross each other, since a login knows of the
others only through the state of the
page; the third finds what the first two have left. Two page loads make the second one meet what the first has stored. The proofs
cover any number of each.

### Fairness

`SyncedPouchDatabase!FairSpec`: promises of PouchDB settle (`CallStep`), the interval of the live sync fires again
and again (weak fairness of some `LiveSync`), the stall timer fires for a sync that hangs while offline, and a
destroyed database rejects its requests. Nothing obliges users, faults, logins or the network to act.
`RemoteChangesFeed!FairSpec`: the poll timer fires, responses to own writes arrive, and a poll that is
answered again and again is delivered some time (strong fairness, as failures are not forever).
`CouchdbFileService!FairSpec`: every request ends, with a response or an error, as requests of a browser do.
`Session!FairSpec`: operations of Keycloak end, since `keycloakOperation` gives up after 15 seconds and a login after two
retries, and so does the browser's list of databases. The exception is `keycloak.login()` (`keycloak-auth.service.ts:265`),
which has no timeout: it sends the browser to Keycloak's page, and its promise need not settle. That the browser
then leaves the page (`RedirectToKeycloak`) is an assumption on the browser; `LoginEnds` rests on it. Neither the app's config
nor the user's entity has to arrive, no sync
has to complete, and the user need not do anything.
Nothing in the other modules has to happen on its own: an enforcement, a migration or an import may be cut short by
the end of the page, and there is no promise that it is resumed before the user opens the app again.

### Where code and comments disagree

Shown by a run:

- `MCStalePurge`: reports of a sync that failed or stalled stay in `pendingLostPermissions` and are purged by a later
  sync, also when access to the document was regained in between, as in the run: a sync is told of the loss and fails, access is
  regained, and the next sync receives the document, is told of no loss, and purges it. The comment speaks of the most
  recent sync. The purged document stays away until it changes on the server, because the checkpoint is past it. (That a later
  sync purges documents whose access is still lost is as it should be, and not what the property forbids.)
- `MCSecondLogin`: `reset()` at a logout fires `destroy$`, which completes the subscription to the login state. The
  next login in the same page starts no live sync.
- `MCCascadeCycle`: a deletion recurses into the parts of a record before it removes the record, so two records that are
  parts of each other lead back to the first one for ever; a comment in the anonymization says that deletion terminates
  because the record is gone by then.

Met while modelling, and excepted by the properties:

- A logout while a completed sync purges lost documents leaves the next `purge()` waiting for a database that only another
  login opens (`pouch-database.ts:326-330`, 442-448). The stall guard ended with the replication, and the sync
  state remains STARTED. In the same page the purge goes on after the next login. `StartedEnds` excepts the wait (`WaitsForLogin`).
- A revision of an older generation than the announced one counts as superseded (`remote-pouch-database.ts:629`). When this client
  deletes a document, or somebody deletes what it wrote, and a shorter branch of another client survives, CouchDB makes that
  branch the winner, and it is held back: subscribers go on showing the longer branch. The comment above
  (623-626) says of siblings that suppressing them "would hide that winner from every subscriber". `WinnerIsEmitted` excepts it
  (`DeletedBranchOutlived`).
- After a deletion the user is told that records "linked to ONLY" the deleted one were deleted
  (`entity-actions.service.ts:193-194`). The code looks at one composite field at a time (`cascading-entity-action.ts:89-90`): a record
  with another field that refers to somebody else is deleted too. `OnlyPartsAreDeleted` states what the code does: one
  composite field names the record and no other.
- The name of a file that could not be uploaded is taken back by a load and a save that nobody awaits or catches
  (`edit-file.component.ts:184-204`). When changes of two fields of one record fail together, e.g. with the connection, both load the
  record, the second save conflicts, and that field goes on naming a file that does not exist. `AttachmentMatchesValue` excepts
  fields in `unsaved`.
- An anonymization saves the instance it began with after the files are removed (`entity-anonymize.service.ts:67`). When the record
  was saved otherwise meanwhile, its save is refused: the files are gone and the fields name them (`unsaved`).
- A remote logout that an earlier page has left to be made up for is rejected when Keycloak has not been initialised in the page, e.g.
  because the check was skipped or the device is offline. It is awaited in a `finally` (`login.component.ts:138-141`), so
  `ssoCheckDone` is never set and the login button stays hidden; and `race()` (145) errors with the flow if it is first, so that the
  timeout that is to ensure that "a stuck check never traps the user" (144) does not come, nor the offline users. A
  reload helps, since the mark is gone. `LoginIsOffered` excepts `logoutRejected`.

- An account that gets a `username` claim while the adapter is disabled has two legacy databases; the migration moves the one
  named by its id, and unsynced changes in the other are left behind for good (`indexeddb-migration.service.ts:111`, against
  line 74). `MCMigration` therefore has no change of the adapter for an account that is named later: see `Steady`.
- Who is logged in offline and goes back to the login page without a connection becomes logged out, with the session and the
  database open. `setLoggedOutIfNotAlready()` is there to prevent this (`session-manager.service.ts:98`), but
  `checkRemoteSession()` has set the state to IN_PROGRESS before (line 69). `LoginStateOfSession` excepts pages that are
  `disturbed`.
- The mark that a session at Keycloak is still to be ended, set by a logout without connection, is removed by the login page to
  which that logout leads, before the remote logout is tried and whether it succeeds or not
  (`session-manager.service.ts:224`, against `session-manager.service.spec.ts:302`). The next silent check after that may
  find the session and log its user in again.
- An entity that is being loaded at a logout becomes the current user when it arrives, though nobody is logged in
  (`session-manager.service.ts:165`, against `current-user-subject.ts:10`); `logout$` only ends the wait for the config.
  `UserOfSession` excepts such `strays`.
- Who is saved for offline login need not have local data (`session-manager.service.ts:243`, against lines 240-241): the
  completed sync that `handleRemoteLogin()` waits for may be that of another user's database, when a silent check and an
  offline login are under way together. `OfflineUsersHaveData` excepts the users in `unsure`.

- The response to an own write that arrives after a poll has delivered a newer revision of another client is emitted
  all the same, and no later poll corrects it (`remote-pouch-database.ts:648`, against lines 121-122). `NeverOlder` and
  `OwnEventuallyCurrent` are therefore about documents with one writer at a time.
- Offline, `sync()` resolves with `{}`, so `resetSync()` reports success and the rules are stored as enforced
  (`local-permission-enforcer.service.ts:121`, against lines 116-117). Documents that the new rules permit
  and that have not changed stay away. The scenarios of `EnforcedMeansEnforced` therefore stay online.
- A bulk write that fails with a request is taken to have stored nothing of that request (`bulk-write-batches.ts:127`);
  when only the response was lost it has.
- When all records are imported but the history entry cannot be saved, the import is reported as failed; who repeats it
  creates duplicates, which the error for partial imports is there to prevent (`import.service.ts:94-100`).
- An undo takes back links to created records only, and never reverts a field whose value is an object in database format
  (an array, a Date, a location): it compares with `===` (`import-existing.service.ts:260-265`), although a comment in the
  same file says that such values "would never be equal by reference" (226-228). `UndoneIsGone` excepts `ByReference`.
- `removeProperty()` deletes the attachments of fields of the datatype "file" only; a photo stays on the server after its
  record was anonymized (`entity-anonymize.service.ts:108`), though the file service counts photos among the files
  (`src/src/app/features/file/file.service.ts:93-97`).
- `runFileUpload()` says that `shareReplay()` prevents a request from being executed several times; a failed one is, when
  the next job is added, which a TODO in the class suspects (`couchdb-file.service.ts:35`).

### What the bounds and exceptions leave out

Some runs pass because a constant or an exception excludes a behaviour of the code. Lifting it shows the behaviour:

- `Grants = FALSE` in the passing sync runs and an assumption of the proofs: access is lost but not regained. With it, a
  document that becomes readable without a change keeps its old sequence number, below the checkpoint; the app relies
  on the re-sync of the permission enforcer for that.
- `MaxAnnounced` at least the number of documents written: with 1 for two documents, a poll that read the server before
  an own write is emitted after it once the map was cleared, which is more than the duplicate its comment allows.
- One own write of a document at a time: with two, the responses may arrive in the other order and the older revision is
  emitted last.
- `EnforcedMeansEnforced` speaks of a device with one user, and of no failure, or one in a single session of the current
  adapter. A server that lags behind together with a failed purge leaves data that the stored rules forbid; a failed purge
  is only logged. An enforcement of one user that ends in the session of another stores its rules there.
- With one failure and several page loads, two enforcements may overlap, one of a derivation that waited for the user
  entity and one of news by live sync; `resetSync()` is not serialized (`local-permission-enforcer.service.ts:119-131`,
  `synced-pouch-database.ts:483`). When the sync of one leaves data behind (one failure), the other, already past its own
  passes, may store the rules; if the page then ends before the second pass of the first, the data stay. On the legacy
  adapter there is no purge after the sync.
- One change of the rules: rules that change back while the change is being enforced, in a page that ends
  before the rules are stored, look as if they had never changed, though the first pass has purged already.
- On the legacy adapter a database is checked once, before the re-sync, and there is no second pass
  (`local-permission-enforcer.service.ts` 77-101): a server that lags behind once leaves data that the stored rules forbid.
  The check asks the ability there is when it scans (240-252). After a logout and a login, and before the user entity is
  there, that is the ability of a session without user: where the public may read more than the user does, the data stays
  and the rules are stored as enforced. In the passing run the legacy adapter is met without failures and without such rules.
- `AbilityFollowsRules` speaks of a service that has subscribed. An initial enforcement that ends after a logout throws
  (there is no session to name the storage key), `initializeRules()` rejects before it subscribes, and the next
  user of the page keeps the rules of the previous one.
- Before the first sync, the 404 for the permissions config counts as "this instance has none": everything is
  allowed and stored as enforced until the config arrives, which then looks like a change of rules.
- A document created locally during a first sync whose access is lost meanwhile is never purged: tracking is off.
- A record that a cascade reaches over two paths is loaded on each. When the inner path has saved or removed it, the write
  of the outer one conflicts, and the action fails halfway, without an offer to undo it.
- `UndoRestores` speaks of records nobody else has edited, and of completed actions: an undo overwrites with force.
- Changes in a tab that is opened, used and closed while another runs its final sync are lost (`exposed`), and so are those made in
  an open tab that the other has forgotten because the browser throttles it (`multi-tab-detection.service.ts:147-155`;
  `indexeddb-migration.service.ts:215` names the case and only reloads the tab), and changes that the server refuses (`denied`).
  Browsers that cannot list databases are excepted from `AdapterFits`: with the
  adapter disabled again, the legacy adapter is given a database it cannot read.
- A tab opened before the configuration changed keeps working with the one it has loaded; the instance changes
  the configuration with one tab open at a time.
- Of created records and links, `UndoneIsGone` speaks only for link actions about different targets (`DistinctTargets`). When
  two of them add to the same
  target at once, the second save conflicts and the import is reported as partial while a third action still
  creates relations. An undo that is run now does not wait for it, and its relations survive.
- `AttachmentMatchesValue` excepts fields whose job failed and ran again (`rerun`), was repeated by showing an image
  (`raced`), lost its response (`lost`), or overlapped with another change (`overlapped`), and fields whose name could not be
  saved (`unsaved`, see above).
- `DatabaseOfSession` and `OfflineUsersHaveData` except a page in which two logins `crossed`, the one resolving its databases while
  the other was about to open one: the session of one user is then on the database of the other, and stays there. Both also
  except, or rather do not speak of, data: what such a page writes into the wrong database is not modelled.
- `OfflineUsersHaveData` also excepts users saved in a page that opened one database in place of another (`mixed`, `unsure`).
- `LoginStateOfSession` excepts a session during which the login page was opened again, or a remote login failed
  (`disturbed`): the user then is on the login page, or is sent there at the next navigation, with everything open behind it.
- `RemoteSessionIsKnown` excepts a page in which a login went on after a logout (`outlived`): `logout()` resets `remoteLoggedIn` of
  a login that is about to complete, whose session is later ended in the app only.
- `UserOfSession` excepts users of whom a load or a subscription was under way when their session ended or was replaced (`strays`).

## Proofs

TLAPS checks the theorems for every value of the constants: any number of documents, calls, tabs, jobs, records,
users, references, edits and faults. What is assumed of the constants is what the modules state (`...Assumption`), and
TLC evaluates these on every run. Each inductive invariant was first checked by TLC on the run of its module, then
proved. The proofs have the same shape everywhere: lemmas that say what each action does, one lemma per
invariant with a step for each action, and the theorem from `Init`, the step and temporal logic.

### `SyncedPouchDatabase_proofs`

- `TypeCorrect`: `Spec => []TypeOK`, which is inductive.
- `PullsCorrect`: `~Grants` implies `Spec => []PullsAreComplete`, for any overlapping calls. The checkpoint alone is not
  inductive: a batch under way carries what it read, and another call may move the checkpoint, purge, or start
  from 0 meanwhile. The strengthening has five named parts: sequence numbers known to the device have been given
  out (`SeqBounds`); a fetched batch is complete for its range, except for what changed again since
  (`BatchComplete`); every pull has on the device what lies below its position (`SinceSound`); the same for the
  stored checkpoint (`CheckpointSound`); and only documents without access are purged (`OnlyLostArePurged`), which is
  what keeps a concurrent purge from taking away what another pull has stored, and where `~Grants` is needed.
- `CheckpointCorrect`: `CheckpointSound` alone, from the above.
- `TrackingResumes`: `Spec => []TrackingPausedOnlyByFirstSync`, inductive given the types: every way out of a first
  sync, `destroy()` included, is one that switches tracking on or closes the database.
- `DestroyedForgotten`: `Spec => []DestroyedIsForgotten`. Inductive with `DestroyedForGood`: no subscription of a
  database that is being destroyed is alive, so nothing sets the marker again.
- `LostAccessCorrect`: `Spec => []LostAccessIsTracked`, with access regained or not. The property speaks of the checkpoint and
  of documents held; a call that is restarted may lower the checkpoint, another one raise it to a position it had
  reached earlier, and a batch under way may bring a document back after its purge. `LostInv` therefore says of every
  position (stored, reached or about to be reached by any call), and of documents that are held or arriving, that
  a lost document below it is tracked.
- `SyncCovers`: `~Grants` implies `Spec => SyncCoversRequest`. `Covered` says of each active call that a direction which is
  done has transferred what the call owes; that nobody takes it away again before the call settles is where
  `PullsAreComplete` comes in.
- `ReplicaImplemented`: `~Grants` implies `Spec => ImplementsReplica`, every behaviour of a synced database is one of
  `Replica`. One lemma per kind of step: a stored batch is a reception, a pushed document is sent or refused, a purge
  forgets. That a reception leaves the database complete up to its new checkpoint, and that only documents without access
  are purged, is where the invariant `PullsAreComplete` comes in; everything else maps to a stutter.

### `RemoteChangesFeed_proofs`

- `TypeCorrect`: `Spec => []TypeOK`.
- `PollsMoveForward`: if the map of announced revisions has room for all documents (`RoomForAll`), then
  `Spec => PollNeverOlder`. The inductive invariant (`FeedInv`) says what trees of revisions are (`TreeInv`: ids are those of
  earlier changes, ancestors are of older generations, the winner is a leaf), that whatever is shown, announced or
  on its way is in them (`InTree`), and that a revision shown which is made from the result of a poll on its way is one
  that this client has announced, or older than that (`OldIsAnnounced`), so that the poll's older result is held back.
- `NeverBack`: under `RoomForAll`, `Spec => NeverOlder`: no step at all goes back on a document with one writer at a time.
  To the above, `OneBranch` adds that its tree has a single branch, which every write extends (`StoreExtendsBranch`), and `OneWriter` that own
  writes of it do not overlap and that one the server has
  answered is the latest revision there until its response arrives; without it, a late response would be emitted
  over a newer revision, which is what happens to contended documents. `RoomForAll` is not a formality: see "What
  the bounds and exceptions leave out".

### `PermissionEnforcement_proofs`

- `TypeCorrect`, `AbilityCorrect` (`Spec => []AbilityFollowsRules`) and `UnknownRulesCorrect`
  (`Spec => []UnknownRulesStayAsTheyWere`), for any users, rules and scenarios. The ability in force says nothing of the
  derivations that wait for the user entity, so neither property is inductive. `ServiceInv` adds that the last
  derivation that waits has the latest known rules of whoever is logged in (`Follows`), that nothing waits or is enforced
  while rules are unknown (`Quiet`), and that until then the ability is what was stored (`AsBefore`). It is proved
  for each operator of the service (`Apply`, `Derive`, `React`, ...), and once for each action that runs several of them.
- `EnforcedCorrect`: `Spec => [](\A u \in Users : Undisturbed(u) /\ session = u => EnforcedMeansEnforced)`, for any rules,
  documents, page loads, sessions and enforcements, on both adapters. `Undisturbed(u)` is the part of the deployments that
  the two `Reloads` scenarios of `MCEnforce` stand for: a device with one user, synced before; the rules change at most once; no
  request fails; and on the legacy adapter the public may read no more than the user, since the check asks the ability,
  which between two sessions is the public one. Pages still end at any moment, and enforcements overlap.

  The property is about moments when nothing is under way and is far from inductive. `EnforcedNow` follows the one change of
  the rules on its way from the server to the database, the service, the derivations that wait, and the enforcements. What the
  news have not reached yet has the rules that are stored (`CurrentOK`, `WaitingOK`) and therefore enforces nothing; where they
  have arrived nothing older follows. While an enforcement runs, nothing it does not know of is on its way
  (`RunsOK`), it takes away only what the user may not read, and before it stores its rules its sync has made the
  data exact (`RunOK`). A page that ends in between leaves a device for which the stored rules, the checkpoint and the data
  still fit (`DeviceOK`), so that the next start finds the change again. `BeforeOK` is the time before the change, and
  `StartOK` the initial enforcement, which alone lets the service go on and so must be the only one.

### `CascadingActions_proofs`

For any records, references and roles of fields, any selection and depth; others may edit at any time.

- `TypeCorrect`: `Spec => []TypeOK`; `InPhase` adds which frames and actions are in which phase.
- `AnonymizingTerminates`: `Spec => []AnonymizingTerminatesOnCycles`. `Marked`: a record past its beginning is anonymous in the
  database and in everything that frames further in have loaded, so a frame that meets it again stops there. The same is
  false for deletions (`MCCascadeCycle`).
- `NothingIsOverlooked`: `Spec => []NothingPersonalOverlooked`. `Noted`: a record with personal data that referred to an
  anonymous one has been reported, or some frame on the stack will still get to it.
- `PartsOnly`: `Spec => OnlyPartsAreDeleted`. A frame decides with an instance loaded earlier. `Instances` says that it is
  what is stored or an older revision, which the database refuses to write, and `Parts` that a record was entered
  because a composite field of its instance names the caller alone.
- `UndoCorrect`: `Spec => []UndoRestores`. `Restorable` says what an undo would bring back if the action ended in
  this state, following the order in which `mergeResults()` prefers originals. `Outdated` is what it needs: where a
  record was changed further in, the frame around it holds an old revision and will conflict rather than replace an original.
- `NoReferenceDangles`: `Spec => []NoDanglingReferences`. `Pointing`: whoever refers to the record of a frame is still to
  be visited or is being processed, unless somebody else has linked to it just now. The state after an undo follows
  from `Restorable`.

### `Import_proofs`

- `SplitCorrect`: `IsSplit(size, SplitIntoRequests(size))` for every sequence of sizes and all limits. This is a fact about a
  recursive function and needs induction; see below.
- `RequestsCorrect`, `TypeCorrect`, `ReportedCorrect` (`StoredAreReported`), `NextSaveCorrect` (`NextSaveFits`),
  `HistoryCorrect` (`StoredAreInHistory`): the invariant `ImportInv` says what has been sent (`Sending`: requests have
  no record in common, by `SplitCorrect`, so what has no result yet is not stored), that what is known to be stored is
  what the history lists (`Recorded`), and that the undo has the parts of that entry (`Parts`).
- `OthersSurvive`: `Spec => OthersChangesSurvive`. `Read`: whatever a save is about to replace is unchanged since it
  was read, or has a later revision, with which the save conflicts.
- `UndoneCorrect`: `Spec => []UndoneIsGone`. `TakenBack` says of each imported value that is compared by value, whoever interferes,
  that it is gone once its part of the undo has saved it. Without failures and others, `CleanInv` follows each record and link from the
  import to its part of the undo: it is as imported until that part is over, and then as before.

### `IndexeddbMigration_proofs`

For any number of tabs.

- `TypeCorrect`: `Spec => []TypeOK`, which also says that nobody has a message from itself.
- `CutOffCorrect`: `Spec => []CutOffTabsReload`, inductive with what the channel does (messages are delivered in order and
  only to pages that are open).
- `AdapterCorrect`: `Spec => AdapterFits`. `AdapterInv`: only the database named by the id is ever of the new adapter, so
  what was listed fits what is resolved.
- `NothingLost`: `Spec => []NothingIsLost`. `FinalSyncCovers`: at the end of the final sync the local changes were
  part of it or made in tabs that the page does not know of; and when the database is deleted they are all safe.
- `NothingForgotten`: `Spec /\ []Steady => []NothingIsForgotten`. `Steady` is the constraint of `MCMigration`: several tabs
  are open only as long as the adapter has not been switched, the account not named later and the device not reset, and the
  adapter is not switched for an account that is named later. Without either half TLC finds the property violated: a page
  that was loaded before a switch goes on with the legacy database and has not been told, and for the name see
  "Where code and comments disagree".

  The property compares a page with a database that page never touches. `MigrationInv` says why it is safe:
  once the account is migrated, or somebody has the new database, whatever is in the legacy one is on the server, was refused or
  was exposed (`SafeOK`), and a page that still changes it has a message to reload on its way, or has created the
  database again, so that its changes are exposed (`DoomedOK`). It gets there in two ways. A migration has deleted the
  database and not told the others yet (`RecreatedOK`); or a page has not found one, and then there still is none, or one
  that was created again since (`ListedOK`). The rest is about names: before the account has one, no database is
  called by it (`NameUnused`), one that has had it from the start leaves none called by the id (`IdUnused`), and a page
  chooses by what it has listed (`ResolvedOK`, `MigratingOK`, `DatabasesOK`). `FlagOK` is where `Steady` comes in: with several tabs,
  a page with the new database means that the flag is set, and so that the others are doomed.

### `CouchdbFileService_proofs`

For any records, fields and number of jobs.

- `TypeCorrect`: `Spec => []TypeOK`.
- `LastSuccessCorrect`: `Spec => []LastSuccessCounts`. What is needed is the order of the queue: a job that has not
  settled holds up every later one (`InOrder`), so one that runs again cannot follow a later one that succeeded.
- `AttachmentsCorrect`: `Spec => []AttachmentMatchesValue`. Halfway through a change file and field differ. `Agrees` says
  what the component remembers of the file, and that the field is ahead of it by exactly the one job, or the
  one revert, that is still to come. A revert first has the record to load (`Reverting`), then a copy to save (`Held`), which
  names the file there is. A fresh job is the only thing under way for its field, but for the copy of an anonymization (`Alone`);
  and what an anonymization fails to do is not reverted (`RevertsEdits`). The lemmas `SavedHeld` and `NothingHeld` say
  what a save of the record does to the copies.

### `Session_proofs`

For any users, any number of logins under way at once, any page loads.

- `TypeCorrect`: `Spec => []TypeOK`, inductive; it includes that a promise past Keycloak has a user.
- `OpenDatabaseIsTheSessions`: `Spec => []DatabaseOfSession`. The property is about a database that is open; what decides is
  `dbConfig` between two awaits. `Openings` says that it is set while a database is being opened, and names the user of every
  promise that is about to open one as long as none crossed another. `Goes` is how a promise can have come to where it is, proved
  once for all actions (`WaitingGoes`).
- `RemoteSessionsAreKnown`: `Spec => []RemoteSessionIsKnown`. `RemoteLogins` says the same of logins that have not opened their
  database yet, from which it follows for the session they begin.
- `LoginStateFollowsSession`: `Spec => []LoginStateOfSession`, inductive with `LoginPages` (a session on the login page is a
  disturbed one) and with `Openings`, which gives LOGGED_IN its open database.
- `OfflineUsersAreSynced`: `Spec => []OfflineUsersHaveData`. A user may be saved long after the login, by a sync that somebody else
  started. `SyncsOfOneDatabase`: in a page that has not mixed databases, the syncs that run, the user who waits for one
  and the last state are about the open database; and once a logout has cut off the forwarding, the state is never COMPLETED
  again, so nobody is saved by mistake.
- `CurrentUserIsTheSessions`: `Spec => []UserOfSession`. `Traces` extends the property from the current user to all that may
  still set it: promises, the subscription, and those it has replaced.

### Induction

The library's induction theorems take an operator as a parameter and cannot be used with these provers. `SetInduction`
(in `Import_proofs` and `PermissionEnforcement_proofs`) is induction over a set of numbers instead, and is proved from the
theorems about finite sets: if `n` is outside, the numbers up to `n` that are outside would be as many as those without `n`.
From it follow the recursive functions that the models define over positions of a sequence (`SplitIntoRequests`, `Bytes`,
`ApplyAll`). No module uses a RECURSIVE operator.

### Only model-checked

- The liveness properties `StartedEnds`, `LiveSyncConverges`, `OwnEventuallyCurrent`, `WinnerIsEmitted`, `JobsEnd`, `LoginEnds`
  and `LoginIsOffered`: fairness and
  ENABLED are beyond the prover.
- `EnforcedMeansEnforced` with a failure: it does not hold for every value of the constants, but for one change of the rules
  and no offline phase on a device with one user. "What the bounds and exceptions leave out" lists the behaviours. The runs
  choose the instances it does hold for.
- The properties of the runs that expect a violation are false.

## Plan

Done in this order, most important behaviour first: the sync core, the changes feed, permission enforcement; the
abstract replica and its refinement; cascading actions, bulk writes and imports, the migration, files; the session; and the
proof of every safety property that holds, for all values of the constants or under the hypothesis named with it. What is left:

1. An abstract specification of the permission enforcement (stored rules are in force or are about to be enforced) and of
   the upload queue (jobs end in order), with refinement mappings.
2. The refresh of a token that concurrent requests share, and the login that a 401 triggers, which would tie `Session` to
   `SyncedPouchDatabase`.
3. Progress of bulk operations.

## Not modelled

The repository has some 110,000 lines of implementation, of which the parts above are the ones that keep state across
awaits, devices or page loads. The rest is what the modules cannot say more about than the code does: Angular
components, forms, lists and dialogs (rendering and layout), domain features that read and write records one after the
other through the entity mapper (attendance, notes, todos, reporting, matching), datatypes and conversions between
documents and entities (data, not control), administration of the app's configuration, and command line scripts that
are run by hand. The share of lines the models cover is therefore small and stays so. In the modelled components,
`PROJECT.json` names what is left out of each.
