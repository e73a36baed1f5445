------------------------- MODULE IndexeddbMigration -------------------------
(***************************************************************************)
(* The local database of an account on one device, which several tabs may  *)
(* have open: IndexeddbMigrationService chooses and migrates it,           *)
(* MultiTabDetectionService tells tabs of each other, and                  *)
(* LocalDeviceResetService with runPendingReset() deletes it.              *)
(*                                                                         *)
(* A database is the adapter that created it and the local changes in it,  *)
(* numbered in the order they are made.  A tab may end at any time.        *)
(***************************************************************************)
EXTENDS Naturals, Sequences, FiniteSets

CONSTANTS
    Tabs,
    MaxLoads,     \* bound: page loads
    MaxEdits,     \* bound: local changes
    MaxToggles,   \* bound: changes of the adapter's configuration
    MaxDenied,    \* bound: changes that the server refuses
    MaxResets     \* bound: resets of the device

ASSUME BoundsAssumption ==
    /\ MaxLoads \in Nat /\ MaxEdits \in Nat /\ MaxToggles \in Nat
    /\ MaxDenied \in Nat /\ MaxResets \in Nat

VARIABLES
    \* on the device
    dbs,        \* the databases, by name
    migrated,   \* the migration flag in the local storage
    \* in the tabs
    tab,        \* the page in each tab
    known,      \* otherTabsLastSeenAt: the other tabs that each one has seen
    inbox,      \* messages on the channel that a tab has not received yet
    \* the environment
    deployment, \* configuration and account, see Deployment
    server,     \* local changes that have reached the server
    loads, toggles, resets,
    \* history, read by properties only
    edits,      \* number of local changes
    denied,     \* those the server refuses
    exposed,    \* those a migration in another tab could not know of, see Exposed and
                \* RemoveStaleTabs
    given,      \* those whose loss the user has accepted with a reset
    recreated,  \* databases that a page created again, deleted since it had listed them
    named,      \* the account got its name later
    unannounced \* a database was deleted and the other tabs will not be told

deviceVars == <<dbs, migrated>>
channelVars == <<known, inbox>>
envVars == <<deployment, server, loads, toggles, resets>>
historyVars == <<edits, denied, exposed, given, recreated, named, unannounced>>
vars == <<deviceVars, tab, channelVars, envVars, historyVars>>

-----------------------------------------------------------------------------
Names == {"byName", "byId"}
Adapters == {"idb", "indexeddb"}
Changes == 1..MaxEdits

\* environment.use_indexeddb_adapter, whether the account has a "username" claim, and
\* whether the browser can list its databases
Deployment == [useIndexeddb : BOOLEAN, username : BOOLEAN, listable : BOOLEAN]

NoDb == [adapter |-> "none", changes |-> {}]
NoTab == [pc |-> "closed", deployment |-> [useIndexeddb |-> TRUE, username |-> TRUE,
          listable |-> TRUE], listed |-> [n \in Names |-> "none"], name |-> "byId",
          adapter |-> "indexeddb", pending |-> FALSE, covered |-> {}, reset |-> FALSE]

Page == [pc : {"closed", "login", "listed", "resolved", "open", "asked", "syncing",
               "destroying", "deleted", "cutOff", "unusable"},
         deployment : Deployment, listed : [Names -> Adapters \cup {"none"}],
         name : Names, adapter : Adapters, pending : BOOLEAN,
         covered : SUBSET Changes, reset : BOOLEAN]

TypeOK ==
    /\ dbs \in [Names -> [adapter : Adapters \cup {"none"}, changes : SUBSET Changes]]
    /\ migrated \in BOOLEAN /\ tab \in [Tabs -> Page]
    /\ known \in [Tabs -> SUBSET Tabs] /\ \A t \in Tabs : t \notin known[t]
    /\ inbox \in [Tabs -> Seq({"hello", "ping", "goodbye", "reload"} \X Tabs)]
    /\ \A t \in Tabs : \A i \in DOMAIN inbox[t] : inbox[t][i][2] # t
    /\ deployment \in Deployment /\ server \subseteq Changes
    /\ edits \in 0..MaxEdits /\ loads \in 0..MaxLoads
    /\ toggles \in 0..MaxToggles /\ resets \in 0..MaxResets
    /\ denied \subseteq Changes /\ exposed \subseteq Changes /\ given \subseteq Changes
    /\ unannounced \in BOOLEAN /\ recreated \subseteq Names /\ named \in BOOLEAN

\* The names of the legacy and the new app database, see db-name-helpers.ts.  An account
\* without a name is named by its id.
LegacyName(d) == IF d.username THEN "byName" ELSE "byId"
NewName == "byId"

\* The device has been used with the legacy adapter, or is new.
Init ==
    /\ deployment \in [useIndexeddb : BOOLEAN, username : BOOLEAN, listable : BOOLEAN]
    /\ \E adapter \in {"none", "idb"} :
          dbs = [n \in Names |-> IF n = LegacyName(deployment)
                                 THEN [NoDb EXCEPT !.adapter = adapter] ELSE NoDb]
    /\ migrated = FALSE
    /\ tab = [t \in Tabs |-> NoTab]
    /\ known = [t \in Tabs |-> {}] /\ inbox = [t \in Tabs |-> <<>>]
    /\ server = {} /\ loads = 0 /\ toggles = 0 /\ resets = 0
    /\ edits = 0 /\ denied = {} /\ exposed = {} /\ given = {}
    /\ unannounced = FALSE /\ recreated = {} /\ named = FALSE

-----------------------------------------------------------------------------
(***************************************************************************)
(* The channel between the tabs                                            *)
(***************************************************************************)
Alive(t) == tab[t].pc # "closed"

\* Every other tab that is open gets the message.
Post(from, type) ==
    [t \in Tabs |-> IF t # from /\ Alive(t) THEN Append(inbox[t], <<type, from>>)
                                           ELSE inbox[t]]

\* With a page that ends, another tab that is syncing for the last time does not find out
\* that there have been changes since it started to.
LeftBehind(t) ==
    exposed \cup UNION {dbs[tab[s].name].changes \ tab[s].covered :
                          s \in {s \in Tabs \ {t} : tab[s].pc = "syncing"}}

\* The page of a tab is gone; it reloads, or not.
Ends(t) ==
    /\ tab' = [tab EXCEPT ![t] = [NoTab EXCEPT !.reset = tab[t].reset]]
    /\ known' = [known EXCEPT ![t] = {}]
    /\ exposed' = LeftBehind(t)

\* beforeunload says goodbye
Leaves(t) == Ends(t) /\ inbox' = [Post(t, "goodbye") EXCEPT ![t] = <<>>]

\* The page ends between the deletion of the database and the message about it.
EndsMigration(t) == tab[t].pc = "deleted" /\ ~Alive(t)'

\* onMessage()
Receive(t) ==
    /\ inbox[t] # <<>>
    /\ LET type == Head(inbox[t])[1]
           from == Head(inbox[t])[2]
           rest == [inbox EXCEPT ![t] = Tail(@)]
       IN \/ /\ type \in {"hello", "ping"}
             /\ known' = [known EXCEPT ![t] = @ \cup {from}]
             /\ inbox' = IF type = "hello" /\ Alive(from)
                         THEN [rest EXCEPT ![from] = Append(@, <<"ping", t>>)] ELSE rest
             /\ UNCHANGED <<tab, exposed>>
          \/ /\ type = "goodbye"
             /\ known' = [known EXCEPT ![t] = @ \ {from}]
             /\ inbox' = rest
             /\ UNCHANGED <<tab, exposed>>
          \/ type = "reload" /\ Leaves(t)
    /\ unannounced' = (unannounced \/ EndsMigration(t))
    /\ UNCHANGED <<deviceVars, envVars, edits, denied, given, recreated, named>>

\* A page has a name of its own, here that of its tab: a tab has noticed the page that is
\* open in another one now when no message of its start, or of the end of the page before
\* it, is still on its way.
Noticed(t, s) ==
    /\ s \in known[t] /\ Alive(s)
    /\ \A i \in DOMAIN inbox[t] : inbox[t][i] \notin {<<"hello", s>>, <<"goodbye", s>>}

\* The next ping of a page that is open reaches a tab that does not know it.  (To one
\* that does it brings nothing new.)
Ping(t) ==
    /\ Alive(t)
    /\ \E s \in Tabs \ {t} :
          /\ Alive(s) /\ t \notin known[s]
          /\ \A i \in DOMAIN inbox[s] : inbox[s][i][2] # t
          /\ inbox' = [inbox EXCEPT ![s] = Append(@, <<"ping", t>>)]
    /\ UNCHANGED <<deviceVars, tab, known, envVars, historyVars>>

\* A tab is forgotten when its pings stay out: its page has ended without a goodbye, or
\* the browser throttles it.  If it is there, and this one is syncing for the last time,
\* what has been changed since may have been changed in it.
RemoveStaleTabs(t) ==
    /\ Alive(t)
    /\ \E s \in known[t] :
          /\ known' = [known EXCEPT ![t] = @ \ {s}]
          /\ exposed' = IF Alive(s) /\ tab[t].pc = "syncing"
                        THEN exposed \cup (dbs[tab[t].name].changes \ tab[t].covered)
                        ELSE exposed
    /\ UNCHANGED <<deviceVars, tab, inbox, envVars, edits, denied, given, recreated, named,
                   unannounced>>

-----------------------------------------------------------------------------
(***************************************************************************)
(* A page: it is loaded, somebody logs in, and its database is opened.     *)
(***************************************************************************)
Open(t) == tab[t].pc \in {"open", "asked", "syncing", "destroying"}

\* The page has been deleting these databases: other tabs lose their connections.
CutOff(t, names) ==
    [s \in Tabs |-> IF s # t /\ Open(s) /\ tab[s].name \in names
                    THEN [tab[s] EXCEPT !.pc = "cutOff"] ELSE tab[s]]

\* runPendingReset() deletes all databases, and MultiTabDetectionService says hello.
Load(t) ==
    /\ ~Alive(t)
    /\ loads < MaxLoads /\ loads' = loads + 1
    /\ LET names == IF tab[t].reset THEN Names ELSE {}
       IN /\ dbs' = [n \in Names |-> IF n \in names THEN NoDb ELSE dbs[n]]
          /\ given' = given \cup UNION {dbs[n].changes : n \in names}
          /\ tab' = [CutOff(t, names) EXCEPT
                        ![t] = [NoTab EXCEPT !.pc = "login", !.deployment = deployment]]
    /\ inbox' = [Post(t, "hello") EXCEPT ![t] = <<>>]
    /\ unannounced' = (unannounced \/ tab[t].reset)
    /\ UNCHANGED <<migrated, known, deployment, server, toggles, resets, edits, denied,
                   exposed, recreated, named>>

\* The page ends, killed or not.
Close(t) ==
    /\ Alive(t)
    /\ Leaves(t) \/ (Ends(t) /\ inbox' = [inbox EXCEPT ![t] = <<>>])
    /\ unannounced' = (unannounced \/ EndsMigration(t))
    /\ UNCHANGED <<deviceVars, envVars, edits, denied, given, recreated, named>>

\* resolveDbConfig(): findExistingDbs() ...
FindExistingDbs(t) ==
    /\ tab[t].pc = "login"
    /\ tab' = [tab EXCEPT ![t].pc = "listed",
                          ![t].listed = [n \in Names |-> dbs[n].adapter]]
    /\ UNCHANGED <<deviceVars, channelVars, envVars, historyVars>>

LegacyConfig(name, pending) == [name |-> name, adapter |-> "idb", pending |-> pending]
NewConfig == [name |-> NewName, adapter |-> "indexeddb", pending |-> FALSE]

\* Whether the databases can be listed and this one was created by this adapter
Is(d, listed, name, adapter) == d.listable /\ listed[name] = adapter

\* Mutant: the migration flag stays when the adapter is disabled.
FlagKept(d, flag) == flag

\* The flag is removed while the adapter is disabled, so that changes made on the legacy
\* database meanwhile are synced.
FlagOf(d, flag) == d.useIndexeddb /\ flag

\* There is no legacy database.
FreshInstall(d, listed) == d.listable /\ listed[LegacyName(d)] # "idb"

\* Mutant: a database of a migrated account is not looked at.
IgnoresIdb(d, listed, flag) ==
    IF ~d.useIndexeddb THEN LegacyConfig(LegacyName(d), FALSE)
    ELSE IF flag \/ FreshInstall(d, listed) THEN NewConfig
    ELSE LegacyConfig(LegacyName(d), TRUE)

\* ... and the rest of it: the database to open.
DbConfig(d, listed, flag) ==
    IF ~d.useIndexeddb
    THEN IF Is(d, listed, LegacyName(d), "indexeddb") THEN NewConfig
         ELSE LegacyConfig(LegacyName(d), FALSE)
    ELSE IF Is(d, listed, NewName, "idb") THEN LegacyConfig(NewName, TRUE)
    ELSE IF flag \/ FreshInstall(d, listed) THEN NewConfig
    ELSE LegacyConfig(LegacyName(d), TRUE)

Resolve(t) ==
    /\ tab[t].pc = "listed"
    /\ LET d == tab[t].deployment
           listed == tab[t].listed
           config == DbConfig(d, listed, migrated)
       IN /\ migrated' = (FlagOf(d, migrated) \/ (d.useIndexeddb /\ config = NewConfig))
          /\ tab' = [tab EXCEPT ![t].pc = "resolved", ![t].name = config.name,
                        ![t].adapter = config.adapter, ![t].pending = config.pending]
    /\ UNCHANGED <<dbs, channelVars, envVars, historyVars>>

\* db.init() creates the database if there is none.  A database of the other adapter
\* cannot be opened.
OpenDatabase(t) ==
    /\ tab[t].pc = "resolved"
    /\ LET adapter == tab[t].adapter
           n == tab[t].name
       IN IF dbs[n].adapter \in {adapter, "none"}
          THEN /\ dbs' = [dbs EXCEPT ![n].adapter = adapter]
               /\ tab' = [tab EXCEPT ![t].pc = "open"]
               /\ recreated' = recreated \cup
                     {m \in {n} : tab[t].listed[n] # "none" /\ dbs[n].adapter = "none"}
          ELSE tab' = [tab EXCEPT ![t].pc = "unusable"] /\ UNCHANGED <<dbs, recreated>>
    /\ UNCHANGED <<migrated, channelVars, envVars, edits, denied, exposed, given, named,
                   unannounced>>

\* Another tab is migrating the database of this one: it syncs for the last time and has
\* not noticed this tab, or it checks no more and deletes the database; or it has deleted
\* it, maybe while a tab was opening it, and this tab is about to reload.
Exposed(t) ==
    \/ tab[t].name \in recreated
    \/ \E s \in Tabs :
          /\ tab[s].name = tab[t].name
          /\ \/ tab[s].pc = "syncing" /\ ~Noticed(s, t)
             \/ tab[s].pc \in {"destroying", "deleted"}
    \/ \E i \in DOMAIN inbox[t] : inbox[t][i][1] = "reload"

\* The user changes something.  Dialogs keep the user from it during the final sync.
Edit(t) ==
    /\ tab[t].pc \in {"open", "asked"}
    /\ edits < MaxEdits /\ edits' = edits + 1
    /\ LET e == edits + 1
           n == tab[t].name
       IN /\ dbs' = [dbs EXCEPT ![n].changes = @ \cup {e}]
          /\ exposed' = IF Exposed(t) THEN exposed \cup {e} ELSE exposed
          /\ \/ UNCHANGED denied
             \/ Cardinality(denied) < MaxDenied /\ denied' = denied \cup {e}
    /\ UNCHANGED <<migrated, tab, channelVars, envVars, given, recreated, named,
                   unannounced>>

\* The sync: changes that the server refuses do not make it fail.
Sync(t) ==
    /\ tab[t].pc \in {"open", "asked"}
    /\ server' = server \cup (dbs[tab[t].name].changes \ denied)
    /\ server' # server
    /\ UNCHANGED <<deviceVars, tab, channelVars, deployment, loads, toggles, resets,
                   historyVars>>

-----------------------------------------------------------------------------
(***************************************************************************)
(* migrate()                                                               *)
(***************************************************************************)
OpenInOtherTabs(t) == known[t] # {}

\* The first sync has completed: the user is asked, unless the app is open elsewhere.
OfferMigration(t) ==
    /\ tab[t].pc = "open" /\ tab[t].pending
    /\ server' = server \cup (dbs[tab[t].name].changes \ denied)
    /\ tab' = [tab EXCEPT ![t].pending = FALSE,
                          ![t].pc = IF OpenInOtherTabs(t) THEN "open" ELSE "asked"]
    /\ UNCHANGED <<deviceVars, channelVars, deployment, loads, toggles, resets, historyVars>>

\* ensureSynced() starts, or the user postpones.
Confirm(t) ==
    /\ tab[t].pc = "asked"
    /\ \/ tab' = [tab EXCEPT ![t].pc = "open"]
       \/ tab' = [tab EXCEPT ![t].pc = "syncing", ![t].covered = dbs[tab[t].name].changes]
    /\ UNCHANGED <<deviceVars, channelVars, envVars, historyVars>>

FinalSyncFails(t) ==
    /\ tab[t].pc = "syncing"
    /\ tab' = [tab EXCEPT ![t].pc = "open", ![t].covered = {}]
    /\ UNCHANGED <<deviceVars, channelVars, envVars, historyVars>>

\* Mutant: the tabs are not checked again.
FinalSyncCompletesUnchecked(t) ==
    /\ tab[t].pc = "syncing"
    /\ server' = server \cup (tab[t].covered \ denied)
    /\ tab' = [tab EXCEPT ![t].covered = {}, ![t].pc = "destroying"]
    /\ UNCHANGED <<deviceVars, channelVars, deployment, loads, toggles, resets, historyVars>>

\* What was there when the final sync started is on the server.
FinalSyncCompletes(t) ==
    /\ tab[t].pc = "syncing"
    /\ server' = server \cup (tab[t].covered \ denied)
    /\ tab' = [tab EXCEPT ![t].covered = {},
                          ![t].pc = IF OpenInOtherTabs(t) THEN "open" ELSE "destroying"]
    /\ UNCHANGED <<deviceVars, channelVars, deployment, loads, toggles, resets, historyVars>>

\* deleteLegacyDbs(): other tabs that had the database open lose the connection.
DeleteLegacyDb(t) ==
    /\ tab[t].pc = "destroying"
    /\ dbs' = [dbs EXCEPT ![tab[t].name] = NoDb]
    /\ tab' = [CutOff(t, {tab[t].name}) EXCEPT ![t].pc = "deleted"]
    /\ UNCHANGED <<migrated, channelVars, envVars, historyVars>>

\* It fails, before or after the database is gone: the page reloads.
DeletionFails(t) ==
    /\ tab[t].pc = "destroying"
    /\ \E names \in {{}, {tab[t].name}} :
          /\ dbs' = [n \in Names |-> IF n \in names THEN NoDb ELSE dbs[n]]
          /\ tab' = [CutOff(t, names) EXCEPT ![t] = [NoTab EXCEPT !.reset = tab[t].reset]]
          /\ unannounced' = (unannounced \/ names # {})
    /\ known' = [known EXCEPT ![t] = {}]
    /\ inbox' = [Post(t, "goodbye") EXCEPT ![t] = <<>>]
    /\ exposed' = LeftBehind(t)
    /\ UNCHANGED <<migrated, envVars, edits, denied, given, recreated, named>>

\* Mutant: the other tabs are not told.
FinishMigrationSilently(t) ==
    /\ tab[t].pc = "deleted"
    /\ migrated' = TRUE
    /\ Leaves(t)
    /\ UNCHANGED <<dbs, envVars, edits, denied, given, recreated, named, unannounced>>

\* setMigrated(), reloadOtherTabs(), and a reload
FinishMigration(t) ==
    /\ tab[t].pc = "deleted"
    /\ migrated' = TRUE
    /\ Ends(t)
    /\ inbox' = [s \in Tabs |->
          IF s = t THEN <<>>
          ELSE IF Alive(s) THEN inbox[s] \o <<<<"reload", t>>, <<"goodbye", t>>>>
          ELSE inbox[s]]
    /\ UNCHANGED <<dbs, envVars, edits, denied, given, recreated, named, unannounced>>

-----------------------------------------------------------------------------
(***************************************************************************)
(* The user resets the device, and the deployment changes.                 *)
(***************************************************************************)

\* resetLocalDevice() clears the local storage, the recovery of a corrupted database does
\* not; both mark the reset as pending and reload.
MarkResetPending(t) ==
    /\ tab[t].pc \in {"open", "cutOff", "unusable"}
    /\ resets < MaxResets /\ resets' = resets + 1
    /\ migrated' \in {FALSE, migrated}
    /\ tab' = [tab EXCEPT ![t] = [NoTab EXCEPT !.reset = TRUE]]
    /\ known' = [known EXCEPT ![t] = {}]
    /\ inbox' = [Post(t, "goodbye") EXCEPT ![t] = <<>>]
    /\ exposed' = LeftBehind(t)
    /\ UNCHANGED <<dbs, deployment, server, loads, toggles, edits, denied, given, recreated,
                   named, unannounced>>

\* The adapter is enabled or disabled.
Toggle ==
    /\ toggles < MaxToggles /\ toggles' = toggles + 1
    /\ deployment' = [deployment EXCEPT !.useIndexeddb = ~@]
    /\ UNCHANGED <<deviceVars, tab, channelVars, server, loads, resets, historyVars>>

\* The account gets a "username" claim.
NameAccount ==
    /\ ~deployment.username /\ deployment' = [deployment EXCEPT !.username = TRUE]
    /\ named' = TRUE
    /\ UNCHANGED <<deviceVars, tab, channelVars, server, loads, toggles, resets, edits,
                   denied, exposed, given, recreated, unannounced>>

Migrate(t) ==
    \/ OfferMigration(t) \/ Confirm(t) \/ FinalSyncFails(t) \/ FinalSyncCompletes(t)
    \/ DeleteLegacyDb(t) \/ DeletionFails(t) \/ FinishMigration(t)

Next ==
    \/ \E t \in Tabs :
          \/ Receive(t) \/ Ping(t) \/ RemoveStaleTabs(t)
          \/ Load(t) \/ Close(t) \/ FindExistingDbs(t) \/ Resolve(t) \/ OpenDatabase(t)
          \/ Edit(t) \/ Sync(t) \/ Migrate(t) \/ MarkResetPending(t)
    \/ Toggle \/ NameAccount

Spec == Init /\ [][Next]_vars

-----------------------------------------------------------------------------
(***************************************************************************)
(* Properties                                                              *)
(***************************************************************************)
Kept(e) == e \in server \/ \E n \in Names : e \in dbs[n].changes

\* The final sync covers what is deleted: no local change is lost, except for those made
\* in another tab that the one that migrates has not found, finds too late, or has
\* forgotten: one that the browser throttles stays silent for longer than 7 s
\* (multi-tab-detection.service.ts:147-155, indexeddb-migration.service.ts:215).
NothingIsLost ==
    \A e \in 1..edits : Kept(e) \/ e \in denied \cup exposed \cup given

\* Several tabs are only open as long as the adapter has not been switched, the account not
\* named later and the device not reset; and the adapter is not switched for an account
\* that is named later.
Alone == \A s, t \in Tabs : Alive(s) /\ Alive(t) => s = t
Constant == toggles = 0 /\ resets = 0 /\ ~named
Steady == (named => toggles = 0) /\ (Constant \/ Alone)

\* "After a final sync pushed all local changes of the legacy DB, so that none is left
\* behind": whoever opens the new database leaves no local change in a legacy one.
NothingIsForgotten ==
    \A t \in Tabs :
        LET legacy == dbs[LegacyName(tab[t].deployment)]
        IN /\ tab[t].pc = "open"
           /\ tab[t].adapter = "indexeddb"
           /\ legacy.adapter = "idb"
           => legacy.changes \subseteq server \cup denied \cup exposed

\* A database is only opened with an adapter that cannot read it if another tab has
\* replaced it since the databases were listed, or if they cannot be.
AdapterFits ==
    [][\A t \in Tabs :
          tab[t].pc = "resolved" /\ tab'[t].pc = "unusable" /\ tab[t].deployment.listable
            => tab[t].listed[tab[t].name] # dbs[tab[t].name].adapter]_vars

\* A tab whose database another tab has deleted is going to be told to reload, unless
\* that page ended in between.
CutOffTabsReload ==
    \A t \in Tabs : tab[t].pc = "cutOff" =>
        \/ unannounced
        \/ \E s \in Tabs : tab[s].pc = "deleted"
        \/ \E i \in DOMAIN inbox[t] : inbox[t][i][1] = "reload"
=============================================================================
