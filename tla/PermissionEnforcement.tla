------------------------ MODULE PermissionEnforcement ------------------------
(***************************************************************************)
(* From the permission rules of the instance to what a user's local        *)
(* database holds: AbilityService derives the rules of the current user    *)
(* and hands them to LocalPermissionEnforcerService, which purges local    *)
(* data they deny reading, re-syncs, and stores the rules as enforced.     *)
(*                                                                         *)
(* The rules of a user, which the code compares and stores as a JSON       *)
(* string, are the set of the documents they permit reading, each document *)
(* being the only one of its entity type.  A version of the permissions    *)
(* config assigns such a set to every user and to sessions without one.    *)
(* Derivations wait for the user entity, enforcements for the database and *)
(* the server; several of both may be under way, also across a logout that *)
(* the page survives.  Each user has a local database of their own.        *)
(***************************************************************************)
EXTENDS Integers, Sequences, SequencesExt

CONSTANTS
    Docs, Users,
    RuleSets,        \* versions of the permissions config
    NoUser,
    Scenarios        \* devices and environments: see Scenario

\* No permissions config: everything is allowed.
AllowAll == [u \in Users \cup {NoUser} |-> Docs]

ASSUME RulesAssumption ==
    /\ NoUser \notin Users
    /\ RuleSets \subseteq [Users \cup {NoUser} -> SUBSET Docs] \ {AllowAll}
    /\ RuleSets # {}

\* A device with its users, whose databases run on an adapter and may have been synced
\* before, and how much its environment does: changes of the permissions config, logins and page
\* loads, failures, whether the connection is lost among them, and a bound on the
\* enforcements under way at once.
Scenario ==
    [users : SUBSET Users, adapter : {"idb", "indexeddb"}, syncedBefore : BOOLEAN,
     rules : SUBSET RuleSets,
     changes : Nat, sessions : Nat, faults : Nat, offline : BOOLEAN, runs : Nat]

ASSUME ScenarioAssumption ==
    Scenarios \subseteq Scenario /\ \A x \in Scenarios : x.rules # {}

VARIABLES
    \* the server
    serverRules,     \* its version of the permissions config
    \* kept on the device, per user
    local,           \* documents held in the local database
    dbRules,         \* the version of the config held there
    synced,          \* the database has been synced, there is a checkpoint
    stored,          \* the rules in localStorage: none, or a set of one
    \* the page
    online,
    session,         \* sessionInfo
    loaded,          \* currentUser is not undefined
    setupCompleted,  \* the config of the app has been applied in this page
    svc,             \* AbilityService and its enforcements
    \* the environment
    scenario,        \* what it is like, and how often it has done what it may
    changes, sessions, faults

deviceVars == <<local, dbRules, synced, stored>>
pageVars == <<session, loaded, setupCompleted>>
budgetVars == <<changes, sessions, faults>>
vars == <<serverRules, deviceVars, pageVars, online, svc, scenario, budgetVars>>

-----------------------------------------------------------------------------
RuleVersion == RuleSets \cup {AllowAll}
Derivation == [rules : SUBSET Docs, initial : BOOLEAN]

\* An enforcement: the types it has still to scan, and the database it syncs
Run == [rules : SUBSET Docs, initial : BOOLEAN,
        pc : {"check", "first", "syncing", "second"}, todo : SUBSET Docs,
        db : Users \cup {NoUser}]

Service ==
    [init : {"loading", "initial", "subscribed", "dead"},  \* initializeRules()
     current : RuleVersion,      \* currentRules, undefined = AllowAll
     known : BOOLEAN,            \* rulesKnown
     ability : SUBSET Docs,
     waiting : Seq(Derivation),  \* derivations waiting for currentUser
     runs : Seq(Run)]            \* enforcements under way

TypeOK ==
    /\ serverRules \in RuleSets
    /\ local \in [Users -> SUBSET Docs]
    /\ dbRules \in [Users -> RuleVersion]
    /\ synced \in [Users -> BOOLEAN]
    /\ stored \in [Users -> {{}} \cup {{r} : r \in SUBSET Docs}]
    /\ scenario \in Scenarios
    /\ online \in BOOLEAN /\ loaded \in BOOLEAN /\ setupCompleted \in BOOLEAN
    /\ session \in Users \cup {NoUser}
    /\ svc \in Service
    /\ changes \in Nat /\ sessions \in Nat /\ faults \in Nat

NewPage == [init |-> "loading", current |-> AllowAll, known |-> FALSE, ability |-> {},
            waiting |-> <<>>, runs |-> <<>>]

Init ==
    /\ scenario \in Scenarios
    /\ serverRules \in scenario.rules
    /\ LET before == scenario.syncedBefore
       IN /\ synced = [u \in Users |-> before]
          /\ local = [u \in Users |-> IF before THEN serverRules[u] ELSE {}]
          /\ dbRules = [u \in Users |-> IF before THEN serverRules ELSE AllowAll]
          /\ stored = [u \in Users |-> IF before THEN {serverRules[u]} ELSE {}]
    /\ online = TRUE /\ session = NoUser /\ loaded = FALSE /\ setupCompleted = FALSE
    /\ svc = NewPage
    /\ changes = 0 /\ sessions = 0 /\ faults = 0

-----------------------------------------------------------------------------
(***************************************************************************)
(* What happens in AbilityService between two awaits, as functions of its  *)
(* state s and of what it reads: the user of the session, whether their    *)
(* entity is loaded, and the stored rules.                                 *)
(***************************************************************************)
Legacy == scenario.adapter = "idb"

Now == [user |-> session, loaded |-> loaded, stored |-> stored]

\* enforcePermissionsOnLocalData(), up to its first await
Enforce(s, r, initial, c) ==
    IF c.stored[c.user] = {r} THEN s
    ELSE [s EXCEPT !.runs = Append(s.runs,
             [rules |-> r, initial |-> initial, todo |-> Docs \ r, db |-> NoUser,
              pc |-> IF Legacy THEN "check" ELSE "first"])]

\* A derived set of rules takes effect.
Apply(s, r, initial, c) == Enforce([s EXCEPT !.ability = r], r, initial, c)

\* updateAbilityWithUserRules(): the rules are picked at once, and applied when
\* the user entity is there to fill in their variables.
Derive(s, initial, c) ==
    LET r == s.current[c.user]
    IN IF c.user = NoUser THEN [s EXCEPT !.ability = r]
       ELSE IF c.loaded THEN Apply(s, r, initial, c)
       ELSE [s EXCEPT !.waiting = Append(s.waiting, [rules |-> r, initial |-> initial])]

\* applyLastKnownRules()
LastKnown(c) ==
    IF c.user # NoUser /\ c.stored[c.user] # {}
    THEN CHOOSE r \in c.stored[c.user] : TRUE ELSE Docs

\* Mutant: the permissive fallback is derived and enforced like known rules.
ReactToUnknown(s, c) ==
    IF s.init # "subscribed" THEN s ELSE Derive(s, FALSE, c)

\* The subscription at the end of initializeRules(): new rules, another session
\* or another user entity.
React(s, c) ==
    IF s.init # "subscribed" THEN s
    ELSE IF s.known THEN Derive(s, FALSE, c)
    ELSE [s EXCEPT !.ability = LastKnown(c)]

\* Mutant: it reacts only to what changes from now on.
SubscribeToChanges(s, c) == [s EXCEPT !.init = "subscribed"]

\* It reacts at once to the session and to the user entity there are.
Subscribe(s, c) == React(React([s EXCEPT !.init = "subscribed"], c), c)

\* Derivations that were waiting go on one after the other.
ApplyAll(s, waiting, c) ==
    LET after[n \in 0..Len(waiting)] ==
            IF n = 0 THEN s
            ELSE Apply(after[n - 1], waiting[n].rules, waiting[n].initial, c)
    IN after[Len(waiting)]

Initial(derivations) == \E i \in DOMAIN derivations : derivations[i].initial

\* initializeRules() awaits its derivation, and the enforcement that belongs to it.
Resume(s, c) ==
    IF s.init = "initial" /\ ~Initial(s.waiting) /\ ~Initial(s.runs)
    THEN Subscribe(s, c) ELSE s

\* entityUpdated emits the permissions config.
RulesUpdated(s, rules, c) == React([s EXCEPT !.current = rules, !.known = TRUE], c)

-----------------------------------------------------------------------------
\* A step of the service; the number of enforcements under way is bounded.
Becomes(s) == svc' = s /\ Len(s.runs) <= scenario.runs

UseFault == faults < scenario.faults /\ faults' = faults + 1

\* startLoading(), once a database is open: the config is there, or missing
\* (404), or cannot be read.
LoadRules ==
    /\ svc.init = "loading" /\ session # NoUser
    /\ \/ /\ dbRules[session] # AllowAll
          /\ Becomes(Resume(Derive([svc EXCEPT !.init = "initial", !.known = TRUE,
                                              !.current = dbRules[session]],
                                  TRUE, Now), Now))
          /\ UNCHANGED faults
       \/ /\ dbRules[session] = AllowAll
          /\ Becomes(Subscribe([svc EXCEPT !.known = TRUE, !.ability = Docs], Now))
          /\ UNCHANGED faults
       \/ /\ UseFault
          /\ Becomes(Subscribe([svc EXCEPT !.ability = IF svc.known THEN Docs
                                                      ELSE LastKnown(Now)], Now))
    /\ UNCHANGED <<serverRules, deviceVars, pageVars, online, changes, sessions>>

UseSession == sessions < scenario.sessions /\ sessions' = sessions + 1

LogIn(u) ==
    /\ session = NoUser
    /\ UseSession
    /\ session' = u
    /\ Becomes(React(svc, [Now EXCEPT !.user = u]))
    /\ UNCHANGED <<serverRules, deviceVars, loaded, setupCompleted, online, changes,
                   faults>>

\* currentUser emits: the subscription reacts first, then the derivations that
\* were waiting go on.
UserLoaded ==
    /\ session # NoUser /\ ~loaded
    /\ setupCompleted \/ synced[session]
    /\ loaded' = TRUE /\ setupCompleted' = TRUE
    /\ LET c == [Now EXCEPT !.loaded = TRUE]
       IN Becomes(Resume(ApplyAll(React([svc EXCEPT !.waiting = <<>>], c), svc.waiting, c), c))
    /\ UNCHANGED <<serverRules, deviceVars, session, online, budgetVars>>

\* logout() of a session that the page survives
LogOut ==
    /\ session # NoUser
    /\ session' = NoUser /\ loaded' = FALSE
    /\ Becomes(React(svc, [Now EXCEPT !.user = NoUser]))
    /\ UNCHANGED <<serverRules, deviceVars, setupCompleted, online, budgetVars>>

\* The page is loaded again, e.g. after a crash.
PageLoad ==
    /\ UseSession
    /\ session' = NoUser /\ loaded' = FALSE /\ setupCompleted' = FALSE
    /\ svc' = NewPage
    /\ UNCHANGED <<serverRules, deviceVars, online, changes, faults>>

ServerRulesChange ==
    /\ changes < scenario.changes /\ changes' = changes + 1
    /\ serverRules' \in scenario.rules \ {serverRules}
    /\ UNCHANGED <<deviceVars, pageVars, online, svc, sessions, faults>>

GoOffline ==
    /\ scenario.offline /\ online /\ online' = FALSE
    /\ UseFault
    /\ UNCHANGED <<serverRules, deviceVars, pageVars, svc, changes, sessions>>

GoOnline ==
    /\ ~online /\ online' = TRUE
    /\ UNCHANGED <<serverRules, deviceVars, pageVars, svc, budgetVars>>

\* The live sync brings what has changed since its checkpoint: the config, and
\* on the first sync also all documents.
LiveSync ==
    /\ session # NoUser /\ online
    /\ ~synced[session] \/ dbRules[session] # serverRules
    /\ local' = IF synced[session] THEN local
                ELSE [local EXCEPT ![session] = local[session] \cup serverRules[session]]
    /\ dbRules' = [dbRules EXCEPT ![session] = serverRules]
    /\ synced' = [synced EXCEPT ![session] = TRUE]
    /\ Becomes(RulesUpdated(svc, serverRules, Now))
    /\ UNCHANGED <<serverRules, stored, pageVars, online, budgetVars>>

-----------------------------------------------------------------------------
(***************************************************************************)
(* An enforcement.  Its accesses to "the" database wait until one is open, *)
(* and then go to the one of the current session.                          *)
(***************************************************************************)

\* Only a step of run k
RunOnly == UNCHANGED <<serverRules, pageVars, online, changes, sessions>>

Scanning(k) == svc.runs[k].pc \in {"first", "second"}

\* The run is over.  An exception ends initializeRules() when it awaits the run,
\* and is logged otherwise.
Over(s, k, thrown, c) ==
    Resume([s EXCEPT !.runs = RemoveAt(s.runs, k),
                     !.init = IF thrown /\ s.runs[k].initial THEN "dead" ELSE s.init],
           c)

\* purgeEntitiesWithoutPermissions(), for one of the restricted types: what the
\* current ability denies reading is purged; a failed purge is logged.
PurgeType(k, d) ==
    /\ Scanning(k) /\ d \in svc.runs[k].todo
    /\ session # NoUser
    /\ svc' = [svc EXCEPT !.runs[k].todo = svc.runs[k].todo \ {d}]
    /\ \/ /\ local' = IF d \in svc.ability THEN local
                       ELSE [local EXCEPT ![session] = local[session] \ {d}]
          /\ UNCHANGED faults
       \/ /\ d \in local[session] \ svc.ability
          /\ UseFault /\ UNCHANGED local
    /\ UNCHANGED <<dbRules, synced, stored>>
    /\ RunOnly

\* loadType() rejects.
ScanFails(k) ==
    /\ Scanning(k) /\ svc.runs[k].todo # {}
    /\ UseFault
    /\ Becomes(Over(svc, k, TRUE, Now))
    /\ UNCHANGED deviceVars
    /\ RunOnly

\* Mutant: local data that may not be read any more is kept.
CheckLegacyKeepsData(k) ==
    /\ svc.runs[k].pc = "check" /\ session # NoUser
    /\ svc' = [svc EXCEPT !.runs[k].pc = "first", !.runs[k].todo = {}]
    /\ UNCHANGED <<serverRules, deviceVars, pageVars, online, budgetVars>>

\* Legacy adapter: when local data may not be read any more, the database is
\* destroyed, the rules are stored, and the page reloads.
CheckLegacy(k) ==
    LET r == svc.runs[k]
    IN /\ r.pc = "check" /\ session # NoUser
       /\ IF \E d \in r.todo : d \in local[session] \ svc.ability
          THEN /\ local' = [local EXCEPT ![session] = {}]
               /\ dbRules' = [dbRules EXCEPT ![session] = AllowAll]
               /\ synced' = [synced EXCEPT ![session] = FALSE]
               /\ stored' = [stored EXCEPT ![session] = {r.rules}]
               /\ session' = NoUser /\ loaded' = FALSE /\ setupCompleted' = FALSE
               /\ svc' = NewPage
          ELSE /\ svc' = [svc EXCEPT !.runs[k].pc = "first", !.runs[k].todo = {}]
               /\ UNCHANGED <<deviceVars, pageVars>>
       /\ UNCHANGED <<serverRules, online, budgetVars>>

\* Mutant: the rules are stored before they are enforced.
StartResyncStoresFirst(k) ==
    /\ svc.runs[k].pc = "first" /\ svc.runs[k].todo = {}
    /\ online /\ session # NoUser
    /\ svc' = [svc EXCEPT !.runs[k].pc = "syncing", !.runs[k].db = session]
    /\ stored' = [stored EXCEPT ![session] = {svc.runs[k].rules}]
    /\ UNCHANGED <<local, dbRules, synced, budgetVars, serverRules, pageVars, online>>

\* resetSync(), which resolves at once when the device is offline.
StartResync(k) ==
    /\ svc.runs[k].pc = "first" /\ svc.runs[k].todo = {}
    /\ \/ /\ ~online
          /\ svc' = [svc EXCEPT !.runs[k].pc = "second",
                         !.runs[k].todo = IF Legacy THEN {} ELSE Docs \ svc.runs[k].rules]
       \/ /\ online /\ session # NoUser
          /\ svc' = [svc EXCEPT !.runs[k].pc = "syncing", !.runs[k].db = session]
    /\ UNCHANGED <<deviceVars, budgetVars, serverRules, pageVars, online>>

\* Mutant: no second pass after the sync.
ResyncCompletesOnePass(k) ==
    LET u == svc.runs[k].db
        s == [svc EXCEPT !.runs[k].pc = "second",
                         !.runs[k].todo = {}]
    IN /\ svc.runs[k].pc = "syncing" /\ online
       /\ \/ local' = [local EXCEPT ![u] = serverRules[u]] /\ UNCHANGED faults
          \/ local' = [local EXCEPT ![u] = Docs] /\ UseFault
       /\ dbRules' = [dbRules EXCEPT ![u] = serverRules]
       /\ synced' = [synced EXCEPT ![u] = TRUE]
       /\ Becomes(IF u = session /\ dbRules[u] # serverRules
                  THEN RulesUpdated(s, serverRules, Now) ELSE s)
       /\ UNCHANGED stored
       /\ RunOnly

\* The full sync is complete: all the documents the server lets the user read
\* have arrived, the config among them, and the others were purged.  Or some were
\* not: a purge failed, or the server has not processed the new access yet.
ResyncCompletes(k) ==
    LET u == svc.runs[k].db
        s == [svc EXCEPT !.runs[k].pc = "second",
                 !.runs[k].todo = IF Legacy THEN {} ELSE Docs \ svc.runs[k].rules]
    IN /\ svc.runs[k].pc = "syncing" /\ online
       /\ \/ /\ local' = [local EXCEPT ![u] =
                  IF Legacy THEN local[u] \cup serverRules[u] ELSE serverRules[u]]
             /\ UNCHANGED faults
          \/ /\ UseFault
             /\ local' = [local EXCEPT ![u] = Docs]
       /\ dbRules' = [dbRules EXCEPT ![u] = serverRules]
       /\ synced' = [synced EXCEPT ![u] = TRUE]
       /\ Becomes(IF u = session /\ dbRules[u] # serverRules
                  THEN RulesUpdated(s, serverRules, Now) ELSE s)
       /\ UNCHANGED stored
       /\ RunOnly

\* Mutant: the failure of the sync is not noticed.
ResyncFailsUnnoticed(k) ==
    /\ svc.runs[k].pc = "syncing"
    /\ IF online THEN UseFault ELSE UNCHANGED faults
    /\ Becomes([svc EXCEPT !.runs[k].pc = "second",
                           !.runs[k].todo = Docs \ svc.runs[k].rules])
    /\ UNCHANGED deviceVars
    /\ RunOnly

\* The sync fails: the rules are not stored.
ResyncFails(k) ==
    /\ svc.runs[k].pc = "syncing"
    /\ IF online THEN UseFault ELSE UNCHANGED faults
    /\ Becomes(Over(svc, k, FALSE, Now))
    /\ UNCHANGED deviceVars
    /\ RunOnly

\* The rules are stored for the user of the session there is now; without a
\* session that throws.
Store(k) ==
    /\ svc.runs[k].pc = "second" /\ svc.runs[k].todo = {}
    /\ stored' = IF session = NoUser THEN stored
                 ELSE [stored EXCEPT ![session] = {svc.runs[k].rules}]
    /\ Becomes(Over(svc, k, session = NoUser, [Now EXCEPT !.stored = stored']))
    /\ UNCHANGED <<local, dbRules, synced, faults>>
    /\ RunOnly

-----------------------------------------------------------------------------
RunStep(k) ==
    \/ \E d \in Docs : PurgeType(k, d)
    \/ ScanFails(k) \/ CheckLegacy(k)
    \/ StartResync(k) \/ ResyncCompletes(k) \/ ResyncFails(k) \/ Store(k)

Page == LoadRules \/ UserLoaded \/ (\E u \in scenario.users : LogIn(u)) \/ LogOut \/ PageLoad

Environment == ServerRulesChange \/ GoOffline \/ GoOnline

Next ==
    /\ Page \/ Environment \/ LiveSync \/ (\E k \in DOMAIN svc.runs : RunStep(k))
    /\ UNCHANGED scenario

Spec == Init /\ [][Next]_vars

-----------------------------------------------------------------------------
(***************************************************************************)
(* Properties                                                              *)
(***************************************************************************)

\* Once the subscription is there, permissions follow the latest known rules for
\* whoever is logged in, however rule updates, logins and the loading of the user
\* entity interleave, and although derivations wait and are applied late.
AbilityFollowsRules ==
    svc.init = "subscribed" /\ svc.known /\ (session = NoUser \/ loaded)
        => svc.ability = svc.current[session]

\* While the rules could not be loaded, nobody gets more than was enforced last,
\* and nothing is enforced.
UnknownRulesStayAsTheyWere ==
    ~svc.known =>
        /\ svc.runs = <<>>
        /\ svc.init = "subscribed" /\ session # NoUser /\ stored[session] # {}
             => svc.ability \in stored[session]

Settled ==
    /\ svc.init = "subscribed" /\ svc.known /\ session # NoUser /\ loaded
    /\ synced[session] /\ svc.runs = <<>>

\* When nothing is under way, and the rules stored as enforced are those in force,
\* the local database holds exactly what they permit: no check would purge or
\* fetch anything any more.  (On a device with one user, when no request fails, or one
\* does in a single session: the second pass or the next start makes up for it, which the
\* legacy adapter cannot, and no overlapping enforcement stores the rules before.)
EnforcedMeansEnforced ==
    (/\ scenario.users = {session} /\ Settled
     /\ faults = 0 \/ (faults = 1 /\ sessions = 1 /\ ~Legacy)
     /\ stored[session] = {svc.ability} /\ svc.ability = serverRules[session])
    => local[session] = svc.ability
=============================================================================
