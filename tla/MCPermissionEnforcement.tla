---------------------- MODULE MCPermissionEnforcement ----------------------
(***************************************************************************)
(* Instances of PermissionEnforcement for TLC.                             *)
(***************************************************************************)
EXTENDS PermissionEnforcement

CONSTANTS d1, d2, u1, u2

\* Two versions of the config: every user may read d1, or every user d2.
SameForAll ==
    {[u \in Users \cup {NoUser} |-> IF u = NoUser THEN {} ELSE r] :
        r \in {{d1}, {d2}}}

\* u1 may read d1, u2 may read d2.
OnePerUser ==
    {[u \in Users \cup {NoUser} |->
        IF u = u1 THEN {d1} ELSE IF u = u2 THEN {d2} ELSE {}]}

AllRuleSets == SameForAll \cup OnePerUser

\* The config changes once, and a request fails.
RulesChange ==
    [adapter |-> "indexeddb", syncedBefore |-> TRUE, rules |-> SameForAll,
     users |-> {u1}, changes |-> 1, sessions |-> 1, faults |-> 1,
     offline |-> FALSE, runs |-> 3]

\* The config changes once, the page is loaded again and again.
Reloads(adapter) ==
    [adapter |-> adapter, syncedBefore |-> TRUE, rules |-> SameForAll,
     users |-> {u1}, changes |-> 1, sessions |-> 4, faults |-> 0,
     offline |-> FALSE, runs |-> 4]

\* Two users share a new device, which loses its connection or fails otherwise.
SharedDevice ==
    [adapter |-> "indexeddb", syncedBefore |-> FALSE, rules |-> OnePerUser,
     users |-> Users, changes |-> 0, sessions |-> 3, faults |-> 2,
     offline |-> TRUE, runs |-> 3]

AllScenarios == {RulesChange, Reloads("idb"), Reloads("indexeddb"), SharedDevice}
=============================================================================
