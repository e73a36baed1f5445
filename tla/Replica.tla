------------------------------ MODULE Replica ------------------------------
(***************************************************************************)
(* What a local database promises to the app: it is a replica of the       *)
(* documents the user may read on the server.  It may lag behind, but it   *)
(* never goes back to an older version, it gives up local changes only by  *)
(* sending them or having them refused, it forgets documents only when the *)
(* user has lost access to them or when it is wiped as a whole, and it     *)
(* knows a point of the server's history up to which it is complete.       *)
(***************************************************************************)
EXTENDS Integers

CONSTANT Docs

VARIABLES
    updateSeq,  \* sequence number of the server's latest change
    server,     \* per document: seq of its latest change, access of this user
    local,      \* per document: held, the last change seen, and unsent changes
    complete    \* no change up to here is missing

vars == <<updateSeq, server, local, complete>>

Absent == [held |-> FALSE, seen |-> 0, unsent |-> "no"]
Access == {"none", "read", "write"}

Init ==
    /\ updateSeq \in Nat
    /\ \A d \in Docs : server[d].access = "write" /\ server[d].seq <= updateSeq
    /\ local = [d \in Docs |-> Absent]
    /\ complete = 0

-----------------------------------------------------------------------------
\* The replica l holds what may be read of everything up to n.
CompleteUpTo(l, n) ==
    \A d \in Docs :
        server[d].access # "none" /\ 0 < server[d].seq /\ server[d].seq <= n
            => l[d].held /\ l[d].seen = server[d].seq

\* A document is changed on the server, and with it who may access it.
ServerChange(d) ==
    /\ updateSeq' = updateSeq + 1
    /\ \E a \in Access : server' = [server EXCEPT ![d] = [seq |-> updateSeq + 1, access |-> a]]
    /\ UNCHANGED <<local, complete>>

\* The user creates or changes a document.
LocalEdit(d) ==
    /\ local[d].held \/ server[d].seq = 0
    /\ local' = [local EXCEPT ![d] = [local[d] EXCEPT !.held = TRUE, !.unsent = "yes"]]
    /\ UNCHANGED <<updateSeq, server, complete>>

\* Versions of documents arrive, none older than what is there, and with them what
\* the replica claims to be complete up to may change.
Receive ==
    /\ \E arrived \in SUBSET Docs : \E version \in [arrived -> 1..updateSeq] :
          /\ \A d \in arrived : version[d] \in local[d].seen..server[d].seq
          /\ local' = [d \in Docs |->
                IF d \in arrived THEN [local[d] EXCEPT !.held = TRUE, !.seen = version[d]]
                ELSE local[d]]
    /\ complete' \in 0..updateSeq /\ CompleteUpTo(local', complete')
    /\ UNCHANGED <<updateSeq, server>>

\* The server takes the local changes of a document, or refuses them.
Send(d) ==
    /\ local[d].unsent # "no"
    /\ \/ /\ server[d].access = "write"
          /\ updateSeq' = updateSeq + 1
          /\ server' = [server EXCEPT ![d].seq = updateSeq + 1]
          /\ local' = [local EXCEPT ![d] = [local[d] EXCEPT !.unsent = "no",
                          !.seen = IF @ = server[d].seq THEN updateSeq + 1 ELSE @]]
       \/ /\ server[d].access # "write"
          /\ local' = [local EXCEPT ![d].unsent = "refused"]
          /\ UNCHANGED <<updateSeq, server>>
    /\ UNCHANGED complete

\* A document is forgotten because access to it is lost.
Forget(d) ==
    /\ server[d].access = "none"
    /\ local' = [local EXCEPT ![d] = Absent]
    /\ UNCHANGED <<updateSeq, server, complete>>

\* The database is deleted as a whole.
Wipe ==
    /\ local' = [d \in Docs |-> Absent]
    /\ complete' = 0
    /\ UNCHANGED <<updateSeq, server>>

Next ==
    \/ \E d \in Docs : ServerChange(d) \/ LocalEdit(d) \/ Send(d) \/ Forget(d)
    \/ Receive
    \/ Wipe

Spec == Init /\ [][Next]_vars
=============================================================================
