-------------------- MODULE SyncedPouchDatabase_proofs --------------------
(***************************************************************************)
(* Proofs about SyncedPouchDatabase, for any documents, any number of      *)
(* overlapping sync() calls and any bounds.                                *)
(***************************************************************************)
EXTENDS SyncedPouchDatabase, TLAPS

\* An unused promise has the type of a call.
LEMMA IdleTyped == IdleCall \in CallState
  BY DEF IdleCall, CallState, NoBatch

\* The types of the fields of a call.
LEMMA CallFields ==
  ASSUME TypeOK, NEW c \in Calls
  PROVE  /\ call[c] \in CallState
         /\ call[c].first \in BOOLEAN /\ call[c].full \in BOOLEAN
         /\ call[c].since \in Nat /\ call[c].upto \in Nat
         /\ call[c].got \in [Docs -> Nat]
         /\ call[c].dirs \in SUBSET {"pull", "push"}
         /\ call[c].toPurge \in SUBSET Docs /\ call[c].handle \in BOOLEAN
         /\ call[c].owedDocs \in SUBSET Docs
         /\ call[c].reported \in SUBSET Docs
  BY DEF TypeOK, CallState

\* The types of the fields of a local and of a server document.
LEMMA DocFields ==
  ASSUME TypeOK, NEW d \in Docs
  PROVE  /\ local[d] \in DocState /\ local[d].seen \in Nat
         /\ local[d].held \in BOOLEAN
         /\ server[d].seq \in Nat /\ server[d].access \in Access
  BY DEF TypeOK, DocState

\* A step that writes one well-typed call keeps the type of the variable.
LEMMA CallTyped ==
  ASSUME TypeOK, NEW c \in Calls, NEW r \in CallState, call' = [call EXCEPT ![c] = r]
  PROVE  call' \in [Calls -> CallState]
  BY DEF TypeOK

\* What Emit writes is well-typed.
LEMMA EmitTyped ==
  ASSUME TypeOK, NEW s \in SyncState, Emit(s)
  PROVE  syncState' \in SyncState /\ lastSync' \in BOOLEAN
  BY DEF TypeOK, Emit

\* Every way a started sync settles keeps the types.
LEMMA SettlesTyped ==
  ASSUME TypeOK, NEW c \in Calls, NEW s \in SyncState, Settles(c, s),
         UNCHANGED budgetVars \/ RequestFails
  PROVE  TypeOK'
<1>1. call' \in [Calls -> CallState]
  BY IdleTyped, CallTyped DEF Settles
<1>2. syncState' \in SyncState /\ lastSync' \in BOOLEAN
  BY EmitTyped DEF Settles
<1>3. edits' \in Nat /\ faults' \in Nat /\ sessions' \in Nat
  BY DEF TypeOK, RequestFails, UseFault, budgetVars
<1>4. trackLost' \in BOOLEAN
  BY CallFields DEF Settles, TypeOK
<1> QED
  BY <1>1, <1>2, <1>3, <1>4
  DEF TypeOK, Settles, serverVars, deviceVars, pageVars

-----------------------------------------------------------------------------
\* Sync, by whomever it is called, keeps the types.
LEMMA SyncTyped ==
  ASSUME TypeOK, NEW c \in Calls, NEW full \in BOOLEAN, Sync(c, full)
  PROVE  TypeOK'
<1>1. [IdleCall EXCEPT !.pc = IF db = "closed" THEN "awaitOpen" ELSE "info",
                       !.full = full] \in CallState
  BY DEF IdleCall, CallState, NoBatch
<1>2. call' \in [Calls -> CallState]
  BY <1>1 DEF Sync, TypeOK
<1>3. syncState' \in SyncState /\ lastSync' \in BOOLEAN
  BY EmitTyped DEF Sync, TypeOK, stateVars, SyncState
<1> QED
  BY <1>2, <1>3
  DEF TypeOK, Sync, serverVars, deviceVars, pageVars, lostVars, budgetVars

\* StartReplication keeps the types.
LEMMA StartReplicationTyped ==
  ASSUME TypeOK, NEW c \in Calls, StartReplication(c)
  PROVE  TypeOK'
<1> DEFINE first == \A d \in Docs : ~local[d].held
           since == IF call[c].full THEN 0 ELSE checkpoint
           owed == {d \in Docs : local[d].unsent = "yes"}
           started == [call[c] EXCEPT
                         !.pc = "replicating", !.first = first, !.since = since,
                         !.dirs = {"pull", "push"}, !.owedSeq = updateSeq,
                         !.owedDocs = owed]
<1>1. first \in BOOLEAN /\ since \in Nat /\ owed \in SUBSET Docs /\ updateSeq \in Nat
  BY DEF TypeOK
<1>2. call' = [call EXCEPT ![c] = started]
  BY DEF StartReplication
<1>3. started \in CallState
  <2> HIDE DEF first, since, owed
  <2> QED
    BY <1>1, CallFields DEF CallState
<1>4. call' \in [Calls -> CallState]
  <2> HIDE DEF started
  <2> QED
    BY <1>2, <1>3, CallTyped
<1>5. syncState' \in SyncState /\ lastSync' \in BOOLEAN
  BY EmitTyped DEF StartReplication, SyncState
<1>6. trackLost' \in BOOLEAN
  BY DEF StartReplication, TypeOK
<1> QED
  BY <1>4, <1>5, <1>6
  DEF TypeOK, StartReplication, serverVars, deviceVars, pageVars, budgetVars

\* FetchBatch keeps the types.
LEMMA FetchBatchTyped ==
  ASSUME TypeOK, NEW c \in Calls, FetchBatch(c)
  PROVE  TypeOK'
<1>1. ASSUME NEW u \in Nat, NEW S \in SUBSET Docs, NEW g \in [Docs -> Nat]
      PROVE  [call[c] EXCEPT !.upto = u, !.reported = S, !.got = g] \in CallState
  BY CallFields DEF CallState
<1>2. PICK upto \in (call[c].since + 1)..updateSeq :
        LET changed == {d \in Docs : call[c].since < server[d].seq /\ server[d].seq <= upto}
            lost == {d \in changed : server[d].access = "none"}
        IN  /\ call' = [call EXCEPT ![c] = [call[c] EXCEPT
                         !.upto = upto,
                         !.reported = IF trackLost THEN @ \cup lost ELSE @,
                         !.got = [d \in Docs |-> IF d \in changed \ lost
                                                 THEN server[d].seq ELSE 0]]]
            /\ IF trackLost
               THEN pendingLost' = pendingLost \cup lost /\ UNCHANGED missed
               ELSE missed' = missed \cup {d \in lost : local[d].held \/ d \in Arriving}
                    /\ UNCHANGED pendingLost
  BY DEF FetchBatch
<1> DEFINE changed == {d \in Docs : call[c].since < server[d].seq /\ server[d].seq <= upto}
           lost == {d \in changed : server[d].access = "none"}
           got == [d \in Docs |-> IF d \in changed \ lost THEN server[d].seq ELSE 0]
           rep == IF trackLost THEN call[c].reported \cup lost ELSE call[c].reported
<1>3. got \in [Docs -> Nat] /\ rep \in SUBSET Docs /\ upto \in Nat
  BY CallFields DEF TypeOK
<1>4. call' = [call EXCEPT ![c] = [call[c] EXCEPT !.upto = upto, !.reported = rep, !.got = got]]
  BY <1>2
<1>5. call' \in [Calls -> CallState]
  <2> HIDE DEF got, rep
  <2> QED
    BY <1>1, <1>3, <1>4, CallTyped
<1>6. pendingLost' \in SUBSET Docs /\ missed' \in SUBSET Docs
  BY <1>2 DEF TypeOK
<1> QED
  BY <1>5, <1>6
  DEF TypeOK, FetchBatch, serverVars, deviceVars, pageVars, stateVars, budgetVars

\* StoreBatch keeps the types.
LEMMA StoreBatchTyped ==
  ASSUME TypeOK, NEW c \in Calls, StoreBatch(c)
  PROVE  TypeOK'
<1>1. \A d \in Docs : call[c].got[d] \in Nat
  BY CallFields
<1>2. local' \in [Docs -> DocState]
  BY <1>1 DEF StoreBatch, TypeOK, DocState
<1>3. [call[c] EXCEPT !.since = call[c].upto, !.upto = 0, !.got = NoBatch] \in CallState
  BY CallFields DEF CallState, NoBatch
<1>4. call' \in [Calls -> CallState]
  BY <1>3, CallTyped DEF StoreBatch
<1>5. checkpoint' \in Nat
  BY CallFields DEF StoreBatch, TypeOK
<1> QED
  BY <1>2, <1>4, <1>5
  DEF TypeOK, StoreBatch, serverVars, pageVars, stateVars, lostVars, budgetVars

\* The end of either direction of a replication keeps the types.
LEMMA DirectionDoneTyped ==
  ASSUME TypeOK, NEW c \in Calls, PullDone(c) \/ PushDone(c)
  PROVE  TypeOK'
<1>1. /\ [call[c] EXCEPT !.dirs = @ \ {"pull"}, !.since = 0] \in CallState
      /\ [call[c] EXCEPT !.dirs = @ \ {"push"}] \in CallState
  BY CallFields DEF CallState
<1>2. \/ call' = [call EXCEPT ![c] = [call[c] EXCEPT !.dirs = @ \ {"pull"}, !.since = 0]]
      \/ call' = [call EXCEPT ![c] = [call[c] EXCEPT !.dirs = @ \ {"push"}]]
  BY DEF PullDone, PushDone
<1>3. call' \in [Calls -> CallState]
  BY <1>1, <1>2, CallTyped
<1> QED
  BY <1>3 DEF TypeOK, PullDone, PushDone, CallOnly, serverVars, deviceVars, pageVars,
              stateVars, lostVars, budgetVars

\* PushDoc keeps the types.
LEMMA PushDocTyped ==
  ASSUME TypeOK, NEW c \in Calls, NEW d \in Docs, PushDoc(c, d)
  PROVE  TypeOK'
<1>1. CASE server[d].access = "write"
  <2> DEFINE seen == IF local[d].seen = server[d].seq THEN updateSeq + 1 ELSE local[d].seen
  <2>1. seen \in Nat
    BY DocFields DEF TypeOK
  <2>2. local' = [local EXCEPT ![d] = [local[d] EXCEPT !.unsent = "no", !.seen = seen]]
    BY <1>1 DEF PushDoc
  <2> HIDE DEF seen
  <2>3. [local[d] EXCEPT !.unsent = "no", !.seen = seen] \in DocState
    BY <2>1, DocFields DEF DocState
  <2>4. local' \in [Docs -> DocState]
    BY <2>2, <2>3 DEF TypeOK
  <2>5. updateSeq' \in Nat /\ server' \in [Docs -> [seq : Nat, access : Access]]
    BY <1>1 DEF PushDoc, TypeOK
  <2> QED
    BY <2>4, <2>5 DEF TypeOK, PushDoc, pageVars, stateVars, lostVars, budgetVars
<1>2. CASE server[d].access # "write"
  <2>1. [local[d] EXCEPT !.unsent = "refused"] \in DocState
    BY DocFields DEF DocState
  <2>2. local' \in [Docs -> DocState]
    BY <1>2, <2>1 DEF PushDoc, TypeOK
  <2> QED
    BY <1>2, <2>2 DEF TypeOK, PushDoc, serverVars, pageVars, stateVars, lostVars, budgetVars
<1> QED
  BY <1>1, <1>2

\* The two steps of a purge keep the types.
LEMMA PurgeTyped ==
  ASSUME TypeOK, NEW c \in Calls, StartPurge(c) \/ (\E d \in Docs : PurgeDoc(c, d))
  PROVE  TypeOK'
<1>1. CASE StartPurge(c)
  <2> DEFINE h == db # "closed"
             T == IF LegacyAdapter THEN {} ELSE pendingLost
  <2>1. call' = [call EXCEPT ![c] = [call[c] EXCEPT !.pc = "purging", !.handle = h, !.toPurge = T]]
    BY <1>1 DEF StartPurge
  <2>2. h \in BOOLEAN /\ T \in SUBSET Docs
    BY DEF TypeOK
  <2> HIDE DEF h, T
  <2>3. [call[c] EXCEPT !.pc = "purging", !.handle = h, !.toPurge = T] \in CallState
    BY <2>2, CallFields DEF CallState
  <2>4. call' \in [Calls -> CallState]
    BY <2>1, <2>3, CallTyped
  <2> QED
    BY <1>1, <2>4 DEF TypeOK, StartPurge, serverVars, deviceVars, pageVars, stateVars, budgetVars
<1>2. ASSUME NEW d \in Docs, PurgeDoc(c, d) PROVE TypeOK'
  <2> DEFINE h == db # "closed"
  <2>2. call' = [call EXCEPT ![c] = [call[c] EXCEPT !.handle = h, !.toPurge = @ \ {d}]]
    BY <1>2 DEF PurgeDoc
  <2>a. h \in BOOLEAN
    OBVIOUS
  <2> HIDE DEF h
  <2>1. [call[c] EXCEPT !.handle = h, !.toPurge = @ \ {d}] \in CallState
    BY <2>a, CallFields DEF CallState
  <2>3. call' \in [Calls -> CallState]
    BY <2>1, <2>2, CallTyped
  <2>4. Absent \in DocState /\ local \in [Docs -> DocState]
    BY DEF Absent, DocState, TypeOK
  <2>5. local' \in [Docs -> DocState]
    BY <1>2, <2>4 DEF PurgeDoc
  <2>6. faults' \in Nat /\ edits' \in Nat /\ sessions' \in Nat /\ missed' \in SUBSET Docs
    <3>1. UNCHANGED budgetVars \/ UseFault
      BY <1>2 DEF PurgeDoc
    <3>2. missed' = missed \cup ({d} \cap Arriving) \/ missed' = missed \cup {d}
      BY <1>2 DEF PurgeDoc
    <3> QED
      BY <3>1, <3>2 DEF TypeOK, UseFault, budgetVars
  <2> QED
    BY <1>2, <2>3, <2>5, <2>6 DEF TypeOK, PurgeDoc, serverVars, pageVars, stateVars, lostVars
<1> QED
  BY <1>1, <1>2

\* The ways a sync fails keep the types.
LEMMA FaultTyped ==
  ASSUME TypeOK, NEW c \in Calls, Fault(c)
  PROVE  TypeOK'
<1>1. CASE InfoFails(c)
  <2>1. call' \in [Calls -> CallState]
    BY <1>1, IdleTyped, CallTyped DEF InfoFails
  <2>2. syncState' \in SyncState /\ lastSync' \in BOOLEAN
    BY <1>1, EmitTyped DEF InfoFails, SyncState
  <2>3. edits' \in Nat /\ faults' \in Nat /\ sessions' \in Nat
    BY <1>1 DEF InfoFails, TypeOK, UseFault, budgetVars
  <2> QED
    BY <1>1, <2>1, <2>2, <2>3
    DEF InfoFails, TypeOK, serverVars, deviceVars, pageVars, lostVars
<1>2. CASE SyncFails(c) \/ SyncStalls(c) \/ NotificationsNotFound(c)
  <2>1. \E s \in SyncState : Settles(c, s)
    BY <1>2 DEF SyncFails, SyncStalls, NotificationsNotFound, SyncState
  <2>2. UNCHANGED budgetVars \/ RequestFails
    BY <1>2 DEF SyncFails, SyncStalls, NotificationsNotFound
  <2> QED
    BY <2>1, <2>2, SettlesTyped
<1> QED
  BY <1>1, <1>2 DEF Fault

\* What users do keeps the types.
LEMMA UserTyped ==
  ASSUME TypeOK, User
  PROVE  TypeOK'
<1>1. ASSUME NEW d \in Docs, ServerChange(d) PROVE TypeOK'
  BY <1>1 DEF TypeOK, ServerChange, AccessAfter, deviceVars, pageVars, stateVars, lostVars
<1>2. ASSUME NEW d \in Docs, LocalEdit(d) PROVE TypeOK'
  <2>1. ASSUME NEW c \in Calls PROVE [call[c] EXCEPT !.owedDocs = @ \ {d}] \in CallState
    BY CallFields DEF CallState
  <2>2. call' \in [Calls -> CallState]
    BY <1>2, <2>1 DEF LocalEdit
  <2>3. [local[d] EXCEPT !.held = TRUE, !.unsent = "yes"] \in DocState
    BY DocFields DEF DocState
  <2>4. local' \in [Docs -> DocState]
    BY <1>2, <2>3 DEF LocalEdit, TypeOK
  <2> QED
    BY <1>2, <2>2, <2>4
    DEF TypeOK, LocalEdit, serverVars, pageVars, stateVars, lostVars
<1> QED
  BY <1>1, <1>2 DEF User

\* A login lets the calls that wait for the database go on, and changes nothing else
\* in them.
LEMMA LogInCall ==
  ASSUME TypeOK, LogIn, NEW c \in Calls
  PROVE  /\ call'[c] \in CallState
         /\ call'[c].pc = IF call[c].pc = "awaitOpen" THEN "info" ELSE call[c].pc
         /\ call'[c].first = call[c].first /\ call'[c].full = call[c].full
         /\ call'[c].since = call[c].since /\ call'[c].upto = call[c].upto
         /\ call'[c].got = call[c].got /\ call'[c].dirs = call[c].dirs
         /\ call'[c].toPurge = call[c].toPurge
         /\ call'[c].owedSeq = call[c].owedSeq /\ call'[c].owedDocs = call[c].owedDocs
<1> DEFINE p == IF call[c].pc = "awaitOpen" THEN "info" ELSE call[c].pc
           h == call[c].pc = "purging"
<1>1. call'[c] = [call[c] EXCEPT !.pc = p, !.handle = h]
  BY DEF LogIn
<1>2. p \in {"idle", "awaitOpen", "info", "replicating", "purging"} /\ h \in BOOLEAN
  BY CallFields DEF CallState
<1> HIDE DEF h
<1>3. call'[c] \in CallState /\ call'[c].pc = p
  BY <1>1, <1>2, CallFields DEF CallState
<1> QED
  BY <1>1, <1>3, CallFields DEF CallState

\* What the session and the page do keeps the types.
LEMMA SessionTyped ==
  ASSUME TypeOK, Session
  PROVE  TypeOK'
<1>1. CASE LogIn
  <2>1. ASSUME NEW c \in Calls PROVE call'[c] \in CallState
    BY <1>1, LogInCall
  <2>2. call' \in [Calls -> CallState]
    BY <1>1, <2>1 DEF LogIn
  <2> QED
    <3>1. /\ sessions' = sessions + 1 /\ db' = "open" /\ loggedIn' = TRUE
          /\ pipelines' \in {pipelines, pipelines + 1} /\ trackLost' = TRUE
          /\ pendingLost' = {} /\ missed' = missed \cup pendingLost
          /\ UNCHANGED <<serverVars, deviceVars, alive, stateVars, edits, faults, online>>
      BY <1>1 DEF LogIn
    <3> QED
      BY <2>2, <3>1 DEF TypeOK, serverVars, deviceVars, stateVars
<1>2. CASE LogOut \/ BeginDestroy
  <2>1. CASE LogOut
    BY <2>1 DEF TypeOK, LogOut, serverVars, deviceVars, stateVars, lostVars, budgetVars
  <2>2. CASE BeginDestroy
    BY <2>2 DEF TypeOK, BeginDestroy, serverVars, deviceVars, stateVars, lostVars, budgetVars
  <2> QED
    BY <1>2, <2>1, <2>2
<1>3. CASE EndDestroy
  <2>1. Absent \in DocState
    BY DEF Absent, DocState
  <2>2. local' \in [Docs -> DocState]
    BY <1>3, <2>1 DEF EndDestroy
  <2> QED
    BY <1>3, <2>2 DEF TypeOK, EndDestroy, serverVars, lostVars, budgetVars
<1>4. CASE PageLoad
  <2>1. call' \in [Calls -> CallState]
    BY <1>4, IdleTyped DEF PageLoad
  <2>2. missed' \in SUBSET Docs
    BY <1>4, CallFields DEF PageLoad, TypeOK
  <2>3. /\ updateSeq' \in Nat /\ server' \in [Docs -> [seq : Nat, access : Access]]
        /\ local' \in [Docs -> DocState] /\ checkpoint' \in Nat
    BY <1>4 DEF TypeOK, PageLoad, serverVars, deviceVars
  <2>4. lastSync' \in BOOLEAN /\ online' \in BOOLEAN
    BY <1>4 DEF TypeOK, PageLoad
  <2>5. edits' \in Nat /\ faults' \in Nat /\ sessions' \in Nat
    BY <1>4 DEF TypeOK, PageLoad
  <2>6. /\ loggedIn' = FALSE /\ db' = "closed" /\ alive' = TRUE /\ pipelines' = 0
        /\ syncState' = "UNSYNCED" /\ trackLost' = FALSE /\ pendingLost' = {}
    BY <1>4 DEF PageLoad
  <2> QED
    BY <2>1, <2>2, <2>3, <2>4, <2>5, <2>6 DEF TypeOK, SyncState
<1> QED
  BY <1>1, <1>2, <1>3, <1>4 DEF Session

\* Every step keeps every variable in its type.
LEMMA TypeNext == TypeOK /\ [Next]_vars => TypeOK'
<1> SUFFICES ASSUME TypeOK, [Next]_vars PROVE TypeOK'
  OBVIOUS
<1>1. ASSUME NEW c \in Calls, Request(c) PROVE TypeOK'
  BY <1>1, SyncTyped DEF Request, LiveSync, EnsureSynced, ResetSync
<1>2. ASSUME NEW c \in Calls, CallStep(c) PROVE TypeOK'
  <2>1. CASE FirstSyncCompletes(c) \/ SyncCompletes(c)
    BY <2>1, SettlesTyped DEF FirstSyncCompletes, SyncCompletes, SyncState
  <2> QED
    BY <1>2, <2>1, StartReplicationTyped, FetchBatchTyped, StoreBatchTyped,
       DirectionDoneTyped, PushDocTyped, PurgeTyped DEF CallStep
<1>3. ASSUME NEW c \in Calls, Fault(c) PROVE TypeOK'
  BY <1>3, FaultTyped
<1>4. CASE User
  BY <1>4, UserTyped
<1>5. CASE GoOffline \/ GoOnline
  <2>1. CASE GoOffline
    <3>1. online' \in BOOLEAN
      BY <2>1, Zenon DEF GoOffline
    <3>2. edits' \in Nat /\ faults' \in Nat /\ sessions' \in Nat
      <4>1. UseFault
        BY <2>1, Zenon DEF GoOffline
      <4> QED
        BY <4>1 DEF TypeOK, UseFault
    <3>3. UNCHANGED <<serverVars, deviceVars, pageVars, stateVars, lostVars, call, missed>>
      BY <2>1, Zenon DEF GoOffline
    <3> QED
      BY <3>1, <3>2, <3>3 DEF TypeOK, serverVars, deviceVars, pageVars, stateVars, lostVars
  <2>2. CASE GoOnline
    BY <2>2 DEF TypeOK, GoOnline, serverVars, deviceVars, pageVars, stateVars, lostVars,
                budgetVars
  <2> QED
    BY <1>5, <2>1, <2>2
<1>6. CASE Session
  BY <1>6, SessionTyped
<1>7. CASE UNCHANGED vars
  BY <1>7 DEF TypeOK, vars, serverVars, deviceVars, pageVars, stateVars, lostVars, budgetVars
<1> QED
  BY <1>1, <1>2, <1>3, <1>4, <1>5, <1>6, <1>7 DEF Next

\* The initial state is well-typed.
LEMMA TypeInit == Init => TypeOK
<1> SUFFICES ASSUME Init PROVE TypeOK
  OBVIOUS
<1>1. call \in [Calls -> CallState]
  BY IdleTyped DEF Init
<1>2. local \in [Docs -> DocState]
  BY DEF Init, Absent, DocState
<1>3. updateSeq \in Nat /\ server \in [Docs -> [seq : Nat, access : Access]]
  BY InitialServersAssumption DEF Init, Access
<1> QED
  BY <1>1, <1>2, <1>3 DEF Init, TypeOK, SyncState

\* Every reachable state is well-typed, whatever calls overlap.
THEOREM TypeCorrect == Spec => []TypeOK
  BY TypeInit, TypeNext, PTL DEF Spec

-----------------------------------------------------------------------------
(***************************************************************************)
(* CheckpointSound, as long as lost access is not regained.               *)
(* PullsAreComplete is inductive, given the types.                         *)
(***************************************************************************)

\* A step does not let the pull of this call advance.
QuietCall(c) ==
    /\ call'[c].pc = "replicating" => call[c].pc = "replicating"
    /\ call'[c].dirs \subseteq call[c].dirs
    /\ \/ /\ call'[c].since = call[c].since /\ call'[c].upto = call[c].upto
          /\ call'[c].got = call[c].got
       \/ /\ call'[c].since \in {0, call[c].since} /\ call'[c].upto = 0
          /\ call'[c].got \in {NoBatch, call[c].got}
    /\ call'[c].upto > 0 => call'[c].pc = "replicating" /\ "pull" \in call'[c].dirs

\* Steps that leave the server and the device alone and let no pull advance.
LEMMA QuietStep ==
  ASSUME TypeOK, PullsAreComplete, UNCHANGED <<serverVars, deviceVars>>,
         \/ db = "destroyed" => db' = "destroyed"
         \/ \A c \in Calls : call'[c] = IdleCall,
         \A c \in Calls : QuietCall(c),
         \A d \in Docs : d \in pendingLost' \cup Purging' => server[d].access = "none"
  PROVE  PullsAreComplete'
<1>1. updateSeq' = updateSeq /\ server' = server /\ local' = local /\ checkpoint' = checkpoint
  BY DEF serverVars, deviceVars
<1>2. SeqBounds'
  <2>1. ASSUME NEW c \in Calls
        PROVE  call'[c].since <= updateSeq /\ call'[c].upto <= updateSeq
    BY CallFields DEF PullsAreComplete, SeqBounds, TypeOK, QuietCall
  <2>2. ASSUME NEW c \in Calls, NEW d \in Docs
        PROVE  call'[c].got[d] <= server[d].seq
    BY CallFields, DocFields DEF PullsAreComplete, SeqBounds, NoBatch, QuietCall
  <2> QED
    BY <1>1, <2>1, <2>2 DEF PullsAreComplete, SeqBounds
<1>3. BatchComplete'
  BY <1>1, CallFields DEF PullsAreComplete, BatchComplete, QuietCall
<1>4. SinceSound'
  BY <1>1, CallFields, DocFields
  DEF PullsAreComplete, SinceSound, Replicating, IdleCall, QuietCall
<1>5. CheckpointSound'
  BY <1>1 DEF PullsAreComplete, CheckpointSound
<1>6. OnlyLostArePurged'
  BY <1>1 DEF OnlyLostArePurged
<1> QED
  BY <1>2, <1>3, <1>4, <1>5, <1>6 DEF PullsAreComplete

\* The end of a call, by itself or with the page, is a quiet step.
LEMMA SettlesQuiet ==
  ASSUME TypeOK, PullsAreComplete, NEW c \in Calls, call' = [call EXCEPT ![c] = IdleCall],
         UNCHANGED <<serverVars, deviceVars, pageVars, pendingLost>>
  PROVE  PullsAreComplete'
<1>1. ASSUME NEW x \in Calls PROVE call'[x] = IF x = c THEN IdleCall ELSE call[x]
  BY DEF TypeOK
<1>2. \A d \in Docs : d \in pendingLost' \cup Purging' => server[d].access = "none"
  BY <1>1 DEF PullsAreComplete, OnlyLostArePurged, Purging, IdleCall
<1>3. db' = db
  BY DEF pageVars
<1>4. \A x \in Calls : QuietCall(x)
  BY <1>1, CallFields DEF QuietCall, IdleCall, PullsAreComplete, BatchComplete
<1> QED
  BY <1>2, <1>3, <1>4, QuietStep

\* Starting, ending and failing a call, and everything about the connection and
\* the session, are quiet steps.
LEMMA RequestPulls ==
  ASSUME TypeOK, PullsAreComplete, NEW c \in Calls, NEW full \in BOOLEAN, Sync(c, full)
  PROVE  PullsAreComplete'
<1>1. \/ UNCHANGED call
      \/ call' = [call EXCEPT ![c] = [IdleCall EXCEPT
                        !.pc = IF db = "closed" THEN "awaitOpen" ELSE "info",
                        !.full = full]]
  BY DEF Sync
<1>2. ASSUME NEW x \in Calls
      PROVE  \/ call'[x] = call[x]
             \/ call'[x] = [IdleCall EXCEPT
                        !.pc = IF db = "closed" THEN "awaitOpen" ELSE "info",
                        !.full = full]
  BY <1>1 DEF TypeOK
<1>3. ASSUME NEW x \in Calls, call'[x] # call[x]
      PROVE  /\ call'[x].since = 0 /\ call'[x].upto = 0 /\ call'[x].got = NoBatch
             /\ call'[x].pc # "replicating" /\ call'[x].dirs = {} /\ call'[x].toPurge = {}
  BY <1>2, <1>3 DEF IdleCall
<1>4. \A d \in Docs : d \in pendingLost' \cup Purging' => server[d].access = "none"
  <2>1. pendingLost' = pendingLost
    BY DEF Sync, lostVars
  <2> QED
    BY <2>1, <1>3 DEF PullsAreComplete, OnlyLostArePurged, Purging
<1>5. db' = db /\ UNCHANGED <<serverVars, deviceVars>>
  BY DEF Sync, pageVars
<1>6. \A x \in Calls : QuietCall(x)
  BY <1>3, CallFields DEF QuietCall, PullsAreComplete, BatchComplete
<1> QED
  BY <1>4, <1>5, <1>6, QuietStep

\* The end of either direction of a replication is a quiet step.
LEMMA DirectionDonePulls ==
  ASSUME TypeOK, PullsAreComplete, NEW c \in Calls, PullDone(c) \/ PushDone(c)
  PROVE  PullsAreComplete'
<1>1. PICK D \in SUBSET call[c].dirs, n \in {0, call[c].since} :
        /\ call' = [call EXCEPT ![c] = [call[c] EXCEPT !.dirs = D, !.since = n]]
        /\ \/ n = 0 /\ call[c].upto = 0
           \/ n = call[c].since /\ ("pull" \in call[c].dirs => "pull" \in D)
  <2>1. CASE PullDone(c)
    BY <2>1 DEF PullDone
  <2>2. CASE PushDone(c)
    <3> DEFINE D == call[c].dirs \ {"push"}
    <3>1. [call[c] EXCEPT !.dirs = D] = [call[c] EXCEPT !.dirs = D, !.since = call[c].since]
      BY CallFields DEF CallState
    <3> QED
      BY <2>2, <3>1 DEF PushDone
  <2> QED
    BY <2>1, <2>2
<1>2. ASSUME NEW x \in Calls
      PROVE  QuietCall(x) /\ call'[x].toPurge = call[x].toPurge
  <2>1. CASE x # c
    BY <1>1, <2>1, CallFields DEF TypeOK, QuietCall, PullsAreComplete, BatchComplete
  <2>2. CASE x = c
    BY <1>1, <2>2, CallFields
    DEF TypeOK, CallState, QuietCall, PullsAreComplete, BatchComplete
  <2> QED
    BY <2>1, <2>2
<1>3. /\ UNCHANGED <<serverVars, deviceVars>>
      /\ pendingLost' = pendingLost /\ db' = db
  BY DEF PullDone, PushDone, CallOnly, lostVars, pageVars
<1>4. \A d \in Docs : d \in pendingLost' \cup Purging' => server[d].access = "none"
  BY <1>2, <1>3 DEF PullsAreComplete, OnlyLostArePurged, Purging
<1> QED
  BY <1>2, <1>3, <1>4, QuietStep

\* Taking the reports for a purge is a quiet step.
LEMMA StartPurgePulls ==
  ASSUME TypeOK, PullsAreComplete, NEW c \in Calls, StartPurge(c)
  PROVE  PullsAreComplete'
<1>1. call' = [call EXCEPT ![c] = [call[c] EXCEPT !.pc = "purging",
                  !.handle = (db # "closed"),
                  !.toPurge = IF LegacyAdapter THEN {} ELSE pendingLost]]
  BY DEF StartPurge
<1>2. ASSUME NEW x \in Calls
      PROVE  QuietCall(x) /\ call'[x].toPurge \subseteq call[x].toPurge \cup pendingLost
  <2>1. CASE x # c
    BY <1>1, <2>1, CallFields DEF TypeOK, QuietCall, PullsAreComplete, BatchComplete
  <2>2. CASE x = c
    <3>1. call[c].upto = 0
      BY CallFields DEF StartPurge, PullsAreComplete, BatchComplete
    <3> QED
      BY <1>1, <2>2, <3>1, CallFields DEF TypeOK, CallState, QuietCall
  <2> QED
    BY <2>1, <2>2
<1>3. /\ UNCHANGED <<serverVars, deviceVars>>
      /\ pendingLost' = {} /\ db' = db
  BY DEF StartPurge, pageVars
<1>4. \A d \in Docs : d \in pendingLost' \cup Purging' => server[d].access = "none"
  BY <1>2, <1>3 DEF PullsAreComplete, OnlyLostArePurged, Purging
<1> QED
  BY <1>2, <1>3, <1>4, QuietStep

\* The ways a sync fails are quiet steps.
LEMMA FaultPulls ==
  ASSUME TypeOK, PullsAreComplete, NEW c \in Calls, Fault(c)
  PROVE  PullsAreComplete'
<1>1. call' = [call EXCEPT ![c] = IdleCall]
  BY DEF Fault, InfoFails, SyncFails, SyncStalls, NotificationsNotFound, Settles
<1>2. UNCHANGED <<serverVars, deviceVars, pageVars, pendingLost>>
  BY DEF Fault, InfoFails, SyncFails, SyncStalls, NotificationsNotFound, Settles, lostVars
<1> QED
  BY <1>1, <1>2, SettlesQuiet

\* Reading the checkpoint: the pull starts where the checkpoint is sound, or at 0.
LEMMA StartReplicationPulls ==
  ASSUME TypeOK, PullsAreComplete, NEW c \in Calls, StartReplication(c)
  PROVE  PullsAreComplete'
<1> DEFINE since == IF call[c].full THEN 0 ELSE checkpoint
<1>1. ASSUME NEW x \in Calls
      PROVE  /\ call'[x].upto = call[x].upto /\ call'[x].got = call[x].got
             /\ call'[x].toPurge = call[x].toPurge
             /\ x # c => call'[x] = call[x]
             /\ x = c => call'[x].since = since
  BY DEF StartReplication, TypeOK, CallState
<1>2. /\ updateSeq' = updateSeq /\ server' = server /\ local' = local
      /\ checkpoint' = checkpoint /\ pendingLost' = pendingLost /\ db' = db
  BY DEF StartReplication, serverVars, deviceVars, pageVars
<1>3. SeqBounds'
  <2>1. ASSUME NEW x \in Calls PROVE call'[x].since <= updateSeq
    BY <1>1, CallFields DEF PullsAreComplete, SeqBounds, TypeOK
  <2> QED
    BY <1>1, <1>2, <2>1 DEF PullsAreComplete, SeqBounds
<1>4. BatchComplete'
  <2>1. call[c].pc = "info"
    BY DEF StartReplication
  <2> QED
    BY <1>1, <1>2, <2>1, CallFields DEF PullsAreComplete, BatchComplete
<1>5. SinceSound'
  BY <1>1, <1>2, DocFields DEF PullsAreComplete, SinceSound, Replicating, CheckpointSound, TypeOK
<1>6. CheckpointSound' /\ OnlyLostArePurged'
  BY <1>1, <1>2 DEF PullsAreComplete, CheckpointSound, OnlyLostArePurged, Purging
<1> QED
  BY <1>3, <1>4, <1>5, <1>6 DEF PullsAreComplete

\* A fetched batch is complete for its range, and reports only lost access.
LEMMA FetchBatchPulls ==
  ASSUME TypeOK, PullsAreComplete, NEW c \in Calls, FetchBatch(c)
  PROVE  PullsAreComplete'
<1>1. PICK upto \in (call[c].since + 1)..updateSeq :
        LET changed == {d \in Docs : call[c].since < server[d].seq /\ server[d].seq <= upto}
            lost == {d \in changed : server[d].access = "none"}
        IN  /\ call' = [call EXCEPT ![c] = [call[c] EXCEPT
                         !.upto = upto,
                         !.reported = IF trackLost THEN @ \cup lost ELSE @,
                         !.got = [d \in Docs |-> IF d \in changed \ lost
                                                 THEN server[d].seq ELSE 0]]]
            /\ pendingLost' \in {pendingLost, pendingLost \cup lost}
  BY DEF FetchBatch
<1> DEFINE changed == {d \in Docs : call[c].since < server[d].seq /\ server[d].seq <= upto}
           lost == {d \in changed : server[d].access = "none"}
           got == [d \in Docs |-> IF d \in changed \ lost THEN server[d].seq ELSE 0]
           rep == IF trackLost THEN call[c].reported \cup lost ELSE call[c].reported
<1>2. call' = [call EXCEPT ![c] = [call[c] EXCEPT !.upto = upto, !.reported = rep, !.got = got]]
  BY <1>1
<1>3. ASSUME NEW x \in Calls
      PROVE  /\ call'[x].pc = call[x].pc /\ call'[x].dirs = call[x].dirs
             /\ call'[x].since = call[x].since /\ call'[x].toPurge = call[x].toPurge
             /\ x # c => call'[x] = call[x]
             /\ x = c => call'[x].upto = upto /\ call'[x].got = got
  <2> HIDE DEF got, rep
  <2> QED
    BY <1>2 DEF TypeOK, CallState
<1>4. /\ updateSeq' = updateSeq /\ server' = server /\ local' = local
      /\ checkpoint' = checkpoint /\ db' = db
  BY DEF FetchBatch, serverVars, deviceVars, pageVars
<1>5. SeqBounds'
  <2>1. ASSUME NEW d \in Docs PROVE got[d] <= server[d].seq
    <3>1. got[d] = 0 \/ got[d] = server[d].seq
      OBVIOUS
    <3> HIDE DEF got
    <3> QED
      BY <3>1, DocFields
  <2>2. upto <= updateSeq
    BY CallFields DEF TypeOK
  <2> HIDE DEF got
  <2> QED
    BY <1>3, <1>4, <2>1, <2>2 DEF PullsAreComplete, SeqBounds
<1>6. BatchComplete'
  <2>1. \A d \in Docs : server[d].access # "none"
            /\ call[c].since < server[d].seq /\ server[d].seq <= upto
          => got[d] = server[d].seq
    OBVIOUS
  <2>2. call[c].pc = "replicating" /\ "pull" \in call[c].dirs
    BY DEF FetchBatch, Replicating
  <2> HIDE DEF got
  <2> QED
    BY <1>3, <1>4, <2>1, <2>2 DEF PullsAreComplete, BatchComplete
<1>7. SinceSound' /\ CheckpointSound'
  <2> HIDE DEF got
  <2>1. SinceSound'
    BY <1>3, <1>4 DEF PullsAreComplete, SinceSound, Replicating
  <2>2. CheckpointSound'
    BY <1>4 DEF PullsAreComplete, CheckpointSound
  <2> QED
    BY <2>1, <2>2
<1>8. OnlyLostArePurged'
  <2>1. pendingLost' \in {pendingLost, pendingLost \cup lost}
    BY <1>1
  <2>2. \A d \in lost : server[d].access = "none"
    OBVIOUS
  <2> HIDE DEF lost, got
  <2>3. Purging' = Purging
    BY <1>3 DEF Purging
  <2> QED
    BY <2>1, <2>2, <2>3, <1>4 DEF PullsAreComplete, OnlyLostArePurged
<1> QED
  BY <1>5, <1>6, <1>7, <1>8 DEF PullsAreComplete

\* Storing a batch makes its end the position of the pull, and of the checkpoint.
LEMMA StoreBatchPulls ==
  ASSUME TypeOK, PullsAreComplete, NEW c \in Calls, StoreBatch(c)
  PROVE  PullsAreComplete'
<1>1. ASSUME NEW x \in Calls
      PROVE  /\ call'[x].pc = call[x].pc /\ call'[x].dirs = call[x].dirs
             /\ call'[x].toPurge = call[x].toPurge
             /\ x # c => call'[x] = call[x]
             /\ x = c => /\ call'[x].since = call[c].upto /\ call'[x].upto = 0
                         /\ call'[x].got = NoBatch
  BY DEF StoreBatch, TypeOK, CallState
<1>2. /\ updateSeq' = updateSeq /\ server' = server /\ db' = db
      /\ checkpoint' \in {checkpoint, call[c].upto} /\ pendingLost' = pendingLost
  BY DEF StoreBatch, serverVars, pageVars, lostVars
<1>3. ASSUME NEW d \in Docs
      PROVE  /\ local[d].held => local'[d].held
             /\ local'[d].seen \in {local[d].seen, call[c].got[d]}
             /\ local'[d].seen >= local[d].seen
             /\ call[c].got[d] > 0 => local'[d].held /\ local'[d].seen >= call[c].got[d]
  <2>1. CASE call[c].got[d] > 0
    <3> DEFINE seen == IF local[d].seen < call[c].got[d] THEN call[c].got[d]
                                                         ELSE local[d].seen
    <3>1. local'[d] = [local[d] EXCEPT !.held = TRUE, !.seen = seen]
      BY <2>1 DEF StoreBatch
    <3>2. local'[d].held = TRUE /\ local'[d].seen = seen
      <4> HIDE DEF seen
      <4> QED
        BY <3>1, DocFields DEF DocState
    <3> QED
      BY <3>2, CallFields, DocFields
  <2>2. CASE ~(call[c].got[d] > 0)
    <3>1. local'[d] = local[d]
      BY <2>2 DEF StoreBatch
    <3> QED
      BY <2>2, <3>1, DocFields
  <2> QED
    BY <2>1, <2>2
<1>4. \A d \in Docs : local'[d].seen <= server[d].seq /\ local'[d].seen \in Nat
  BY <1>3, CallFields, DocFields DEF PullsAreComplete, SeqBounds
\* what was on the device stays there in its latest version
<1>5. ASSUME NEW d \in Docs, local[d].held, local[d].seen = server[d].seq
      PROVE  local'[d].held /\ local'[d].seen = server[d].seq
  BY <1>3, <1>4, <1>5, CallFields, DocFields
\* and the pull is complete up to the end of the batch
<1>6. ASSUME NEW d \in Docs, server[d].access # "none", 0 < server[d].seq,
             server[d].seq <= call[c].upto
      PROVE  local'[d].held /\ local'[d].seen = server[d].seq
  <2>1. CASE server[d].seq <= call[c].since
    BY <1>5, <1>6, <2>1 DEF PullsAreComplete, SinceSound, StoreBatch
  <2>2. CASE call[c].since < server[d].seq
    <3>1. call[c].got[d] = server[d].seq
      BY <1>6, <2>2 DEF PullsAreComplete, BatchComplete, StoreBatch
    <3> QED
      BY <1>3, <1>4, <1>6, <3>1, DocFields
  <2> QED
    BY <2>1, <2>2, CallFields, DocFields
<1>7. SeqBounds'
  BY <1>1, <1>2, <1>4, DocFields DEF PullsAreComplete, SeqBounds, NoBatch, TypeOK
<1>8. BatchComplete'
  BY <1>1, <1>2 DEF PullsAreComplete, BatchComplete
<1>9. SinceSound'
  BY <1>1, <1>2, <1>5, <1>6 DEF PullsAreComplete, SinceSound, Replicating
<1>10. CheckpointSound'
  BY <1>2, <1>5, <1>6 DEF PullsAreComplete, CheckpointSound
<1>11. OnlyLostArePurged'
  BY <1>1, <1>2 DEF PullsAreComplete, OnlyLostArePurged, Purging
<1> QED
  BY <1>7, <1>8, <1>9, <1>10, <1>11 DEF PullsAreComplete

\* A pushed document gets a sequence number beyond every position.
LEMMA PushDocPulls ==
  ASSUME TypeOK, PullsAreComplete, NEW c \in Calls, NEW d \in Docs, PushDoc(c, d)
  PROVE  PullsAreComplete'
<1>1. call' = call /\ checkpoint' = checkpoint /\ pendingLost' = pendingLost /\ db' = db
  BY DEF PushDoc, lostVars, pageVars
<1>2. CASE server[d].access = "write"
  <2> DEFINE seen == IF local[d].seen = server[d].seq THEN updateSeq + 1 ELSE local[d].seen
  <2>1. /\ updateSeq' = updateSeq + 1
        /\ server' = [server EXCEPT ![d].seq = updateSeq + 1]
        /\ local' = [local EXCEPT ![d] = [local[d] EXCEPT !.unsent = "no", !.seen = seen]]
    BY <1>2 DEF PushDoc
  <2>2. /\ server'[d].seq = updateSeq + 1 /\ server'[d].access = server[d].access
        /\ \A x \in Docs \ {d} : server'[x] = server[x]
    BY <2>1 DEF TypeOK
  <2>3. /\ local'[d].held = local[d].held /\ local'[d].seen = seen
        /\ \A x \in Docs \ {d} : local'[x] = local[x]
    <3> HIDE DEF seen
    <3> QED
      BY <2>1 DEF TypeOK, DocState
  <2>4. SeqBounds'
    BY <1>1, <2>1, <2>2, <2>3, CallFields, DocFields DEF PullsAreComplete, SeqBounds, TypeOK
  <2> HIDE DEF seen
  <2>5. BatchComplete'
    BY <1>1, <2>2, CallFields, DocFields DEF PullsAreComplete, SeqBounds, BatchComplete, TypeOK
  <2>6. SinceSound'
    BY <1>1, <2>2, <2>3, CallFields, DocFields
    DEF PullsAreComplete, SeqBounds, SinceSound, Replicating, TypeOK
  <2>7. CheckpointSound'
    <3>1. ~(server'[d].seq <= checkpoint)
      BY <2>2 DEF PullsAreComplete, SeqBounds, TypeOK
    <3> QED
      BY <1>1, <2>2, <2>3, <3>1 DEF PullsAreComplete, CheckpointSound
  <2>8. OnlyLostArePurged'
    BY <1>1, <2>2 DEF PullsAreComplete, OnlyLostArePurged, Purging
  <2> QED
    BY <2>4, <2>5, <2>6, <2>7, <2>8 DEF PullsAreComplete
<1>3. CASE server[d].access # "write"
  <2>1. updateSeq' = updateSeq /\ server' = server
    BY <1>3 DEF PushDoc, serverVars
  <2>2. local' = [local EXCEPT ![d].unsent = "refused"]
    BY <1>3 DEF PushDoc
  <2>3. \A x \in Docs : local'[x].held = local[x].held /\ local'[x].seen = local[x].seen
    BY <2>2 DEF TypeOK, DocState
  <2> QED
    BY <1>1, <2>1, <2>3
    DEF PullsAreComplete, SeqBounds, BatchComplete, SinceSound, CheckpointSound,
        OnlyLostArePurged, Replicating, Purging
<1> QED
  BY <1>2, <1>3

\* A purge takes a document that the user may not read.
LEMMA PurgeDocPulls ==
  ASSUME TypeOK, PullsAreComplete, NEW c \in Calls, NEW d \in Docs, PurgeDoc(c, d)
  PROVE  PullsAreComplete'
<1>1. server[d].access = "none"
  BY DEF PullsAreComplete, OnlyLostArePurged, Purging, PurgeDoc
<1>2. /\ updateSeq' = updateSeq /\ server' = server /\ checkpoint' = checkpoint
      /\ pendingLost' = pendingLost /\ db' = db
  BY DEF PurgeDoc, serverVars, lostVars, pageVars
<1>3. ASSUME NEW x \in Calls
      PROVE  /\ call'[x].pc = call[x].pc /\ call'[x].dirs = call[x].dirs
             /\ call'[x].since = call[x].since /\ call'[x].upto = call[x].upto
             /\ call'[x].got = call[x].got /\ call'[x].toPurge \subseteq call[x].toPurge
  <2> DEFINE S == call[c].toPurge \ {d}
  <2>1. call' = [call EXCEPT ![c] = [call[c] EXCEPT !.handle = (db # "closed"), !.toPurge = S]]
    BY DEF PurgeDoc
  <2>2. S \subseteq call[c].toPurge
    OBVIOUS
  <2> HIDE DEF S
  <2> QED
    BY <2>1, <2>2, CallFields DEF TypeOK, CallState
<1>4. \A x \in Docs : local'[x] = local[x] \/ (x = d /\ local'[x] = Absent)
  <2>1. local' = [local EXCEPT ![d] = Absent] \/ local' = local
    BY DEF PurgeDoc
  <2> QED
    BY <2>1 DEF TypeOK
<1>5. SeqBounds'
  BY <1>2, <1>3, <1>4, DocFields DEF PullsAreComplete, SeqBounds, Absent
<1>6. BatchComplete'
  BY <1>2, <1>3 DEF PullsAreComplete, BatchComplete
<1>7. SinceSound'
  BY <1>1, <1>2, <1>3, <1>4 DEF PullsAreComplete, SinceSound, Replicating
<1>8. CheckpointSound'
  BY <1>1, <1>2, <1>4 DEF PullsAreComplete, CheckpointSound
<1>9. OnlyLostArePurged'
  BY <1>2, <1>3 DEF PullsAreComplete, OnlyLostArePurged, Purging
<1> QED
  BY <1>5, <1>6, <1>7, <1>8, <1>9 DEF PullsAreComplete

\* A change on the server gets a sequence number beyond every position, and does
\* not give access back.
LEMMA ServerChangePulls ==
  ASSUME ~Grants, TypeOK, PullsAreComplete, NEW d \in Docs, ServerChange(d)
  PROVE  PullsAreComplete'
<1>1. /\ call' = call /\ local' = local /\ checkpoint' = checkpoint
      /\ pendingLost' = pendingLost /\ db' = db /\ updateSeq' = updateSeq + 1
  BY DEF ServerChange, deviceVars, lostVars, pageVars
<1>2. /\ \A x \in Docs \ {d} : server'[x] = server[x]
      /\ server'[d].seq = updateSeq + 1
      /\ server[d].access = "none" => server'[d].access = "none"
  <2>1. PICK a \in AccessAfter(server[d].access) :
          server' = [server EXCEPT ![d] = [seq |-> updateSeq + 1, access |-> a]]
    BY DEF ServerChange
  <2>2. server[d].access = "none" => a = "none"
    BY <2>1 DEF AccessAfter
  <2>3. server'[d] = [seq |-> updateSeq + 1, access |-> a]
    BY <2>1 DEF TypeOK
  <2>4. \A x \in Docs \ {d} : server'[x] = server[x]
    BY <2>1 DEF TypeOK
  <2>5. server'[d].seq = updateSeq + 1 /\ server'[d].access = a
    BY <2>3
  <2> QED
    BY <2>2, <2>4, <2>5
<1>3. SeqBounds'
  <2>1. ASSUME NEW x \in Docs
        PROVE  /\ server[x].seq <= server'[x].seq
               /\ server'[x].seq <= updateSeq + 1
    BY <1>2, DocFields DEF PullsAreComplete, SeqBounds, TypeOK
  <2>2. \A x \in Docs : server'[x].seq \in Nat
    BY <1>2, DocFields DEF TypeOK
  <2>3. ASSUME NEW x \in Docs
        PROVE  local[x].seen <= server'[x].seq
    BY <2>1, <2>2, DocFields DEF PullsAreComplete, SeqBounds
  <2>4. ASSUME NEW y \in Calls, NEW x \in Docs
        PROVE  call[y].got[x] <= server'[x].seq
    <3>1. call[y].got[x] \in Nat /\ call[y].got[x] <= server[x].seq
      BY CallFields DEF PullsAreComplete, SeqBounds
    <3> QED
      BY <2>1, <2>2, <3>1, DocFields
  <2>5. /\ checkpoint <= updateSeq + 1
        /\ \A y \in Calls : call[y].since <= updateSeq + 1 /\ call[y].upto <= updateSeq + 1
    BY CallFields DEF PullsAreComplete, SeqBounds, TypeOK
  <2> QED
    BY <1>1, <2>1, <2>3, <2>4, <2>5 DEF SeqBounds
<1>4. BatchComplete'
  BY <1>1, <1>2, CallFields, DocFields DEF PullsAreComplete, SeqBounds, BatchComplete, TypeOK
<1>5. SinceSound'
  BY <1>1, <1>2, CallFields, DocFields
  DEF PullsAreComplete, SeqBounds, SinceSound, Replicating, TypeOK
<1>6. CheckpointSound'
  <2>1. ~(server'[d].seq <= checkpoint)
    BY <1>2 DEF PullsAreComplete, SeqBounds, TypeOK
  <2> QED
    BY <1>1, <1>2, <2>1 DEF PullsAreComplete, CheckpointSound
<1>7. OnlyLostArePurged'
  BY <1>1, <1>2 DEF PullsAreComplete, OnlyLostArePurged, Purging
<1> QED
  BY <1>3, <1>4, <1>5, <1>6, <1>7 DEF PullsAreComplete

\* A local edit takes nothing away from what the device holds.
LEMMA LocalEditPulls ==
  ASSUME TypeOK, PullsAreComplete, NEW d \in Docs, LocalEdit(d)
  PROVE  PullsAreComplete'
<1>1. /\ updateSeq' = updateSeq /\ server' = server /\ checkpoint' = checkpoint
      /\ pendingLost' = pendingLost /\ db' = db
  BY DEF LocalEdit, serverVars, lostVars, pageVars
<1>2. ASSUME NEW x \in Calls
      PROVE  /\ call'[x].pc = call[x].pc /\ call'[x].dirs = call[x].dirs
             /\ call'[x].since = call[x].since /\ call'[x].upto = call[x].upto
             /\ call'[x].got = call[x].got /\ call'[x].toPurge = call[x].toPurge
  BY CallFields DEF LocalEdit, CallState
<1>3. \A x \in Docs : /\ local[x].held => local'[x].held
                      /\ local'[x].seen = local[x].seen
  BY DocFields DEF LocalEdit, TypeOK, DocState
<1> QED
  BY <1>1, <1>2, <1>3
  DEF PullsAreComplete, SeqBounds, BatchComplete, SinceSound, CheckpointSound,
      OnlyLostArePurged, Replicating, Purging

\* What the session does leaves the server alone, and the device unless it is
\* destroyed: nothing is promised about that one until it is set up again.
LEMMA SessionPulls ==
  ASSUME TypeOK, PullsAreComplete, Session
  PROVE  PullsAreComplete'
<1>1. CASE LogIn
  <2>2. ASSUME NEW c \in Calls
        PROVE  /\ call'[c].since = call[c].since /\ call'[c].upto = call[c].upto
               /\ call'[c].got = call[c].got /\ call'[c].dirs = call[c].dirs
               /\ call'[c].toPurge = call[c].toPurge
               /\ call'[c].pc = IF call[c].pc = "awaitOpen" THEN "info" ELSE call[c].pc
    BY <1>1, LogInCall
  <2>3. \A c \in Calls : QuietCall(c)
    BY <2>2 DEF QuietCall, PullsAreComplete, BatchComplete
  <2>4. pendingLost' = {} /\ db # "destroyed" /\ UNCHANGED <<serverVars, deviceVars>>
    BY <1>1 DEF LogIn
  <2>5. \A d \in Docs : d \in pendingLost' \cup Purging' => server[d].access = "none"
    BY <2>2, <2>4 DEF PullsAreComplete, OnlyLostArePurged, Purging
  <2> QED
    BY <2>3, <2>4, <2>5, QuietStep
<1>2. CASE LogOut \/ BeginDestroy
  <2>1. /\ call' = call /\ pendingLost' = pendingLost /\ db # "destroyed"
        /\ UNCHANGED <<serverVars, deviceVars>>
    BY <1>2 DEF LogOut, BeginDestroy, lostVars
  <2>2. \A c \in Calls : QuietCall(c)
    BY <2>1 DEF QuietCall, PullsAreComplete, BatchComplete
  <2>3. \A d \in Docs : d \in pendingLost' \cup Purging' => server[d].access = "none"
    BY <2>1 DEF PullsAreComplete, OnlyLostArePurged, Purging
  <2> QED
    BY <2>1, <2>2, <2>3, QuietStep
<1>3. CASE EndDestroy
  <2>1. /\ updateSeq' = updateSeq /\ server' = server /\ call' = call
        /\ pendingLost' = pendingLost /\ db' = "destroyed" /\ checkpoint' = 0
        /\ \A d \in Docs : local'[d] = Absent
    BY <1>3 DEF EndDestroy, serverVars, lostVars
  <2>2. SeqBounds'
    BY <2>1, DocFields DEF PullsAreComplete, SeqBounds, Absent, TypeOK
  <2>3. SinceSound' /\ CheckpointSound'
    BY <2>1, DocFields DEF SinceSound, CheckpointSound, Replicating
  <2>4. BatchComplete' /\ OnlyLostArePurged'
    BY <2>1 DEF PullsAreComplete, BatchComplete, OnlyLostArePurged, Purging
  <2> QED
    BY <2>2, <2>3, <2>4 DEF PullsAreComplete
<1>4. CASE PageLoad
  <2>1. /\ \A c \in Calls : call'[c] = IdleCall
        /\ pendingLost' = {} /\ UNCHANGED <<serverVars, deviceVars>>
    BY <1>4 DEF PageLoad
  <2>2. \A c \in Calls : QuietCall(c)
    BY <2>1 DEF QuietCall, IdleCall
  <2>3. Purging' = {}
    BY <2>1 DEF Purging, IdleCall
  <2> QED
    BY <2>1, <2>2, <2>3, QuietStep
<1> QED
  BY <1>1, <1>2, <1>3, <1>4 DEF Session

\* Without regained access, every step keeps the pulls complete.
LEMMA PullsNext ==
  ASSUME ~Grants
  PROVE  TypeOK /\ PullsAreComplete /\ [Next]_vars => PullsAreComplete'
<1> SUFFICES ASSUME TypeOK, PullsAreComplete, [Next]_vars PROVE PullsAreComplete'
  OBVIOUS
<1>1. ASSUME NEW c \in Calls, Request(c) PROVE PullsAreComplete'
  BY <1>1, RequestPulls DEF Request, LiveSync, EnsureSynced, ResetSync
<1>2. ASSUME NEW c \in Calls, CallStep(c) PROVE PullsAreComplete'
  <2>1. CASE FirstSyncCompletes(c) \/ SyncCompletes(c)
    <3>1. /\ call' = [call EXCEPT ![c] = IdleCall]
          /\ UNCHANGED <<serverVars, deviceVars, pageVars, pendingLost>>
      BY <2>1 DEF FirstSyncCompletes, SyncCompletes, Settles
    <3> QED
      BY <3>1, SettlesQuiet
  <2> QED
    BY <1>2, <2>1, StartReplicationPulls, FetchBatchPulls, StoreBatchPulls,
       DirectionDonePulls, PushDocPulls, StartPurgePulls, PurgeDocPulls DEF CallStep
<1>3. ASSUME NEW c \in Calls, Fault(c) PROVE PullsAreComplete'
  BY <1>3, FaultPulls
<1>4. CASE User
  BY <1>4, ServerChangePulls, LocalEditPulls DEF User
<1>5. CASE Session
  BY <1>5, SessionPulls
<1>6. CASE GoOffline \/ GoOnline \/ UNCHANGED vars
  <2>1. /\ call' = call /\ pendingLost' = pendingLost /\ db' = db
        /\ updateSeq' = updateSeq /\ server' = server /\ local' = local
        /\ checkpoint' = checkpoint
    BY <1>6
    DEF GoOffline, GoOnline, vars, serverVars, deviceVars, pageVars, lostVars
  <2> QED
    BY <2>1
    DEF PullsAreComplete, SeqBounds, BatchComplete, SinceSound, CheckpointSound,
        OnlyLostArePurged, Replicating, Purging
<1> QED
  BY <1>1, <1>2, <1>3, <1>4, <1>5, <1>6 DEF Next

\* Nothing has been read at first.
LEMMA PullsInit == Init => PullsAreComplete
<1> SUFFICES ASSUME Init PROVE PullsAreComplete
  OBVIOUS
<1>1. PICK i \in InitialServers :
          /\ server = [d \in Docs |-> [seq |-> i.seq[d], access |-> "write"]]
          /\ updateSeq = i.last
  BY DEF Init
<1>2. /\ \A c \in Calls : call[c] = IdleCall
      /\ \A d \in Docs : local[d] = Absent /\ server[d].seq = i.seq[d]
      /\ checkpoint = 0 /\ pendingLost = {}
  BY <1>1 DEF Init
<1>3. SeqBounds
  BY <1>1, <1>2, InitialServersAssumption DEF SeqBounds, IdleCall, NoBatch, Absent
<1>4. BatchComplete /\ SinceSound
  BY <1>2 DEF BatchComplete, SinceSound, Replicating, IdleCall
<1>5. CheckpointSound
  BY <1>1, <1>2, InitialServersAssumption DEF CheckpointSound
<1>6. OnlyLostArePurged
  BY <1>2 DEF OnlyLostArePurged, Purging, IdleCall
<1> QED
  BY <1>3, <1>4, <1>5, <1>6 DEF PullsAreComplete

\* As long as nobody regains access, every pull is complete up to its position,
\* whatever syncs overlap, fail or stall, and whenever the page is reloaded.
THEOREM PullsCorrect ==
  ASSUME ~Grants
  PROVE  Spec => []PullsAreComplete
BY TypeCorrect, PullsInit, PullsNext, PTL DEF Spec

\* As long as nobody regains access, no document is lost behind the checkpoint.
THEOREM CheckpointCorrect ==
  ASSUME ~Grants
  PROVE  Spec => []CheckpointSound
<1>1. PullsAreComplete => CheckpointSound
  BY DEF PullsAreComplete
<1> QED
  BY PullsCorrect, <1>1, PTL

-----------------------------------------------------------------------------
(***************************************************************************)
(* What the steps of a call do to the calls                                *)
(***************************************************************************)

\* A sync that starts has all its work before it.
LEMMA StartReplicationCall ==
  ASSUME TypeOK, NEW c \in Calls, StartReplication(c)
  PROVE  /\ call[c].pc = "info" /\ call'[c].pc = "replicating"
         /\ call'[c].dirs = {"pull", "push"}
         /\ call'[c].first = (\A d \in Docs : ~local[d].held)
         /\ call'[c].since = IF call[c].full THEN 0 ELSE checkpoint
         /\ call'[c].upto = call[c].upto /\ call'[c].got = call[c].got
         /\ call'[c].toPurge = call[c].toPurge
         /\ call'[c].owedSeq = updateSeq
         /\ call'[c].owedDocs = {d \in Docs : local[d].unsent = "yes"}
         /\ \A x \in Calls \ {c} : call'[x] = call[x]
  BY CallFields DEF StartReplication, TypeOK, CallState

\* A fetched batch covers a range of the server's changes.
LEMMA FetchBatchCall ==
  ASSUME TypeOK, NEW c \in Calls, FetchBatch(c)
  PROVE  \E upto \in (call[c].since + 1)..updateSeq :
           /\ call'[c].upto = upto
           /\ call'[c].got =
                [d \in Docs |-> IF /\ call[c].since < server[d].seq /\ server[d].seq <= upto
                                   /\ server[d].access # "none"
                                THEN server[d].seq ELSE 0]
           /\ call'[c].pc = call[c].pc /\ call'[c].dirs = call[c].dirs
           /\ call'[c].since = call[c].since /\ call'[c].first = call[c].first
           /\ call'[c].toPurge = call[c].toPurge
           /\ call'[c].owedSeq = call[c].owedSeq /\ call'[c].owedDocs = call[c].owedDocs
           /\ \A x \in Calls \ {c} : call'[x] = call[x]
           /\ \A d \in Docs : d \in pendingLost' \cup missed' \/
                 ~(/\ call[c].since < server[d].seq /\ server[d].seq <= upto
                   /\ server[d].access = "none" /\ (local[d].held \/ d \in Arriving))
           /\ pendingLost \subseteq pendingLost' /\ missed \subseteq missed'
<1> DEFINE changed(n) == {d \in Docs : call[c].since < server[d].seq /\ server[d].seq <= n}
           lost(n) == {d \in changed(n) : server[d].access = "none"}
           got(n) == [d \in Docs |-> IF d \in changed(n) \ lost(n) THEN server[d].seq ELSE 0]
           rep(n) == IF trackLost THEN call[c].reported \cup lost(n) ELSE call[c].reported
<1>1. PICK upto \in (call[c].since + 1)..updateSeq :
        /\ call' = [call EXCEPT ![c] = [call[c] EXCEPT !.upto = upto,
                       !.reported = rep(upto), !.got = got(upto)]]
        /\ IF trackLost
           THEN pendingLost' = pendingLost \cup lost(upto) /\ UNCHANGED missed
           ELSE missed' = missed \cup {d \in lost(upto) : local[d].held \/ d \in Arriving}
                /\ UNCHANGED pendingLost
  BY DEF FetchBatch
<1>2. got(upto) =
        [d \in Docs |-> IF /\ call[c].since < server[d].seq /\ server[d].seq <= upto
                           /\ server[d].access # "none"
                        THEN server[d].seq ELSE 0]
  OBVIOUS
<1>3. \A d \in Docs : d \in lost(upto) <=> /\ call[c].since < server[d].seq
                                          /\ server[d].seq <= upto
                                          /\ server[d].access = "none"
  OBVIOUS
<1> HIDE DEF got, rep, lost
<1>4. /\ call'[c].upto = upto /\ call'[c].got = got(upto)
      /\ call'[c].pc = call[c].pc /\ call'[c].dirs = call[c].dirs
      /\ call'[c].since = call[c].since /\ call'[c].first = call[c].first
      /\ call'[c].toPurge = call[c].toPurge
      /\ call'[c].owedSeq = call[c].owedSeq /\ call'[c].owedDocs = call[c].owedDocs
      /\ \A x \in Calls \ {c} : call'[x] = call[x]
  BY <1>1, CallFields DEF TypeOK, CallState
<1>5. pendingLost \subseteq pendingLost' /\ missed \subseteq missed'
  BY <1>1
<1>6. ASSUME NEW d \in Docs, d \in lost(upto), local[d].held \/ d \in Arriving
      PROVE  d \in pendingLost' \cup missed'
  BY <1>1, <1>6
<1> QED
  BY <1>2, <1>3, <1>4, <1>5, <1>6

\* A stored batch moves the position of the pull to its end.
LEMMA StoreBatchCall ==
  ASSUME TypeOK, NEW c \in Calls, StoreBatch(c)
  PROVE  /\ call'[c].since = call[c].upto /\ call'[c].upto = 0 /\ call'[c].got = NoBatch
         /\ \A x \in Calls : /\ call'[x].pc = call[x].pc /\ call'[x].dirs = call[x].dirs
                             /\ call'[x].first = call[x].first
                             /\ call'[x].toPurge = call[x].toPurge
                             /\ call'[x].owedSeq = call[x].owedSeq
                             /\ call'[x].owedDocs = call[x].owedDocs
         /\ \A x \in Calls \ {c} : call'[x] = call[x]
  BY CallFields DEF StoreBatch, TypeOK, CallState

\* A direction that is done has nothing more to do.
LEMMA DirectionDoneCall ==
  ASSUME TypeOK, NEW c \in Calls, NEW dir \in {"pull", "push"},
         \/ PullDone(c) /\ dir = "pull"
         \/ PushDone(c) /\ dir = "push"
  PROVE  /\ call'[c].dirs = call[c].dirs \ {dir}
         /\ call'[c].since = IF dir = "pull" THEN 0 ELSE call[c].since
         /\ call'[c].upto = call[c].upto /\ call'[c].got = call[c].got
         /\ call'[c].pc = call[c].pc /\ call'[c].first = call[c].first
         /\ call'[c].toPurge = call[c].toPurge
         /\ call'[c].owedSeq = call[c].owedSeq /\ call'[c].owedDocs = call[c].owedDocs
         /\ \A x \in Calls \ {c} : call'[x] = call[x]
<1> DEFINE D == call[c].dirs \ {dir}
           n == IF dir = "pull" THEN 0 ELSE call[c].since
<1>1. call' = [call EXCEPT ![c] = [call[c] EXCEPT !.dirs = D, !.since = n]]
  <2>1. CASE dir = "pull"
    BY <2>1 DEF PullDone, PushDone
  <2>2. CASE dir = "push"
    <3>1. [call[c] EXCEPT !.dirs = D] = [call[c] EXCEPT !.dirs = D, !.since = call[c].since]
      BY CallFields DEF CallState
    <3>2. n = call[c].since /\ call' = [call EXCEPT ![c] = [call[c] EXCEPT !.dirs = D]]
      BY <2>2 DEF PushDone
    <3> QED
      BY <3>1, <3>2
  <2> QED
    BY <2>1, <2>2
<1> HIDE DEF D, n
<1>2. /\ call'[c].dirs = D /\ call'[c].since = n
      /\ call'[c].upto = call[c].upto /\ call'[c].got = call[c].got
      /\ call'[c].pc = call[c].pc /\ call'[c].first = call[c].first
      /\ call'[c].toPurge = call[c].toPurge
      /\ call'[c].owedSeq = call[c].owedSeq /\ call'[c].owedDocs = call[c].owedDocs
      /\ \A x \in Calls \ {c} : call'[x] = call[x]
  BY <1>1, CallFields DEF TypeOK, CallState
<1> QED
  BY <1>2 DEF D, n

\* The reports collected so far are what the call goes on to purge.
LEMMA StartPurgeCall ==
  ASSUME TypeOK, NEW c \in Calls, StartPurge(c)
  PROVE  /\ call[c].pc = "replicating" /\ call[c].dirs = {}
         /\ call'[c].pc = "purging" /\ call'[c].dirs = {}
         /\ call'[c].toPurge = IF LegacyAdapter THEN {} ELSE pendingLost
         /\ call'[c].since = call[c].since /\ call'[c].upto = call[c].upto
         /\ call'[c].got = call[c].got /\ call'[c].first = call[c].first
         /\ call'[c].owedSeq = call[c].owedSeq /\ call'[c].owedDocs = call[c].owedDocs
         /\ \A x \in Calls \ {c} : call'[x] = call[x]
  BY CallFields DEF StartPurge, TypeOK, CallState

\* A purged document leaves the list of its call, which changes nothing else in it
\* but the database the next purge has got.
LEMMA PurgeDocCall ==
  ASSUME TypeOK, NEW c \in Calls, NEW d \in Docs, PurgeDoc(c, d)
  PROVE  /\ \A x \in Calls \ {c} : call'[x] = call[x]
         /\ call'[c].toPurge = call[c].toPurge \ {d}
         /\ \A x \in Calls :
               /\ call'[x].pc = call[x].pc /\ call'[x].dirs = call[x].dirs
               /\ call'[x].since = call[x].since /\ call'[x].upto = call[x].upto
               /\ call'[x].got = call[x].got /\ call'[x].first = call[x].first
               /\ call'[x].owedSeq = call[x].owedSeq /\ call'[x].owedDocs = call[x].owedDocs
<1> DEFINE S == call[c].toPurge \ {d}
<1> DEFINE h == db # "closed"
<1>1. call' = [call EXCEPT ![c] = [call[c] EXCEPT !.handle = h, !.toPurge = S]]
  BY DEF PurgeDoc
<1> HIDE DEF S, h
<1>2. \A x \in Calls :
         call'[x] = IF x = c THEN [call[c] EXCEPT !.handle = h, !.toPurge = S] ELSE call[x]
  BY <1>1 DEF TypeOK
<1>3. call'[c].toPurge = S
  BY <1>2, CallFields DEF CallState
<1> QED
  BY <1>1, <1>2, <1>3, CallFields DEF CallState, S

-----------------------------------------------------------------------------
(***************************************************************************)
(* TrackingPausedOnlyByFirstSync and DestroyedIsForgotten                  *)
(***************************************************************************)

\* A call that keeps tracking paused.
Pauses(c) == call[c].pc = "replicating" /\ call[c].first

\* A step that neither opens the database nor touches tracking, and that no paused
\* call ends in, keeps the invariant.
LEMMA PausedQuiet ==
  ASSUME TrackingPausedOnlyByFirstSync, db' = "open" => db = "open", trackLost' = trackLost,
         \A c \in Calls : Pauses(c) => Pauses(c)'
  PROVE  TrackingPausedOnlyByFirstSync'
  BY DEF TrackingPausedOnlyByFirstSync, Pauses

\* However a call settles, tracking resumes with it if it has paused it.
LEMMA PausedSettles ==
  ASSUME TypeOK, TrackingPausedOnlyByFirstSync, NEW c \in Calls, NEW s, Settles(c, s)
  PROVE  TrackingPausedOnlyByFirstSync'
<1>1. \A x \in Calls \ {c} : call'[x] = call[x]
  BY DEF Settles, TypeOK
<1>2. db' = db /\ trackLost' = (trackLost \/ call[c].first)
  BY DEF Settles, pageVars
<1> QED
  BY <1>1, <1>2 DEF TrackingPausedOnlyByFirstSync

\* Steps of a pending call
LEMMA PausedCallStep ==
  ASSUME TypeOK, TrackingPausedOnlyByFirstSync, NEW c \in Calls, CallStep(c)
  PROVE  TrackingPausedOnlyByFirstSync'
<1>1. CASE StartReplication(c)
  <2> DEFINE first == \A d \in Docs : ~local[d].held
  <2>1. /\ trackLost' = (trackLost /\ ~first) /\ db' = db /\ call[c].pc = "info"
        /\ \A x \in Calls \ {c} : call'[x] = call[x]
        /\ call'[c].pc = "replicating" /\ call'[c].first = first
    BY <1>1, CallFields DEF StartReplication, pageVars, TypeOK, CallState
  <2> QED
    BY <2>1 DEF TrackingPausedOnlyByFirstSync
<1>2. CASE FirstSyncCompletes(c) \/ SyncCompletes(c)
  BY <1>2, PausedSettles DEF FirstSyncCompletes, SyncCompletes
<1>3. CASE StartPurge(c)
  <2>1. /\ trackLost' = trackLost /\ db' = db /\ ~call[c].first
        /\ \A x \in Calls \ {c} : call'[x] = call[x]
    BY <1>3 DEF StartPurge, pageVars, TypeOK
  <2> QED
    BY <2>1, PausedQuiet DEF Pauses
<1>4. CASE \/ FetchBatch(c) \/ StoreBatch(c) \/ PullDone(c) \/ PushDone(c)
           \/ \E d \in Docs : PushDoc(c, d) \/ PurgeDoc(c, d)
  <2>1. trackLost' = trackLost /\ db' = db
    BY <1>4 DEF FetchBatch, StoreBatch, PullDone, PushDone, PushDoc, PurgeDoc, CallOnly,
                lostVars, pageVars
  <2>2. ASSUME NEW x \in Calls, Pauses(x) PROVE Pauses(x)'
    <3>1. call'[x].pc = call[x].pc /\ call'[x].first = call[x].first
      <4>1. CASE FetchBatch(c)
        BY <4>1, FetchBatchCall
      <4>2. CASE StoreBatch(c)
        BY <4>2, StoreBatchCall
      <4>3. CASE PullDone(c) \/ PushDone(c)
        <5>1. PICK dir \in {"pull", "push"} : \/ PullDone(c) /\ dir = "pull"
                                              \/ PushDone(c) /\ dir = "push"
          BY <4>3
        <5> QED
          BY <5>1, DirectionDoneCall, Zenon
      <4>4. CASE \E d \in Docs : PushDoc(c, d)
        BY <4>4 DEF PushDoc
      <4>5. CASE \E d \in Docs : PurgeDoc(c, d)
        BY <4>5, PurgeDocCall
      <4> QED
        BY <1>4, <4>1, <4>2, <4>3, <4>4, <4>5
    <3> QED
      BY <2>2, <3>1 DEF Pauses
  <2> QED
    BY <2>1, <2>2, PausedQuiet
<1> QED
  BY <1>1, <1>2, <1>3, <1>4 DEF CallStep

\* Every step of the system
LEMMA PausedNext ==
  TypeOK /\ TrackingPausedOnlyByFirstSync /\ [Next]_vars => TrackingPausedOnlyByFirstSync'
<1> SUFFICES ASSUME TypeOK, TrackingPausedOnlyByFirstSync, [Next]_vars
             PROVE  TrackingPausedOnlyByFirstSync'
  OBVIOUS
<1>1. ASSUME NEW c \in Calls, Request(c) PROVE TrackingPausedOnlyByFirstSync'
  <2>1. PICK full \in BOOLEAN : Sync(c, full)
    BY <1>1 DEF Request, LiveSync, EnsureSynced, ResetSync
  <2>2. /\ trackLost' = trackLost /\ db' = db /\ call[c].pc = "idle"
        /\ \A x \in Calls \ {c} : call'[x] = call[x]
    BY <2>1 DEF Sync, lostVars, pageVars, TypeOK
  <2> QED
    BY <2>2, PausedQuiet DEF Pauses
<1>2. ASSUME NEW c \in Calls, CallStep(c) PROVE TrackingPausedOnlyByFirstSync'
  BY <1>2, PausedCallStep
<1>3. ASSUME NEW c \in Calls, Fault(c) PROVE TrackingPausedOnlyByFirstSync'
  <2>1. CASE InfoFails(c)
    <3>1. /\ trackLost' = trackLost /\ db' = db /\ call[c].pc = "info"
          /\ \A x \in Calls \ {c} : call'[x] = call[x]
      BY <2>1 DEF InfoFails, lostVars, pageVars, TypeOK
    <3> QED
      BY <3>1, PausedQuiet DEF Pauses
  <2> QED
    BY <1>3, <2>1, PausedSettles DEF Fault, SyncFails, SyncStalls, NotificationsNotFound
<1>4. CASE User
  <2>1. trackLost' = trackLost /\ db' = db
    BY <1>4 DEF User, ServerChange, LocalEdit, lostVars, pageVars
  <2>2. ASSUME NEW x \in Calls PROVE call'[x].pc = call[x].pc /\ call'[x].first = call[x].first
    BY <1>4, CallFields DEF User, ServerChange, LocalEdit, CallState
  <2> QED
    BY <2>1, <2>2, PausedQuiet DEF Pauses
<1>5. CASE Session
  <2>1. CASE LogIn
    BY <2>1 DEF LogIn, TrackingPausedOnlyByFirstSync
  <2>2. CASE LogOut \/ BeginDestroy \/ EndDestroy \/ PageLoad
    <3>1. db' # "open"
      BY <2>2 DEF LogOut, BeginDestroy, EndDestroy, PageLoad
    <3> QED
      BY <3>1 DEF TrackingPausedOnlyByFirstSync
  <2> QED
    BY <1>5, <2>1, <2>2 DEF Session
<1>6. CASE GoOffline \/ GoOnline \/ UNCHANGED vars
  BY <1>6, PausedQuiet DEF GoOffline, GoOnline, vars, lostVars, pageVars, Pauses
<1> QED
  BY <1>1, <1>2, <1>3, <1>4, <1>5, <1>6 DEF Next

\* Lost access is ignored only while a first sync replicates, whatever syncs overlap.
THEOREM TrackingResumes == Spec => []TrackingPausedOnlyByFirstSync
<1>1. Init => TrackingPausedOnlyByFirstSync
  BY DEF Init, TrackingPausedOnlyByFirstSync
<1> QED
  BY <1>1, PausedNext, TypeCorrect, PTL DEF Spec

-----------------------------------------------------------------------------
\* The subscriptions of a database do not outlive its destruction, and nothing is
\* stored about it afterwards.
DestroyedForGood ==
    /\ db \in {"destroying", "destroyed"} => ~alive
    /\ DestroyedIsForgotten

\* Every step keeps a destroyed database forgotten.
LEMMA DestroyedNext == DestroyedForGood /\ [Next]_vars => DestroyedForGood'
<1> SUFFICES ASSUME DestroyedForGood, [Next]_vars PROVE DestroyedForGood'
  OBVIOUS
<1>1. ASSUME NEW c \in Calls, Request(c) \/ CallStep(c) \/ Fault(c) PROVE DestroyedForGood'
  <2>1. db' = db /\ alive' = alive
    <3>1. CASE Request(c)
      BY <3>1 DEF Request, LiveSync, EnsureSynced, ResetSync, Sync, pageVars
    <3>2. CASE CallStep(c)
      BY <3>2 DEF CallStep, StartReplication, FetchBatch, StoreBatch, PullDone, PushDoc,
                  PushDone, FirstSyncCompletes, StartPurge, PurgeDoc, SyncCompletes, Settles,
                  CallOnly, pageVars
    <3>3. CASE Fault(c)
      BY <3>3 DEF Fault, InfoFails, SyncFails, SyncStalls, NotificationsNotFound, Settles, pageVars
    <3> QED
      BY <1>1, <3>1, <3>2, <3>3
  <2>2. lastSync' = lastSync \/ \E s : Emit(s)
    <3>1. CASE Request(c)
      BY <3>1 DEF Request, LiveSync, EnsureSynced, ResetSync, Sync, stateVars
    <3>2. CASE CallStep(c)
      BY <3>2 DEF CallStep, StartReplication, FetchBatch, StoreBatch, PullDone, PushDoc,
                  PushDone, FirstSyncCompletes, StartPurge, PurgeDoc, SyncCompletes, Settles,
                  CallOnly, stateVars
    <3>3. CASE Fault(c)
      BY <3>3 DEF Fault, InfoFails, SyncFails, SyncStalls, NotificationsNotFound, Settles
    <3> QED
      BY <1>1, <3>1, <3>2, <3>3
  <2>3. ASSUME db = "destroyed" PROVE ~lastSync'
    <3>1. ~lastSync /\ ~alive
      BY <2>3 DEF DestroyedForGood, DestroyedIsForgotten
    <3>2. CASE lastSync' = lastSync
      BY <3>1, <3>2
    <3>3. ASSUME NEW s, Emit(s) PROVE ~lastSync'
      BY <3>1, <3>3, Zenon DEF Emit
    <3> QED
      BY <2>2, <3>2, <3>3
  <2> QED
    BY <2>1, <2>3 DEF DestroyedForGood, DestroyedIsForgotten
<1>2. CASE Session
  <2>1. CASE LogIn
    BY <2>1 DEF LogIn, stateVars, DestroyedForGood, DestroyedIsForgotten
  <2>2. CASE LogOut \/ BeginDestroy \/ EndDestroy \/ PageLoad
    BY <2>2 DEF LogOut, BeginDestroy, EndDestroy, PageLoad, stateVars,
                DestroyedForGood, DestroyedIsForgotten
  <2> QED
    BY <1>2, <2>1, <2>2 DEF Session
<1>3. CASE User \/ GoOffline \/ GoOnline \/ UNCHANGED vars
  <2>1. db' = db /\ alive' = alive /\ lastSync' = lastSync
    BY <1>3 DEF User, ServerChange, LocalEdit, GoOffline, GoOnline, vars, pageVars, stateVars
  <2> QED
    BY <2>1 DEF DestroyedForGood, DestroyedIsForgotten
<1> QED
  BY <1>1, <1>2, <1>3 DEF Next

\* A destroyed database leaves no LAST_SYNC marker, whatever syncs were under way.
THEOREM DestroyedForgotten == Spec => []DestroyedIsForgotten
<1>1. Init => DestroyedForGood
  BY DEF Init, DestroyedForGood, DestroyedIsForgotten
<1>2. DestroyedForGood => DestroyedIsForgotten
  BY DEF DestroyedForGood
<1> QED
  BY <1>1, <1>2, DestroyedNext, PTL DEF Spec

-----------------------------------------------------------------------------
(***************************************************************************)
(* LostAccessIsTracked.  The checkpoint may move back and forth between    *)
(* the positions of overlapping pulls, and a document may be stored by one *)
(* sync after another one has purged it: the invariant is stated for every *)
(* position, and for documents that are held or on their way.              *)
(***************************************************************************)
Tracked == pendingLost \cup Purging \cup missed

Present(d) == local[d].held \/ d \in Arriving

\* Some position lies at or beyond the latest change of the document.
Reached(d) ==
    \/ server[d].seq <= checkpoint
    \/ \E c \in Calls : server[d].seq <= call[c].since \/ server[d].seq <= call[c].upto

\* A document without access that is held or on its way, and whose latest change some
\* position has passed, is tracked.
LostIsTracked ==
    \A d \in Docs : server[d].access = "none" /\ Present(d) /\ Reached(d) => d \in Tracked

\* Positions do not run ahead of the server.
PositionsGiven ==
    /\ checkpoint <= updateSeq
    /\ \A c \in Calls : call[c].since <= updateSeq /\ call[c].upto <= updateSeq

LostInv ==
    /\ PositionsGiven
    /\ \A d \in Docs : server[d].seq = 0 => server[d].access # "none"
    /\ \A c \in Calls : call[c].toPurge # {} => call[c].pc = "purging"
    /\ LostIsTracked

\* A step that leaves the server as it is, brings no document without access closer
\* to the device, passes none of them with a position, and loses no report.
LEMMA LostQuiet ==
  ASSUME TypeOK, LostInv, UNCHANGED serverVars, PositionsGiven',
         \A c \in Calls : call'[c].toPurge # {} => call'[c].pc = "purging",
         ASSUME NEW d \in Docs, server[d].access = "none", Present(d)', Reached(d)',
                d \notin Tracked'
         PROVE  Present(d) /\ Reached(d) /\ d \notin Tracked
  PROVE  LostInv'
<1>1. server' = server
  BY DEF serverVars
<1>2. LostIsTracked'
  <2> SUFFICES ASSUME NEW d \in Docs, server[d].access = "none", Present(d)', Reached(d)',
                      d \notin Tracked'
               PROVE  FALSE
    BY <1>1 DEF LostIsTracked
  <2> QED
    BY DEF LostInv, LostIsTracked
<1> QED
  BY <1>1, <1>2 DEF LostInv

\* A call that settles, or is requested, has nothing left to purge and takes its
\* position with it.
LEMMA LostCallReplaced ==
  ASSUME TypeOK, LostInv, NEW c \in Calls, call[c].toPurge = {},
         \A x \in Calls \ {c} : call'[x] = call[x],
         call'[c] = call[c] \/ (/\ call'[c].since = 0 /\ call'[c].upto = 0
                                /\ call'[c].got = NoBatch /\ call'[c].toPurge = {}),
         UNCHANGED <<serverVars, deviceVars, pendingLost, missed>>
  PROVE  LostInv'
<1>1. /\ server' = server /\ updateSeq' = updateSeq /\ local' = local
      /\ checkpoint' = checkpoint /\ pendingLost' = pendingLost /\ missed' = missed
  BY DEF serverVars, deviceVars
<1>2. PositionsGiven'
  BY <1>1, CallFields DEF LostInv, PositionsGiven, TypeOK
<1>3. \A x \in Calls : call'[x].toPurge # {} => call'[x].pc = "purging"
  BY DEF LostInv
<1>4. ASSUME NEW d \in Docs, server[d].access = "none", Present(d)', Reached(d)', d \notin Tracked'
      PROVE  Present(d) /\ Reached(d) /\ d \notin Tracked
  <2>1. Present(d)
    BY <1>1, <1>4 DEF Present, Arriving, NoBatch
  <2>2. Reached(d)
    <3>1. 0 < server[d].seq
      BY <1>4, DocFields DEF LostInv
    <3> QED
      BY <1>1, <1>4, <3>1, DocFields DEF Reached
  <2>3. d \notin Tracked
    BY <1>1, <1>4 DEF Tracked, Purging
  <2> QED
    BY <2>1, <2>2, <2>3
<1> QED
  BY <1>2, <1>3, <1>4, LostQuiet DEF serverVars

\* A call that settles has nothing left to purge.
LEMMA LostSettles ==
  ASSUME TypeOK, LostInv, NEW c \in Calls, call[c].toPurge = {},
         call' = [call EXCEPT ![c] = IdleCall],
         UNCHANGED <<serverVars, deviceVars, pendingLost, missed>>
  PROVE  LostInv'
<1>1. /\ \A x \in Calls \ {c} : call'[x] = call[x]
      /\ call'[c].since = 0 /\ call'[c].upto = 0
      /\ call'[c].got = NoBatch /\ call'[c].toPurge = {}
  BY DEF TypeOK, IdleCall
<1> QED
  BY <1>1, LostCallReplaced

\* A request starts at no position.
LEMMA LostRequest ==
  ASSUME TypeOK, LostInv, NEW c \in Calls, NEW full \in BOOLEAN, Sync(c, full)
  PROVE  LostInv'
<1>1. /\ call[c].toPurge = {}
      /\ \A x \in Calls \ {c} : call'[x] = call[x]
      /\ call'[c] = call[c] \/ (/\ call'[c].since = 0 /\ call'[c].upto = 0
                                /\ call'[c].got = NoBatch /\ call'[c].toPurge = {})
  BY DEF Sync, LostInv, TypeOK, IdleCall
<1>2. UNCHANGED <<serverVars, deviceVars, pendingLost, missed>>
  BY DEF Sync, lostVars
<1> QED
  BY <1>1, <1>2, LostCallReplaced

\* A replication that starts does so at the checkpoint, or before every change.
LEMMA LostStartReplication ==
  ASSUME TypeOK, LostInv, NEW c \in Calls, StartReplication(c)
  PROVE  LostInv'
<1>1. /\ server' = server /\ updateSeq' = updateSeq /\ local' = local
      /\ checkpoint' = checkpoint /\ pendingLost' = pendingLost /\ missed' = missed
  BY DEF StartReplication, serverVars, deviceVars
<1>2. /\ call'[c].since \in {0, checkpoint}
      /\ call'[c].upto = call[c].upto /\ call'[c].got = call[c].got
      /\ call'[c].toPurge = call[c].toPurge /\ call[c].pc = "info"
      /\ \A x \in Calls \ {c} : call'[x] = call[x]
  <2>1. call'[c].since = 0 \/ call'[c].since = checkpoint
    BY StartReplicationCall, Zenon
  <2> QED
    BY <2>1, StartReplicationCall, Zenon
<1>3. PositionsGiven'
  BY <1>1, <1>2, CallFields DEF LostInv, PositionsGiven, TypeOK
<1>4. \A x \in Calls : call'[x].toPurge # {} => call'[x].pc = "purging"
  BY <1>2 DEF LostInv
<1>5. ASSUME NEW d \in Docs, server[d].access = "none", Present(d)', Reached(d)', d \notin Tracked'
      PROVE  Present(d) /\ Reached(d) /\ d \notin Tracked
  <2>1. Present(d)
    BY <1>1, <1>2, <1>5 DEF Present, Arriving
  <2>2. Reached(d)
    <3>1. 0 < server[d].seq
      BY <1>5, DocFields DEF LostInv
    <3> QED
      BY <1>1, <1>2, <1>5, <3>1, DocFields DEF Reached
  <2>3. d \notin Tracked
    BY <1>1, <1>2, <1>5 DEF Tracked, Purging
  <2> QED
    BY <2>1, <2>2, <2>3
<1> QED
  BY <1>1, <1>3, <1>4, <1>5, LostQuiet DEF serverVars

\* What a batch passes without access is reported, or not on the device.
LEMMA LostFetchBatch ==
  ASSUME TypeOK, LostInv, NEW c \in Calls, FetchBatch(c)
  PROVE  LostInv'
<1>1. PICK upto \in (call[c].since + 1)..updateSeq :
           /\ call'[c].upto = upto
           /\ call'[c].got =
                [d \in Docs |-> IF /\ call[c].since < server[d].seq /\ server[d].seq <= upto
                                   /\ server[d].access # "none"
                                THEN server[d].seq ELSE 0]
           /\ call'[c].pc = call[c].pc
           /\ call'[c].since = call[c].since
           /\ call'[c].toPurge = call[c].toPurge
           /\ \A x \in Calls \ {c} : call'[x] = call[x]
           /\ \A d \in Docs : d \in pendingLost' \cup missed' \/
                 ~(/\ call[c].since < server[d].seq /\ server[d].seq <= upto
                   /\ server[d].access = "none" /\ (local[d].held \/ d \in Arriving))
           /\ pendingLost \subseteq pendingLost' /\ missed \subseteq missed'
  BY FetchBatchCall
<1>2. /\ server' = server /\ updateSeq' = updateSeq /\ local' = local
      /\ checkpoint' = checkpoint
  BY DEF FetchBatch, serverVars, deviceVars
<1>3. upto \in Nat /\ upto <= updateSeq
  BY CallFields DEF TypeOK
<1>4. PositionsGiven'
  BY <1>1, <1>2, <1>3 DEF LostInv, PositionsGiven
<1>5. \A x \in Calls : call'[x].toPurge # {} => call'[x].pc = "purging"
  BY <1>1 DEF LostInv
<1>6. ASSUME NEW d \in Docs, server[d].access = "none", Present(d)', Reached(d)', d \notin Tracked'
      PROVE  Present(d) /\ Reached(d) /\ d \notin Tracked
  <2>1. Present(d)
    <3>1. call'[c].got[d] = 0
      BY <1>1, <1>6
    <3> QED
      BY <1>1, <1>2, <1>6, <3>1 DEF Present, Arriving
  <2>2. d \notin Tracked
    BY <1>1, <1>6 DEF Tracked, Purging
  <2>3. ~(call[c].since < server[d].seq /\ server[d].seq <= upto)
    BY <1>1, <1>6, <2>1 DEF Tracked, Present
  <2>4. Reached(d)
    <3>1. CASE server[d].seq <= upto
      BY <2>3, <3>1, CallFields, DocFields DEF Reached
    <3>2. CASE ~(server[d].seq <= upto)
      BY <1>1, <1>2, <1>6, <3>2 DEF Reached
    <3> QED
      BY <3>1, <3>2
  <2> QED
    BY <2>1, <2>2, <2>4
<1> QED
  BY <1>2, <1>4, <1>5, <1>6, LostQuiet DEF serverVars

\* A stored batch was on its way before, and its end was a position before.
LEMMA LostStoreBatch ==
  ASSUME TypeOK, LostInv, NEW c \in Calls, StoreBatch(c)
  PROVE  LostInv'
<1>1. /\ server' = server /\ updateSeq' = updateSeq
      /\ checkpoint' \in {checkpoint, call[c].upto}
      /\ pendingLost' = pendingLost /\ missed' = missed
  BY DEF StoreBatch, serverVars, lostVars
<1>2. \A d \in Docs : local'[d].held => local[d].held \/ call[c].got[d] > 0
  BY DocFields, CallFields DEF StoreBatch, TypeOK, DocState
<1>3. PositionsGiven'
  BY <1>1, StoreBatchCall, CallFields DEF LostInv, PositionsGiven, TypeOK
<1>4. \A x \in Calls : call'[x].toPurge # {} => call'[x].pc = "purging"
  BY StoreBatchCall DEF LostInv
<1>5. ASSUME NEW d \in Docs, server[d].access = "none", Present(d)', Reached(d)', d \notin Tracked'
      PROVE  Present(d) /\ Reached(d) /\ d \notin Tracked
  <2>1. Present(d)
    BY <1>2, <1>5, StoreBatchCall DEF Present, Arriving, NoBatch
  <2>2. Reached(d)
    <3>1. 0 < server[d].seq
      BY <1>5, DocFields DEF LostInv
    <3> QED
      BY <1>1, <1>5, <3>1, DocFields, StoreBatchCall DEF Reached
  <2>3. d \notin Tracked
    BY <1>1, <1>5, StoreBatchCall DEF Tracked, Purging
  <2> QED
    BY <2>1, <2>2, <2>3
<1> QED
  BY <1>1, <1>3, <1>4, <1>5, LostQuiet DEF serverVars

\* The end of either direction gives up a position at most.
LEMMA LostDirectionDone ==
  ASSUME TypeOK, LostInv, NEW c \in Calls, PullDone(c) \/ PushDone(c)
  PROVE  LostInv'
<1>1. /\ server' = server /\ updateSeq' = updateSeq /\ local' = local
      /\ checkpoint' = checkpoint /\ pendingLost' = pendingLost /\ missed' = missed
  BY DEF PullDone, PushDone, CallOnly, serverVars, deviceVars, lostVars
<1>2. /\ call'[c].since \in {0, call[c].since}
      /\ call'[c].upto = call[c].upto /\ call'[c].got = call[c].got
      /\ call'[c].pc = call[c].pc /\ call'[c].toPurge = call[c].toPurge
      /\ \A x \in Calls \ {c} : call'[x] = call[x]
  <2>1. PICK dir \in {"pull", "push"} : \/ PullDone(c) /\ dir = "pull"
                                        \/ PushDone(c) /\ dir = "push"
    OBVIOUS
  <2> QED
    BY <2>1, DirectionDoneCall, Zenon
<1>3. PositionsGiven'
  BY <1>1, <1>2, CallFields DEF LostInv, PositionsGiven, TypeOK
<1>4. \A x \in Calls : call'[x].toPurge # {} => call'[x].pc = "purging"
  BY <1>2 DEF LostInv
<1>5. ASSUME NEW d \in Docs, server[d].access = "none", Present(d)', Reached(d)', d \notin Tracked'
      PROVE  Present(d) /\ Reached(d) /\ d \notin Tracked
  <2>1. Present(d)
    BY <1>1, <1>2, <1>5 DEF Present, Arriving
  <2>2. Reached(d)
    <3>1. 0 < server[d].seq
      BY <1>5, DocFields DEF LostInv
    <3> QED
      BY <1>1, <1>2, <1>5, <3>1, DocFields DEF Reached
  <2>3. d \notin Tracked
    BY <1>1, <1>2, <1>5 DEF Tracked, Purging
  <2> QED
    BY <2>1, <2>2, <2>3
<1> QED
  BY <1>1, <1>3, <1>4, <1>5, LostQuiet DEF serverVars

\* Reports move from one list to the next, or are recorded as missed.
LEMMA LostStartPurge ==
  ASSUME TypeOK, LostInv, NEW c \in Calls, StartPurge(c)
  PROVE  LostInv'
<1>1. /\ server' = server /\ updateSeq' = updateSeq /\ local' = local
      /\ checkpoint' = checkpoint
      /\ missed' = IF LegacyAdapter THEN missed \cup pendingLost ELSE missed
  BY DEF StartPurge, serverVars, deviceVars
<1>2. call[c].toPurge = {}
  BY StartPurgeCall DEF LostInv
<1>3. PositionsGiven'
  BY <1>1, StartPurgeCall, CallFields DEF LostInv, PositionsGiven, TypeOK
<1>4. \A x \in Calls : call'[x].toPurge # {} => call'[x].pc = "purging"
  BY StartPurgeCall DEF LostInv
<1>5. ASSUME NEW d \in Docs, server[d].access = "none", Present(d)', Reached(d)', d \notin Tracked'
      PROVE  Present(d) /\ Reached(d) /\ d \notin Tracked
  <2>1. Present(d)
    BY <1>1, <1>5, StartPurgeCall DEF Present, Arriving
  <2>2. Reached(d)
    BY <1>1, <1>5, StartPurgeCall DEF Reached
  <2>3. d \notin pendingLost /\ d \notin missed
    BY <1>1, <1>5, StartPurgeCall DEF Tracked, Purging
  <2>4. d \notin Purging
    BY <1>2, <1>5, StartPurgeCall DEF Tracked, Purging
  <2> QED
    BY <2>1, <2>2, <2>3, <2>4 DEF Tracked
<1> QED
  BY <1>1, <1>3, <1>4, <1>5, LostQuiet DEF serverVars

\* A purged document is gone, unless it is on its way once more.
LEMMA LostPurgeDoc ==
  ASSUME TypeOK, LostInv, NEW c \in Calls, NEW e \in Docs, PurgeDoc(c, e)
  PROVE  LostInv'
<1>1. /\ server' = server /\ updateSeq' = updateSeq
      /\ checkpoint' = checkpoint /\ pendingLost' = pendingLost
  BY DEF PurgeDoc, serverVars, lostVars
<1>2. /\ missed \subseteq missed'
      /\ \/ local' = [local EXCEPT ![e] = Absent] /\ (e \in Arriving => e \in missed')
         \/ local' = local /\ e \in missed'
  BY DEF PurgeDoc
<1>3. PositionsGiven'
  BY <1>1, PurgeDocCall, CallFields DEF LostInv, PositionsGiven, TypeOK
<1>4. \A x \in Calls : call'[x].toPurge # {} => call'[x].pc = "purging"
  BY PurgeDocCall DEF LostInv
<1>5. Arriving' = Arriving
  BY PurgeDocCall DEF Arriving
<1>6. ASSUME NEW d \in Docs, server[d].access = "none", Present(d)', Reached(d)', d \notin Tracked'
      PROVE  Present(d) /\ Reached(d) /\ d \notin Tracked
  <2>1. d # e
    <3>1. d \notin missed'
      BY <1>6 DEF Tracked
    <3>2. local' = [local EXCEPT ![e] = Absent] => ~local'[e].held
      BY DEF TypeOK, Absent
    <3> QED
      BY <1>2, <1>5, <1>6, <3>1, <3>2 DEF Present
  <2>2. local'[d] = local[d]
    BY <1>2, <2>1 DEF TypeOK
  <2>3. Present(d)
    BY <1>5, <1>6, <2>2 DEF Present
  <2>4. Reached(d)
    BY <1>1, <1>6, PurgeDocCall DEF Reached
  <2>5. d \notin Tracked
    BY <1>1, <1>2, <1>6, <2>1, PurgeDocCall DEF Tracked, Purging
  <2> QED
    BY <2>3, <2>4, <2>5
<1> QED
  BY <1>1, <1>3, <1>4, <1>6, LostQuiet DEF serverVars

\* A change on the server lies beyond every position; an edit makes a document held
\* that was held before, or that the server does not have.
LEMMA LostUser ==
  ASSUME TypeOK, LostInv, User
  PROVE  LostInv'
<1>1. ASSUME NEW e \in Docs, ServerChange(e) PROVE LostInv'
  <2>1. /\ call' = call /\ local' = local /\ checkpoint' = checkpoint
        /\ pendingLost' = pendingLost /\ missed' = missed /\ updateSeq' = updateSeq + 1
    BY <1>1 DEF ServerChange, deviceVars, lostVars
  <2>2. /\ \A x \in Docs \ {e} : server'[x] = server[x]
        /\ server'[e].seq = updateSeq + 1
    <3>1. PICK a \in AccessAfter(server[e].access) :
            server' = [server EXCEPT ![e] = [seq |-> updateSeq + 1, access |-> a]]
      BY <1>1 DEF ServerChange
    <3> QED
      BY <3>1 DEF TypeOK
  <2>3. PositionsGiven'
    BY <2>1, CallFields DEF LostInv, PositionsGiven, TypeOK
  <2>4. ~Reached(e)'
    BY <2>1, <2>2, CallFields DEF LostInv, PositionsGiven, Reached, TypeOK
  <2>5. LostIsTracked'
    <3> SUFFICES ASSUME NEW d \in Docs, server'[d].access = "none", Present(d)', Reached(d)'
                 PROVE  d \in Tracked'
      BY DEF LostIsTracked
    <3>1. server'[d] = server[d]
      BY <2>2, <2>4
    <3>2. Present(d) /\ Reached(d)
      BY <2>1, <3>1 DEF Present, Arriving, Reached
    <3> QED
      BY <2>1, <3>1, <3>2 DEF LostInv, LostIsTracked, Tracked, Purging
  <2>6. \A d \in Docs : server'[d].seq = 0 => server'[d].access # "none"
    BY <2>2 DEF LostInv, TypeOK
  <2> QED
    BY <2>1, <2>3, <2>5, <2>6 DEF LostInv
<1>2. ASSUME NEW e \in Docs, LocalEdit(e) PROVE LostInv'
  <2>1. /\ server' = server /\ updateSeq' = updateSeq /\ checkpoint' = checkpoint
        /\ pendingLost' = pendingLost /\ missed' = missed
    BY <1>2 DEF LocalEdit, serverVars, lostVars
  <2>2. ASSUME NEW x \in Calls
        PROVE  /\ call'[x].since = call[x].since /\ call'[x].upto = call[x].upto
               /\ call'[x].got = call[x].got /\ call'[x].toPurge = call[x].toPurge
               /\ call'[x].pc = call[x].pc
    BY <1>2, CallFields DEF LocalEdit, CallState
  <2>3. /\ \A d \in Docs \ {e} : local'[d] = local[d]
        /\ local[e].held \/ server[e].seq = 0
    BY <1>2 DEF LocalEdit, TypeOK
  <2>4. PositionsGiven'
    BY <2>1, <2>2 DEF LostInv, PositionsGiven
  <2>5. \A x \in Calls : call'[x].toPurge # {} => call'[x].pc = "purging"
    BY <2>2 DEF LostInv
  <2>6. ASSUME NEW d \in Docs, server[d].access = "none", Present(d)', Reached(d)', d \notin Tracked'
        PROVE  Present(d) /\ Reached(d) /\ d \notin Tracked
    <3>1. Present(d)
      BY <2>2, <2>3, <2>6 DEF LostInv, Present, Arriving
    <3>2. Reached(d) /\ d \notin Tracked
      BY <2>1, <2>2, <2>6 DEF Reached, Tracked, Purging
    <3> QED
      BY <3>1, <3>2
  <2> QED
    BY <2>1, <2>4, <2>5, <2>6, LostQuiet DEF serverVars
<1> QED
  BY <1>1, <1>2 DEF User

\* A login or a page load that drops reports records them; a destroyed database holds
\* nothing, except what a sync under way still brings.
LEMMA LostSession ==
  ASSUME TypeOK, LostInv, Session
  PROVE  LostInv'
<1>1. CASE LogIn
  <2>1. /\ server' = server /\ updateSeq' = updateSeq /\ local' = local
        /\ checkpoint' = checkpoint /\ missed' = missed \cup pendingLost
    BY <1>1 DEF LogIn, serverVars, deviceVars
  <2>2. ASSUME NEW x \in Calls
        PROVE  /\ call'[x].since = call[x].since /\ call'[x].upto = call[x].upto
               /\ call'[x].got = call[x].got /\ call'[x].toPurge = call[x].toPurge
               /\ call[x].pc = "purging" => call'[x].pc = "purging"
    BY <1>1, CallFields DEF LogIn, CallState
  <2>3. PositionsGiven'
    BY <2>1, <2>2 DEF LostInv, PositionsGiven
  <2>4. \A x \in Calls : call'[x].toPurge # {} => call'[x].pc = "purging"
    BY <2>2 DEF LostInv
  <2>5. ASSUME NEW d \in Docs, server[d].access = "none", Present(d)', Reached(d)', d \notin Tracked'
        PROVE  Present(d) /\ Reached(d) /\ d \notin Tracked
    <3>1. Present(d) /\ Reached(d)
      BY <2>1, <2>2, <2>5 DEF Present, Arriving, Reached
    <3>2. d \notin Tracked
      BY <2>1, <2>2, <2>5 DEF Tracked, Purging
    <3> QED
      BY <3>1, <3>2
  <2> QED
    BY <2>1, <2>3, <2>4, <2>5, LostQuiet DEF serverVars
<1>2. CASE LogOut \/ BeginDestroy
  <2>1. /\ server' = server /\ updateSeq' = updateSeq /\ local' = local /\ call' = call
        /\ checkpoint' = checkpoint /\ missed' = missed /\ pendingLost' = pendingLost
    BY <1>2 DEF LogOut, BeginDestroy, serverVars, deviceVars, lostVars
  <2> QED
    BY <2>1 DEF LostInv, PositionsGiven, LostIsTracked, Present, Arriving, Reached, Tracked, Purging
<1>3. CASE EndDestroy
  <2>1. /\ server' = server /\ updateSeq' = updateSeq /\ call' = call
        /\ checkpoint' = 0 /\ missed' = missed /\ pendingLost' = pendingLost
        /\ \A d \in Docs : ~local'[d].held
    BY <1>3 DEF EndDestroy, serverVars, lostVars, Absent
  <2>2. PositionsGiven'
    BY <2>1 DEF LostInv, PositionsGiven, TypeOK
  <2>3. ASSUME NEW d \in Docs, server[d].access = "none", Present(d)', Reached(d)', d \notin Tracked'
        PROVE  Present(d) /\ Reached(d) /\ d \notin Tracked
    <3>1. 0 < server[d].seq
      BY <2>3, DocFields DEF LostInv
    <3>2. Present(d) /\ Reached(d)
      BY <2>1, <2>3, <3>1, DocFields DEF Present, Arriving, Reached
    <3>3. d \notin Tracked
      BY <2>1, <2>3 DEF Tracked, Purging
    <3> QED
      BY <3>2, <3>3
  <2> QED
    BY <2>1, <2>2, <2>3, LostQuiet DEF LostInv, serverVars
<1>4. CASE PageLoad
  <2>1. /\ server' = server /\ updateSeq' = updateSeq /\ local' = local
        /\ checkpoint' = checkpoint
        /\ missed' = missed \cup pendingLost \cup UNION {call[x].toPurge : x \in Calls}
        /\ \A x \in Calls : call'[x] = IdleCall
    BY <1>4 DEF PageLoad, serverVars, deviceVars
  <2>2. PositionsGiven'
    BY <2>1 DEF LostInv, PositionsGiven, IdleCall, TypeOK
  <2>3. \A x \in Calls : call'[x].toPurge # {} => call'[x].pc = "purging"
    BY <2>1 DEF IdleCall
  <2>4. ASSUME NEW d \in Docs, server[d].access = "none", Present(d)', Reached(d)', d \notin Tracked'
        PROVE  Present(d) /\ Reached(d) /\ d \notin Tracked
    <3>1. 0 < server[d].seq
      BY <2>4, DocFields DEF LostInv
    <3>2. Present(d) /\ Reached(d)
      BY <2>1, <2>4, <3>1, DocFields DEF Present, Arriving, Reached, IdleCall, NoBatch
    <3>3. d \notin Tracked
      BY <2>1, <2>4 DEF Tracked, Purging
    <3> QED
      BY <3>2, <3>3
  <2> QED
    BY <2>1, <2>2, <2>3, <2>4, LostQuiet DEF serverVars
<1> QED
  BY <1>1, <1>2, <1>3, <1>4 DEF Session

\* A pushed document, which the user may write, lies beyond every position.
LEMMA LostPushDoc ==
  ASSUME TypeOK, LostInv, NEW c \in Calls, NEW e \in Docs, PushDoc(c, e)
  PROVE  LostInv'
<1>1. /\ call' = call /\ checkpoint' = checkpoint
      /\ pendingLost' = pendingLost /\ missed' = missed
  BY DEF PushDoc, lostVars
<1>2. \A d \in Docs : local'[d].held = local[d].held
  <2> DEFINE seen == IF local[e].seen = server[e].seq THEN updateSeq + 1 ELSE local[e].seen
  <2>1. \/ local' = [local EXCEPT ![e] = [local[e] EXCEPT !.unsent = "no", !.seen = seen]]
        \/ local' = [local EXCEPT ![e] = [local[e] EXCEPT !.unsent = "refused"]]
    BY DEF PushDoc
  <2> HIDE DEF seen
  <2>2. /\ [local[e] EXCEPT !.unsent = "no", !.seen = seen].held = local[e].held
        /\ [local[e] EXCEPT !.unsent = "refused"].held = local[e].held
    BY DocFields DEF DocState
  <2> QED
    BY <2>1, <2>2 DEF TypeOK
<1>3. /\ \A d \in Docs : server'[d].access = server[d].access
      /\ \A d \in Docs : server'[d].access = "none" => server'[d] = server[d]
      /\ updateSeq' \in Nat /\ updateSeq <= updateSeq'
  BY DEF PushDoc, TypeOK, serverVars
<1>4. PositionsGiven'
  BY <1>1, <1>3, CallFields DEF LostInv, PositionsGiven, TypeOK
<1>5. LostIsTracked'
  <2> SUFFICES ASSUME NEW d \in Docs, server'[d].access = "none", Present(d)', Reached(d)'
               PROVE  d \in Tracked'
    BY DEF LostIsTracked
  <2>1. server'[d] = server[d]
    BY <1>3
  <2>2. Present(d) /\ Reached(d)
    BY <1>1, <1>2, <2>1 DEF Present, Arriving, Reached
  <2> QED
    BY <1>1, <2>1, <2>2 DEF LostInv, LostIsTracked, Tracked, Purging
<1>6. \A d \in Docs : server'[d].seq = 0 => server'[d].access # "none"
  BY <1>3 DEF LostInv
<1> QED
  BY <1>1, <1>4, <1>5, <1>6 DEF LostInv

\* Every step keeps lost access tracked.
LEMMA LostNext == TypeOK /\ LostInv /\ [Next]_vars => LostInv'
<1> SUFFICES ASSUME TypeOK, LostInv, [Next]_vars PROVE LostInv'
  OBVIOUS
<1>1. ASSUME NEW c \in Calls, Request(c) PROVE LostInv'
  BY <1>1, LostRequest DEF Request, LiveSync, EnsureSynced, ResetSync
<1>2. ASSUME NEW c \in Calls, NEW s, Settles(c, s), call[c].toPurge = {} PROVE LostInv'
  BY <1>2, LostSettles DEF Settles
<1>3. ASSUME NEW c \in Calls, CallStep(c) PROVE LostInv'
  <2>1. CASE FirstSyncCompletes(c) \/ SyncCompletes(c)
    <3>1. call[c].toPurge = {} /\ Settles(c, "COMPLETED")
      BY <2>1 DEF FirstSyncCompletes, SyncCompletes, LostInv
    <3> QED
      BY <1>2, <3>1
  <2> QED
    BY <1>3, <2>1, LostStartReplication, LostFetchBatch, LostStoreBatch, LostDirectionDone,
       LostPushDoc, LostStartPurge, LostPurgeDoc DEF CallStep
<1>4. ASSUME NEW c \in Calls, Fault(c) PROVE LostInv'
  <2>1. CASE InfoFails(c)
    <3>1. call[c].toPurge = {}
      BY <2>1 DEF InfoFails, LostInv
    <3> QED
      BY <2>1, <3>1, LostSettles DEF InfoFails, lostVars
  <2>2. CASE SyncFails(c) \/ SyncStalls(c) \/ NotificationsNotFound(c)
    <3>1. call[c].toPurge = {}
      BY <2>2 DEF SyncFails, SyncStalls, NotificationsNotFound, Replicating, LostInv
    <3>2. \E s : Settles(c, s)
      BY <2>2 DEF SyncFails, SyncStalls, NotificationsNotFound
    <3> QED
      BY <1>2, <3>1, <3>2
  <2> QED
    BY <1>4, <2>1, <2>2 DEF Fault
<1>5. CASE User
  BY <1>5, LostUser
<1>6. CASE Session
  BY <1>6, LostSession
<1>7. CASE GoOffline \/ GoOnline \/ UNCHANGED vars
  <2>1. /\ server' = server /\ updateSeq' = updateSeq /\ local' = local /\ call' = call
        /\ checkpoint' = checkpoint /\ missed' = missed /\ pendingLost' = pendingLost
    BY <1>7 DEF GoOffline, GoOnline, vars, serverVars, deviceVars, lostVars
  <2> QED
    BY <2>1 DEF LostInv, PositionsGiven, LostIsTracked, Present, Arriving, Reached, Tracked, Purging
<1> QED
  BY <1>1, <1>3, <1>4, <1>5, <1>6, <1>7 DEF Next

\* Everybody has access at first.
LEMMA LostInit == Init => LostInv
<1> SUFFICES ASSUME Init PROVE LostInv
  OBVIOUS
<1>1. PICK i \in InitialServers :
          /\ server = [d \in Docs |-> [seq |-> i.seq[d], access |-> "write"]]
          /\ updateSeq = i.last
  BY DEF Init
<1>2. \A c \in Calls : call[c].since = 0 /\ call[c].upto = 0 /\ call[c].toPurge = {}
  BY DEF Init, IdleCall
<1> QED
  BY <1>1, <1>2, InitialServersAssumption DEF Init, LostInv, PositionsGiven, LostIsTracked

\* A document the user lost access to is never left on the device unnoticed behind the
\* checkpoint, whatever syncs overlap, fail or stall, and also if access is regained.
THEOREM LostAccessCorrect == Spec => []LostAccessIsTracked
<1>1. LostInv => LostAccessIsTracked
  BY DEF LostInv, LostIsTracked, LostAccessIsTracked, Present, Reached, Tracked
<1> QED
  BY <1>1, LostInit, LostNext, TypeCorrect, PTL DEF Spec

-----------------------------------------------------------------------------
(***************************************************************************)
(* SyncCoversRequest.  A direction that is done has transferred what the   *)
(* call owes, and nothing takes that away again before the call settles.   *)
(***************************************************************************)
Active == {"replicating", "purging"}

Latest(d) == local[d].held /\ local[d].seen = server[d].seq

\* What a call owes and has transferred.
CoveredCall(c) ==
    call[c].pc \in Active =>
        /\ call[c].owedSeq <= updateSeq
        /\ call[c].pc = "purging" => call[c].dirs = {}
        /\ "pull" \notin call[c].dirs /\ db # "destroyed" =>
              \A d \in Docs :
                 server[d].access # "none" /\ 0 < server[d].seq
                    /\ server[d].seq <= call[c].owedSeq => Latest(d)
        /\ "push" \notin call[c].dirs => \A d \in call[c].owedDocs : local[d].unsent # "yes"

Covered == \A c \in Calls : CoveredCall(c)

\* The document stays in its latest version on the device, loses its readers, or
\* changes on the server beyond what any call owes.
DocKept(d) ==
    \/ server'[d].seq > updateSeq
    \/ db' = "destroyed"
    \/ /\ server'[d].seq = server[d].seq
       /\ server'[d].access # "none" => server[d].access # "none" /\ (Latest(d) => Latest(d)')

\* The call does not go on, or with the same debts.
CallKept(c) ==
    call'[c].pc \in Active =>
        /\ call[c].pc \in Active
        /\ call'[c].pc = "purging" => call[c].dirs = {}
        /\ db = "destroyed" => db' = "destroyed"
        /\ call'[c].dirs = call[c].dirs /\ call'[c].owedSeq = call[c].owedSeq
        /\ \A d \in call'[c].owedDocs :
              d \in call[c].owedDocs /\ (local'[d].unsent = "yes" => local[d].unsent = "yes")

\* Sequence numbers only grow.
LEMMA SeqGrows == TypeOK /\ [Next]_vars => updateSeq <= updateSeq'
<1> SUFFICES ASSUME TypeOK, [Next]_vars PROVE updateSeq <= updateSeq'
  OBVIOUS
<1>1. updateSeq' = updateSeq \/ updateSeq' = updateSeq + 1
  <2>1. ASSUME NEW c \in Calls, Request(c) PROVE updateSeq' = updateSeq
    BY <2>1 DEF Request, LiveSync, EnsureSynced, ResetSync, Sync, serverVars
  <2>2. ASSUME NEW c \in Calls, CallStep(c) PROVE updateSeq' = updateSeq \/ updateSeq' = updateSeq + 1
    BY <2>2 DEF CallStep, StartReplication, FetchBatch, StoreBatch, PullDone, PushDoc,
                PushDone, FirstSyncCompletes, StartPurge, PurgeDoc, SyncCompletes, Settles,
                CallOnly, serverVars
  <2>3. ASSUME NEW c \in Calls, Fault(c) PROVE updateSeq' = updateSeq
    BY <2>3 DEF Fault, InfoFails, SyncFails, SyncStalls, NotificationsNotFound, Settles, serverVars
  <2>4. CASE User
    BY <2>4 DEF User, ServerChange, LocalEdit, serverVars
  <2>5. CASE Session \/ GoOffline \/ GoOnline \/ UNCHANGED vars
    BY <2>5 DEF Session, LogIn, LogOut, BeginDestroy, EndDestroy, PageLoad, GoOffline,
                GoOnline, vars, serverVars
  <2> QED
    BY <2>1, <2>2, <2>3, <2>4, <2>5 DEF Next
<1> QED
  BY <1>1 DEF TypeOK

\* A call keeps its coverage while it and the documents are kept.
LEMMA CoveredKept ==
  ASSUME TypeOK, TypeOK', updateSeq <= updateSeq',
         NEW c \in Calls, CoveredCall(c), CallKept(c), \A d \in Docs : DocKept(d)
  PROVE  CoveredCall(c)'
<1> SUFFICES ASSUME call'[c].pc \in Active
             PROVE  /\ call'[c].owedSeq <= updateSeq'
                    /\ call'[c].pc = "purging" => call'[c].dirs = {}
                    /\ "pull" \notin call'[c].dirs /\ db' # "destroyed" =>
                          \A d \in Docs :
                             server'[d].access # "none" /\ 0 < server'[d].seq
                                /\ server'[d].seq <= call'[c].owedSeq => Latest(d)'
                    /\ "push" \notin call'[c].dirs =>
                          \A d \in call'[c].owedDocs : local'[d].unsent # "yes"
  BY DEF CoveredCall
<1>1. /\ call[c].pc \in Active /\ call'[c].dirs = call[c].dirs
      /\ call'[c].owedSeq = call[c].owedSeq /\ call[c].owedSeq \in Nat
      /\ call[c].owedSeq <= updateSeq /\ updateSeq \in Nat
      /\ call'[c].pc = "purging" => call[c].dirs = {}
      /\ db = "destroyed" => db' = "destroyed"
  BY CallFields DEF CallKept, CoveredCall, CallState, TypeOK
<1>2. call'[c].owedSeq <= updateSeq'
  BY <1>1 DEF TypeOK
<1>3. ASSUME "pull" \notin call'[c].dirs, db' # "destroyed", NEW d \in Docs,
             server'[d].access # "none", 0 < server'[d].seq, server'[d].seq <= call'[c].owedSeq
      PROVE  Latest(d)'
  <2>1. ~(server'[d].seq > updateSeq)
    BY <1>1, <1>3 DEF TypeOK
  <2>2. /\ server'[d].seq = server[d].seq /\ server[d].access # "none"
        /\ Latest(d) => Latest(d)'
    BY <1>3, <2>1 DEF DocKept
  <2> QED
    BY <1>1, <1>3, <2>2 DEF CoveredCall
<1>4. ASSUME "push" \notin call'[c].dirs, NEW d \in call'[c].owedDocs
      PROVE  local'[d].unsent # "yes"
  BY <1>1, <1>4 DEF CallKept, CoveredCall
<1> QED
  BY <1>1, <1>2, <1>3, <1>4

\* A sync that starts has everything before it.
LEMMA CoveredStart ==
  ASSUME TypeOK, NEW c \in Calls, StartReplication(c)
  PROVE  CoveredCall(c)'
<1>1. /\ call'[c].pc = "replicating" /\ call'[c].dirs = {"pull", "push"}
      /\ call'[c].owedSeq = updateSeq
  BY StartReplicationCall, Zenon
<1>2. updateSeq' = updateSeq /\ updateSeq \in Nat
  BY DEF StartReplication, serverVars, TypeOK
<1> QED
  BY <1>1, <1>2 DEF CoveredCall

\* A pull that is done has brought every change, a push has sent every edit.
LEMMA CoveredDirectionDone ==
  ASSUME TypeOK, PullsAreComplete, NEW c \in Calls, CoveredCall(c), PullDone(c) \/ PushDone(c)
  PROVE  CoveredCall(c)'
<1>1. PICK dir \in {"pull", "push"} : \/ PullDone(c) /\ dir = "pull"
                                      \/ PushDone(c) /\ dir = "push"
  OBVIOUS
<1>2. /\ call'[c].dirs = call[c].dirs \ {dir} /\ call'[c].pc = call[c].pc
      /\ call'[c].owedSeq = call[c].owedSeq /\ call'[c].owedDocs = call[c].owedDocs
  BY <1>1, DirectionDoneCall, Zenon
<1>3. server' = server /\ updateSeq' = updateSeq /\ local' = local /\ db' = db
  BY DEF PullDone, PushDone, CallOnly, serverVars, deviceVars, pageVars
<1>4. call[c].pc = "replicating"
  BY DEF PullDone, PushDone, Replicating
<1>5. ASSUME dir = "pull", NEW d \in Docs, server[d].access # "none", 0 < server[d].seq
      PROVE  Latest(d)
  <2>1. Replicating(c, "pull") /\ call[c].since >= updateSeq
    BY <1>1, <1>5 DEF PullDone
  <2>2. server[d].seq <= call[c].since
    BY <2>1, CallFields, DocFields DEF PullsAreComplete, SeqBounds, TypeOK
  <2> QED
    BY <1>5, <2>1, <2>2 DEF PullsAreComplete, SinceSound, Latest
<1>6. ASSUME dir = "push", NEW d \in Docs PROVE local[d].unsent # "yes"
  BY <1>1, <1>6 DEF PushDone, ToPush
<1>7. call[c].owedDocs \subseteq Docs
  BY CallFields
<1> QED
  BY <1>2, <1>3, <1>4, <1>5, <1>6, <1>7 DEF CoveredCall, Active, Latest

\* Steps of a pending call keep the calls covered.
LEMMA CoveredCallStep ==
  ASSUME TypeOK, PullsAreComplete, Covered, NEW c \in Calls, CallStep(c),
         TypeOK', updateSeq <= updateSeq'
  PROVE  Covered'
<1>1. db' = db
  BY DEF CallStep, StartReplication, FetchBatch, StoreBatch, PullDone, PushDoc,
         PushDone, FirstSyncCompletes, StartPurge, PurgeDoc, SyncCompletes, Settles,
         CallOnly, pageVars
<1>2. ASSUME UNCHANGED <<serverVars, deviceVars>>,
             \A x \in Calls \ {c} : call'[x] = call[x], CallKept(c) \/ CoveredCall(c)'
      PROVE  Covered'
  <2>1. \A d \in Docs : DocKept(d)
    BY <1>2 DEF DocKept, Latest, serverVars, deviceVars
  <2>2. \A x \in Calls \ {c} : CallKept(x)
    BY <1>1, <1>2 DEF CallKept, Covered, CoveredCall, deviceVars
  <2> QED
    BY <1>2, <2>1, <2>2, CoveredKept DEF Covered
<1>3. CASE StartReplication(c)
  BY <1>2, <1>3, CoveredStart, StartReplicationCall DEF StartReplication
<1>4. CASE FetchBatch(c)
  <2>1. /\ call'[c].pc = call[c].pc /\ call'[c].dirs = call[c].dirs
        /\ call'[c].owedSeq = call[c].owedSeq /\ call'[c].owedDocs = call[c].owedDocs
        /\ \A x \in Calls \ {c} : call'[x] = call[x]
    BY <1>4, FetchBatchCall
  <2>2. UNCHANGED <<serverVars, deviceVars>>
    BY <1>4 DEF FetchBatch
  <2>3. CallKept(c)
    BY <1>1, <2>1, <2>2 DEF CallKept, Covered, CoveredCall, deviceVars
  <2> QED
    BY <1>2, <2>1, <2>2, <2>3
<1>5. CASE StoreBatch(c)
  <2>1. server' = server /\ updateSeq' = updateSeq
    BY <1>5 DEF StoreBatch, serverVars
  <2>2. ASSUME NEW d \in Docs
        PROVE  (Latest(d) => Latest(d)') /\ local'[d].unsent = local[d].unsent
    <3>1. CASE call[c].got[d] > 0
      <4> DEFINE seen == IF local[d].seen < call[c].got[d] THEN call[c].got[d]
                                                           ELSE local[d].seen
      <4>1. local'[d] = [local[d] EXCEPT !.held = TRUE, !.seen = seen]
        BY <1>5, <3>1 DEF StoreBatch
      <4>2. local'[d].held = TRUE /\ local'[d].seen = seen /\ local'[d].unsent = local[d].unsent
        <5> HIDE DEF seen
        <5> QED
          BY <4>1, DocFields DEF DocState
      <4>3. call[c].got[d] <= server[d].seq /\ call[c].got[d] \in Nat
        BY CallFields DEF PullsAreComplete, SeqBounds
      <4>4. local[d].seen = server[d].seq => seen = server[d].seq
        BY <4>3, DocFields
      <4> QED
        BY <2>1, <4>2, <4>4 DEF Latest
    <3>2. CASE ~(call[c].got[d] > 0)
      <4>1. local'[d] = local[d]
        BY <1>5, <3>2 DEF StoreBatch
      <4> QED
        BY <2>1, <4>1 DEF Latest
    <3> QED
      BY <3>1, <3>2
  <2>3. \A d \in Docs : DocKept(d)
    BY <2>1, <2>2 DEF DocKept
  <2>4. ASSUME NEW x \in Calls PROVE CallKept(x)
    <3>1. /\ call'[x].pc = call[x].pc /\ call'[x].dirs = call[x].dirs
          /\ call'[x].owedSeq = call[x].owedSeq /\ call'[x].owedDocs = call[x].owedDocs
      BY <1>5, StoreBatchCall
    <3>2. call[x].owedDocs \subseteq Docs
      BY CallFields
    <3> QED
      BY <1>1, <2>2, <3>1, <3>2 DEF CallKept, Covered, CoveredCall
  <2> QED
    BY <2>3, <2>4, CoveredKept DEF Covered
<1>6. CASE PullDone(c) \/ PushDone(c)
  <2>1. PICK dir \in {"pull", "push"} : \/ PullDone(c) /\ dir = "pull"
                                        \/ PushDone(c) /\ dir = "push"
    BY <1>6
  <2>2. \A x \in Calls \ {c} : call'[x] = call[x]
    BY <2>1, DirectionDoneCall, Zenon
  <2>3. UNCHANGED <<serverVars, deviceVars>>
    BY <1>6 DEF PullDone, PushDone, CallOnly
  <2> QED
    BY <1>2, <1>6, <2>2, <2>3, CoveredDirectionDone DEF Covered
<1>7. ASSUME NEW e \in Docs, PushDoc(c, e) PROVE Covered'
  <2>1. call' = call
    BY <1>7 DEF PushDoc
  <2>2. CASE server[e].access = "write"
    <3> DEFINE seen == IF local[e].seen = server[e].seq THEN updateSeq + 1 ELSE local[e].seen
    <3>1. /\ server' = [server EXCEPT ![e].seq = updateSeq + 1]
          /\ local' = [local EXCEPT ![e] = [local[e] EXCEPT !.unsent = "no", !.seen = seen]]
      BY <1>7, <2>2 DEF PushDoc
    <3> HIDE DEF seen
    <3>2. /\ server'[e].seq = updateSeq + 1
          /\ \A d \in Docs \ {e} : server'[d] = server[d] /\ local'[d] = local[d]
          /\ local'[e].unsent = "no"
      BY <3>1, DocFields DEF TypeOK, DocState
    <3>3. \A d \in Docs : DocKept(d)
      BY <3>2 DEF DocKept, Latest, TypeOK
    <3>4. \A x \in Calls : CallKept(x)
      BY <1>1, <2>1, <3>2, CallFields DEF CallKept, Covered, CoveredCall
    <3> QED
      BY <3>3, <3>4, CoveredKept DEF Covered
  <2>3. CASE server[e].access # "write"
    <3>1. /\ server' = server
          /\ local' = [local EXCEPT ![e] = [local[e] EXCEPT !.unsent = "refused"]]
      BY <1>7, <2>3 DEF PushDoc, serverVars
    <3>2. [local[e] EXCEPT !.unsent = "refused"].unsent = "refused"
          /\ [local[e] EXCEPT !.unsent = "refused"].held = local[e].held
          /\ [local[e] EXCEPT !.unsent = "refused"].seen = local[e].seen
      BY DocFields DEF DocState
    <3>3. /\ \A d \in Docs : local'[d].held = local[d].held /\ local'[d].seen = local[d].seen
          /\ \A d \in Docs \ {e} : local'[d] = local[d]
          /\ local'[e].unsent = "refused"
      BY <3>1, <3>2 DEF TypeOK
    <3>4. \A d \in Docs : DocKept(d)
      BY <3>1, <3>3 DEF DocKept, Latest
    <3>5. \A x \in Calls : CallKept(x)
      BY <1>1, <2>1, <3>3, CallFields DEF CallKept, Covered, CoveredCall
    <3> QED
      BY <3>4, <3>5, CoveredKept DEF Covered
  <2> QED
    BY <2>2, <2>3
<1>8. CASE FirstSyncCompletes(c) \/ SyncCompletes(c)
  <2>1. /\ call'[c].pc = "idle" /\ \A x \in Calls \ {c} : call'[x] = call[x]
        /\ UNCHANGED <<serverVars, deviceVars>>
    BY <1>8 DEF FirstSyncCompletes, SyncCompletes, Settles, TypeOK, IdleCall
  <2> QED
    BY <1>2, <2>1 DEF CallKept, Active
<1>9. CASE StartPurge(c)
  <2>1. /\ call[c].pc = "replicating" /\ call[c].dirs = {} /\ call'[c].dirs = {}
        /\ call'[c].owedSeq = call[c].owedSeq /\ call'[c].owedDocs = call[c].owedDocs
        /\ \A x \in Calls \ {c} : call'[x] = call[x]
    BY <1>9, StartPurgeCall, Zenon
  <2>2. UNCHANGED <<serverVars, deviceVars>>
    BY <1>9 DEF StartPurge
  <2>3. CallKept(c)
    BY <1>1, <2>1, <2>2 DEF CallKept, Active, deviceVars
  <2> QED
    BY <1>2, <2>1, <2>2, <2>3
<1>10. ASSUME NEW e \in Docs, PurgeDoc(c, e) PROVE Covered'
  <2>1. server[e].access = "none"
    BY <1>10 DEF PullsAreComplete, OnlyLostArePurged, Purging, PurgeDoc
  <2>2. server' = server
    BY <1>10 DEF PurgeDoc, serverVars
  <2>3. \A d \in Docs : local'[d] = local[d] \/ (d = e /\ local'[d] = Absent)
    <3>1. local' = [local EXCEPT ![e] = Absent] \/ local' = local
      BY <1>10 DEF PurgeDoc
    <3> QED
      BY <3>1 DEF TypeOK
  <2>4. \A d \in Docs : DocKept(d)
    BY <2>1, <2>2, <2>3 DEF DocKept, Latest
  <2>5. ASSUME NEW x \in Calls PROVE CallKept(x)
    <3>1. /\ call'[x].pc = call[x].pc /\ call'[x].dirs = call[x].dirs
          /\ call'[x].owedSeq = call[x].owedSeq /\ call'[x].owedDocs = call[x].owedDocs
      BY <1>10, PurgeDocCall
    <3>2. call[x].owedDocs \subseteq Docs
      BY CallFields
    <3>3. \A d \in Docs : local'[d].unsent = "yes" => local[d].unsent = "yes"
      BY <2>3 DEF Absent
    <3> QED
      BY <1>1, <3>1, <3>2, <3>3 DEF CallKept, Covered, CoveredCall
  <2> QED
    BY <2>4, <2>5, CoveredKept DEF Covered
<1> QED
  BY <1>3, <1>4, <1>5, <1>6, <1>7, <1>8, <1>9, <1>10 DEF CallStep

\* Every step keeps the calls covered.
LEMMA CoveredNext == TypeOK /\ PullsAreComplete /\ Covered /\ [Next]_vars => Covered'
<1> SUFFICES ASSUME TypeOK, PullsAreComplete, Covered, [Next]_vars PROVE Covered'
  OBVIOUS
<1>1. TypeOK' /\ updateSeq <= updateSeq'
  BY SeqGrows, TypeNext
<1>2. ASSUME \A d \in Docs : DocKept(d), \A c \in Calls : CallKept(c) PROVE Covered'
  BY <1>1, <1>2, CoveredKept DEF Covered
<1>3. ASSUME UNCHANGED <<serverVars, deviceVars>> PROVE \A d \in Docs : DocKept(d)
  BY <1>3 DEF DocKept, Latest, serverVars, deviceVars
<1>4. ASSUME NEW c \in Calls, Request(c) PROVE Covered'
  <2>1. PICK full \in BOOLEAN : Sync(c, full)
    BY <1>4 DEF Request, LiveSync, EnsureSynced, ResetSync
  <2>2. UNCHANGED <<serverVars, deviceVars>> /\ db' = db
    BY <2>1 DEF Sync, pageVars
  <2>3. /\ \A x \in Calls \ {c} : call'[x] = call[x]
        /\ call'[c].pc \notin Active
    BY <2>1 DEF Sync, TypeOK, IdleCall, Active
  <2>4. \A x \in Calls : CallKept(x)
    BY <2>2, <2>3 DEF CallKept, Covered, CoveredCall, deviceVars
  <2> QED
    BY <1>2, <1>3, <2>2, <2>4
<1>5. ASSUME NEW c \in Calls, CallStep(c) PROVE Covered'
  BY <1>1, <1>5, CoveredCallStep
<1>6. ASSUME NEW c \in Calls, Fault(c) PROVE Covered'
  <2>1. /\ UNCHANGED <<serverVars, deviceVars>> /\ db' = db
        /\ call' = [call EXCEPT ![c] = IdleCall]
    BY <1>6 DEF Fault, InfoFails, SyncFails, SyncStalls, NotificationsNotFound, Settles, pageVars
  <2>2. /\ \A x \in Calls \ {c} : call'[x] = call[x]
        /\ call'[c].pc \notin Active
    BY <2>1 DEF TypeOK, IdleCall, Active
  <2>3. \A x \in Calls : CallKept(x)
    BY <2>1, <2>2 DEF CallKept, Covered, CoveredCall, deviceVars
  <2> QED
    BY <1>2, <1>3, <2>1, <2>3
<1>7. ASSUME NEW e \in Docs, ServerChange(e) PROVE Covered'
  <2>1. call' = call /\ local' = local /\ db' = db
    BY <1>7 DEF ServerChange, deviceVars, pageVars
  <2>2. /\ \A d \in Docs \ {e} : server'[d] = server[d]
        /\ server'[e].seq = updateSeq + 1
    <3>1. PICK a \in AccessAfter(server[e].access) :
            server' = [server EXCEPT ![e] = [seq |-> updateSeq + 1, access |-> a]]
      BY <1>7 DEF ServerChange
    <3> QED
      BY <3>1 DEF TypeOK
  <2>3. \A d \in Docs : DocKept(d)
    BY <2>1, <2>2 DEF DocKept, Latest, TypeOK
  <2>4. \A x \in Calls : CallKept(x)
    BY <2>1 DEF CallKept, Covered, CoveredCall
  <2> QED
    BY <1>2, <2>3, <2>4
<1>8. ASSUME NEW e \in Docs, LocalEdit(e) PROVE Covered'
  <2>1. server' = server /\ db' = db
    BY <1>8 DEF LocalEdit, serverVars, pageVars
  <2>2. /\ \A d \in Docs \ {e} : local'[d] = local[d]
        /\ local'[e].held /\ local'[e].seen = local[e].seen
    BY <1>8, DocFields DEF LocalEdit, TypeOK, DocState
  <2>3. \A d \in Docs : DocKept(d)
    BY <2>1, <2>2 DEF DocKept, Latest
  <2>4. ASSUME NEW x \in Calls PROVE CallKept(x)
    <3> DEFINE O == call[x].owedDocs \ {e}
    <3>1. call'[x] = [call[x] EXCEPT !.owedDocs = O]
      BY <1>8 DEF LocalEdit
    <3> HIDE DEF O
    <3>2. /\ call'[x].pc = call[x].pc /\ call'[x].dirs = call[x].dirs
          /\ call'[x].owedSeq = call[x].owedSeq /\ call'[x].owedDocs = O
      BY <3>1, CallFields DEF CallState
    <3>3. \A d \in O : d \in call[x].owedDocs /\ local'[d] = local[d]
      BY <2>2, CallFields DEF O
    <3> QED
      BY <2>1, <3>2, <3>3 DEF CallKept, Covered, CoveredCall
  <2> QED
    BY <1>2, <2>3, <2>4
<1>9. CASE LogIn
  <2>1. UNCHANGED <<serverVars, deviceVars>> /\ db # "destroyed"
    BY <1>9 DEF LogIn
  <2>2. \A c \in Calls :
           /\ call'[c].pc = call[c].pc \/ call'[c].pc = "info"
           /\ call'[c].dirs = call[c].dirs
           /\ call'[c].owedSeq = call[c].owedSeq /\ call'[c].owedDocs = call[c].owedDocs
    BY <1>9, LogInCall
  <2>3. \A x \in Calls : CallKept(x)
    BY <2>1, <2>2 DEF CallKept, Covered, CoveredCall, Active, deviceVars
  <2> QED
    BY <1>2, <1>3, <2>1, <2>3
<1>10. CASE LogOut \/ BeginDestroy \/ EndDestroy
  <2>1. call' = call /\ (db = "destroyed" => db' = "destroyed")
    BY <1>10 DEF LogOut, BeginDestroy, EndDestroy
  <2>2. \A d \in Docs : DocKept(d)
    BY <1>10 DEF LogOut, BeginDestroy, EndDestroy, DocKept, Latest, serverVars, deviceVars
  <2>3. \A d \in Docs : local'[d].unsent = "yes" => local[d].unsent = "yes"
    BY <1>10 DEF LogOut, BeginDestroy, EndDestroy, deviceVars, Absent
  <2>4. \A x \in Calls : CallKept(x)
    BY <2>1, <2>3, CallFields DEF CallKept, Covered, CoveredCall
  <2> QED
    BY <1>2, <2>2, <2>4
<1>11. CASE PageLoad
  <2>1. \A x \in Calls : call'[x].pc = "idle"
    BY <1>11 DEF PageLoad, IdleCall
  <2> QED
    BY <2>1 DEF Covered, CoveredCall, Active
<1>12. CASE GoOffline \/ GoOnline \/ UNCHANGED vars
  <2>1. UNCHANGED <<serverVars, deviceVars>> /\ db' = db /\ call' = call
    BY <1>12 DEF GoOffline, GoOnline, vars, pageVars
  <2>2. \A x \in Calls : CallKept(x)
    BY <2>1 DEF CallKept, Covered, CoveredCall, deviceVars
  <2> QED
    BY <1>2, <1>3, <2>1, <2>2
<1> QED
  BY <1>4, <1>5, <1>6, <1>7, <1>8, <1>9, <1>10, <1>11, <1>12 DEF Next, User, Session

\* A promise fulfils with a result only at the end of a replication, unless the
\* notifications database is missing.
LEMMA FulfilsAtTheEnd ==
  ASSUME TypeOK, [Next]_vars, NEW c \in Calls, Fulfils(c), ~MayBeMissing
  PROVE  FirstSyncCompletes(c) \/ SyncCompletes(c)
<1>0. call[c].pc # call'[c].pc /\ call[c].pc # "idle" /\ syncState' = "COMPLETED"
      /\ call'[c].pc = "idle"
  BY DEF Fulfils
<1>1. ASSUME NEW x \in Calls, Request(x) PROVE FALSE
  <2>1. PICK full \in BOOLEAN : Sync(x, full)
    BY <1>1 DEF Request, LiveSync, EnsureSynced, ResetSync
  <2>2. call[x].pc = "idle" /\ \A y \in Calls \ {x} : call'[y] = call[y]
    BY <2>1 DEF Sync, TypeOK
  <2> QED
    BY <1>0, <2>2
<1>2. ASSUME NEW x \in Calls, CallStep(x)
      PROVE  FirstSyncCompletes(c) \/ SyncCompletes(c)
  <2>1. CASE FirstSyncCompletes(x) \/ SyncCompletes(x)
    <3>1. \A y \in Calls \ {x} : call'[y] = call[y]
      BY <2>1 DEF FirstSyncCompletes, SyncCompletes, Settles, TypeOK
    <3> QED
      BY <1>0, <2>1, <3>1
  <2>2. CASE StartReplication(x)
    <3>1. call'[x].pc = "replicating" /\ \A y \in Calls \ {x} : call'[y] = call[y]
      BY <2>2, StartReplicationCall, Zenon
    <3> QED
      BY <1>0, <3>1
  <2>3. CASE StartPurge(x)
    <3>1. call'[x].pc = "purging" /\ \A y \in Calls \ {x} : call'[y] = call[y]
      BY <2>3, StartPurgeCall, Zenon
    <3> QED
      BY <1>0, <3>1
  <2>4. CASE \/ FetchBatch(x) \/ StoreBatch(x) \/ PullDone(x) \/ PushDone(x)
             \/ \E d \in Docs : PushDoc(x, d) \/ PurgeDoc(x, d)
    <3>1. call'[c].pc = call[c].pc
      <4>1. CASE FetchBatch(x)
        BY <4>1, FetchBatchCall
      <4>2. CASE StoreBatch(x)
        BY <4>2, StoreBatchCall
      <4>3. CASE PullDone(x) \/ PushDone(x)
        <5>1. PICK dir \in {"pull", "push"} : \/ PullDone(x) /\ dir = "pull"
                                              \/ PushDone(x) /\ dir = "push"
          BY <4>3
        <5>2. call'[x].pc = call[x].pc /\ \A y \in Calls \ {x} : call'[y] = call[y]
          BY <5>1, DirectionDoneCall, Zenon
        <5> QED
          BY <5>2
      <4>4. CASE \E d \in Docs : PushDoc(x, d)
        BY <4>4 DEF PushDoc
      <4>5. CASE \E d \in Docs : PurgeDoc(x, d)
        BY <4>5, PurgeDocCall
      <4> QED
        BY <2>4, <4>1, <4>2, <4>3, <4>4, <4>5
    <3> QED
      BY <1>0, <3>1
  <2> QED
    BY <1>2, <2>1, <2>2, <2>3, <2>4 DEF CallStep
<1>3. ASSUME NEW x \in Calls, Fault(x) PROVE FALSE
  <2>1. syncState' = "FAILED"
    BY <1>3 DEF Fault, InfoFails, SyncFails, SyncStalls, NotificationsNotFound, Settles, Emit
  <2> QED
    BY <1>0, <2>1
<1>4. ASSUME User \/ LogIn PROVE FALSE
  <2>1. CASE LogIn
    <3>2. call'[c].pc = call[c].pc \/ call'[c].pc = "info"
      BY <2>1, LogInCall
    <3> QED
      BY <1>0, <3>2
  <2>2. CASE User
    <3>1. call'[c].pc = call[c].pc
      BY <2>2, CallFields DEF User, ServerChange, LocalEdit, CallState
    <3> QED
      BY <1>0, <3>1
  <2> QED
    BY <1>4, <2>1, <2>2
<1>5. ASSUME \/ GoOffline \/ GoOnline \/ LogOut \/ BeginDestroy \/ EndDestroy \/ PageLoad
             \/ UNCHANGED vars
      PROVE  FALSE
  <2>1. call' = call \/ syncState' = "UNSYNCED"
    BY <1>5 DEF GoOffline, GoOnline, LogOut, BeginDestroy, EndDestroy, PageLoad, vars
  <2> QED
    BY <1>0, <2>1
<1> QED
  BY <1>1, <1>2, <1>3, <1>4, <1>5 DEF Next, Session

\* As long as nobody regains access, who awaits a sync gets what was there to transfer
\* when it started, whatever other syncs do meanwhile.
THEOREM SyncCovers ==
  ASSUME ~Grants
  PROVE  Spec => SyncCoversRequest
<1>1. Init => Covered
  BY DEF Init, Covered, CoveredCall, IdleCall, Active
<1>2. TypeOK /\ Covered /\ [Next]_vars =>
        [\A c \in Calls : Fulfils(c) /\ db # "destroyed" /\ ~MayBeMissing =>
          \A d \in Docs :
             /\ server[d].access # "none" /\ 0 < server[d].seq
                  /\ server[d].seq <= call[c].owedSeq
                  => local[d].held /\ local[d].seen = server[d].seq
             /\ d \in call[c].owedDocs => local[d].unsent # "yes"]_vars
  <2> SUFFICES ASSUME TypeOK, Covered, [Next]_vars, NEW c \in Calls, Fulfils(c),
                      db # "destroyed", ~MayBeMissing
               PROVE  \A d \in Docs :
                         /\ server[d].access # "none" /\ 0 < server[d].seq
                              /\ server[d].seq <= call[c].owedSeq
                              => local[d].held /\ local[d].seen = server[d].seq
                         /\ d \in call[c].owedDocs => local[d].unsent # "yes"
    OBVIOUS
  <2>1. FirstSyncCompletes(c) \/ SyncCompletes(c)
    BY FulfilsAtTheEnd
  <2>2. call[c].pc \in Active /\ call[c].dirs = {}
    BY <2>1 DEF FirstSyncCompletes, SyncCompletes, Covered, CoveredCall, Active
  <2> QED
    BY <2>2 DEF Covered, CoveredCall, Latest
<1> QED
  BY <1>1, <1>2, CoveredNext, PullsCorrect, TypeCorrect, PTL DEF Spec, SyncCoversRequest

-----------------------------------------------------------------------------
(***************************************************************************)
(* The database implements Replica, as long as nobody regains access to a  *)
(* document.  Every step that touches what Replica sees is one of its      *)
(* actions; that a batch is stored as a whole, and that only documents     *)
(* without access are purged, follows from the invariant PullsAreComplete. *)
(***************************************************************************)

\* A stored batch is a reception of versions not older than those there are.
LEMMA StoreBatchReceives ==
  ASSUME TypeOK, PullsAreComplete, PullsAreComplete', TypeOK',
         NEW c \in Calls, StoreBatch(c)
  PROVE  AbstractReplica!Receive
<1> DEFINE arrived == {d \in Docs : call[c].got[d] > 0}
           version == [d \in arrived |-> IF local[d].seen < call[c].got[d]
                                         THEN call[c].got[d] ELSE local[d].seen]
<1>1. /\ updateSeq \in Nat /\ checkpoint' \in Nat
      /\ \A d \in Docs : /\ server[d].seq \in Nat /\ server[d].seq <= updateSeq
                         /\ local[d].seen \in Nat /\ local[d].seen <= server[d].seq
                         /\ call[c].got[d] \in Nat /\ call[c].got[d] <= server[d].seq
  <2>1. call[c].got \in [Docs -> Nat]
    BY CallTyped, CallFields DEF TypeOK
  <2> QED
    BY <2>1, DocFields DEF TypeOK, PullsAreComplete, SeqBounds, DocState
<1>2. /\ arrived \in SUBSET Docs
      /\ version \in [arrived -> 1..updateSeq]
      /\ \A d \in arrived : version[d] \in local[d].seen..server[d].seq
  BY <1>1
<1>3. local' = [d \in Docs |->
                  IF d \in arrived THEN [local[d] EXCEPT !.held = TRUE, !.seen = version[d]]
                  ELSE local[d]]
  BY DEF StoreBatch
<1>4. UNCHANGED <<updateSeq, server>>
  BY DEF StoreBatch, serverVars
<1>5. checkpoint' \in 0..updateSeq
  BY <1>1, <1>4 DEF PullsAreComplete, SeqBounds
<1>6. AbstractReplica!CompleteUpTo(local', checkpoint')
  BY <1>4 DEF PullsAreComplete, CheckpointSound, AbstractReplica!CompleteUpTo
<1> QED
  BY <1>2, <1>3, <1>4, <1>5, <1>6 DEF AbstractReplica!Receive

\* What is pushed is sent, or refused.
LEMMA PushDocSends ==
  ASSUME TypeOK, NEW c \in Calls, NEW d \in Docs, PushDoc(c, d)
  PROVE  AbstractReplica!Send(d)
<1>1. local[d].unsent # "no"
  BY DEF PushDoc, ToPush
<1>2. checkpoint' = checkpoint
  BY DEF PushDoc
<1>3. CASE server[d].access = "write"
  BY <1>1, <1>2, <1>3 DEF PushDoc, AbstractReplica!Send
<1>4. CASE server[d].access # "write"
  BY <1>1, <1>2, <1>4 DEF PushDoc, serverVars, AbstractReplica!Send
<1> QED
  BY <1>3, <1>4

\* A purge forgets a document without access, or fails.
LEMMA PurgeDocForgets ==
  ASSUME PullsAreComplete, NEW c \in Calls, NEW d \in Docs, PurgeDoc(c, d)
  PROVE  AbstractReplica!Forget(d) \/ UNCHANGED AbstractReplica!vars
<1>1. UNCHANGED <<updateSeq, server, checkpoint>>
  BY DEF PurgeDoc, serverVars
<1>2. server[d].access = "none"
  BY DEF PurgeDoc, PullsAreComplete, OnlyLostArePurged, Purging
<1>3. CASE local' = [local EXCEPT ![d] = Absent]
  BY <1>1, <1>2, <1>3 DEF AbstractReplica!Forget, Absent, AbstractReplica!Absent
<1>4. CASE local' = local
  BY <1>1, <1>4 DEF AbstractReplica!vars
<1> QED
  BY <1>3, <1>4 DEF PurgeDoc

\* Whatever access a change leaves, the abstract server allows it.
LEMMA ServerChangeChanges ==
  ASSUME NEW d \in Docs, ServerChange(d)
  PROVE  AbstractReplica!ServerChange(d)
<1>1. PICK a \in AccessAfter(server[d].access) :
          server' = [server EXCEPT ![d] = [seq |-> updateSeq + 1, access |-> a]]
  BY DEF ServerChange
<1>2. a \in AbstractReplica!Access
  BY DEF AccessAfter, Access, AbstractReplica!Access
<1> QED
  BY <1>1, <1>2 DEF ServerChange, deviceVars, AbstractReplica!ServerChange

\* Every other step of a sync concerns the sync only.
LEMMA CallBookkeeping ==
  ASSUME NEW c \in Calls,
         \/ Request(c) \/ Fault(c)
         \/ StartReplication(c) \/ FetchBatch(c) \/ PullDone(c) \/ PushDone(c)
         \/ FirstSyncCompletes(c) \/ StartPurge(c) \/ SyncCompletes(c)
  PROVE  UNCHANGED AbstractReplica!vars
BY DEF Request, LiveSync, EnsureSynced, ResetSync, Sync,
       Fault, InfoFails, SyncFails, SyncStalls, NotificationsNotFound, Settles,
       StartReplication, FetchBatch, PullDone, PushDone, CallOnly,
       FirstSyncCompletes, StartPurge, SyncCompletes,
       serverVars, deviceVars, AbstractReplica!vars

\* Every step is one of the replica, or is not visible in it.
LEMMA ReplicaStep ==
  ASSUME TypeOK, PullsAreComplete, TypeOK', PullsAreComplete', [Next]_vars
  PROVE  [AbstractReplica!Next]_AbstractReplica!vars
<1>1. ASSUME NEW c \in Calls, Request(c) \/ Fault(c)
      PROVE  UNCHANGED AbstractReplica!vars
  BY <1>1, CallBookkeeping
<1>2. ASSUME NEW c \in Calls, CallStep(c)
      PROVE  [AbstractReplica!Next]_AbstractReplica!vars
  <2>1. CASE StoreBatch(c)
    BY <2>1, StoreBatchReceives DEF AbstractReplica!Next
  <2>2. ASSUME NEW d \in Docs, PushDoc(c, d) \/ PurgeDoc(c, d)
        PROVE  [AbstractReplica!Next]_AbstractReplica!vars
    BY <2>2, PushDocSends, PurgeDocForgets DEF AbstractReplica!Next
  <2> QED
    BY <1>2, <2>1, <2>2, CallBookkeeping DEF CallStep
<1>3. CASE User
  <2>1. ASSUME NEW d \in Docs, LocalEdit(d) PROVE AbstractReplica!LocalEdit(d)
    BY <2>1 DEF LocalEdit, serverVars, AbstractReplica!LocalEdit
  <2> QED
    BY <1>3, <2>1, ServerChangeChanges DEF User, AbstractReplica!Next
<1>4. CASE EndDestroy
  <2>1. AbstractReplica!Wipe
    BY <1>4 DEF EndDestroy, serverVars, Absent, AbstractReplica!Wipe,
                AbstractReplica!Absent
  <2> QED
    BY <2>1 DEF AbstractReplica!Next
<1>5. CASE GoOffline \/ GoOnline \/ LogIn \/ LogOut \/ BeginDestroy \/ PageLoad
           \/ UNCHANGED vars
  BY <1>5 DEF GoOffline, GoOnline, LogIn, LogOut, BeginDestroy, PageLoad, vars,
              serverVars, deviceVars, AbstractReplica!vars
<1> QED
  BY <1>1, <1>2, <1>3, <1>4, <1>5 DEF Next, Session

\* The local database is a replica of what the user may read on the server: it
\* never goes back, never drops a local change, forgets only what the user may no
\* longer read, and is complete up to its checkpoint (as long as nobody regains
\* access), whatever syncs overlap, fail or stall.
THEOREM ReplicaImplemented ==
  ASSUME ~Grants
  PROVE  Spec => ImplementsReplica
<1>1. Init => AbstractReplica!Init
  <2> SUFFICES ASSUME Init PROVE AbstractReplica!Init
    OBVIOUS
  <2>1. PICK i \in InitialServers :
            /\ server = [d \in Docs |-> [seq |-> i.seq[d], access |-> "write"]]
            /\ updateSeq = i.last
    BY DEF Init
  <2> QED
    BY <2>1, InitialServersAssumption
    DEF Init, Absent, AbstractReplica!Init, AbstractReplica!Absent
<1>2. TypeOK /\ PullsAreComplete /\ TypeOK' /\ PullsAreComplete' /\ [Next]_vars
        => [AbstractReplica!Next]_AbstractReplica!vars
  BY ReplicaStep
<1> QED
  BY <1>1, <1>2, TypeCorrect, PullsCorrect, PTL
  DEF Spec, ImplementsReplica, AbstractReplica!Spec
=============================================================================
