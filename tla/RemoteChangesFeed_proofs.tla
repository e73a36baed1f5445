----------------------- MODULE RemoteChangesFeed_proofs -----------------------
(***************************************************************************)
(* Theorems about RemoteChangesFeed: its variables keep their types, and,  *)
(* as long as announcedRevisions has room for every document, no poll      *)
(* takes subscribers back to an older revision, and nothing at all does on *)
(* a document with one writer at a time.                                   *)
(***************************************************************************)
EXTENDS RemoteChangesFeed, FiniteSetTheorems, TLAPS

\* The map is never cleared: there are fewer documents than it may hold.
RoomForAll == IsFiniteSet(Docs) /\ Cardinality(Docs) < MaxAnnounced

-----------------------------------------------------------------------------
\* Emitting revisions keeps what subscribers show well-typed.
LEMMA EmitTyped ==
    ASSUME NEW docs \in SUBSET Docs, NEW r,
           \A d \in docs : r[d] \in Rev,
           view \in [Docs -> Rev], emitted \in [Docs -> SUBSET Rev],
           Emit(docs, r)
    PROVE  view' \in [Docs -> Rev] /\ emitted' \in [Docs -> SUBSET Rev]
BY DEF Emit

\* So does announcing one.
LEMMA AnnounceTyped ==
    ASSUME TypeOK, NEW d \in Docs, NEW r \in Rev, Announce(d, r)
    PROVE  /\ view' \in [Docs -> Rev] /\ emitted' \in [Docs -> SUBSET Rev]
           /\ announced' \in [Docs -> Rev \cup {NoRev}]
<1>1. CASE IsAlreadyAnnounced(d, r)
    BY <1>1 DEF Announce, TypeOK, feedVars
<1>2. CASE ~IsAlreadyAnnounced(d, r)
    <2>1. announced' \in [Docs -> Rev \cup {NoRev}]
        BY <1>2 DEF Announce, TypeOK
    <2>2. /\ view' = [e \in Docs |-> IF e \in {d} THEN r ELSE view[e]]
          /\ emitted' = [e \in Docs |-> IF e \in {d} THEN emitted[e] \cup {r}
                                                     ELSE emitted[e]]
        BY <1>2 DEF Announce, Emit
    <2> QED BY <2>1, <2>2 DEF TypeOK
<1> QED BY <1>1, <1>2

\* What a change makes of a revision is a revision.
LEMMA SuccessorTyped ==
    ASSUME TypeOK, NEW d \in Docs, NEW b \in Rev, NEW deleted \in BOOLEAN,
           NEW new \in Successors(b, d, deleted)
    PROVE  /\ new \in Rev /\ new.gen = b.gen + 1
           /\ new.ancestors = b.ancestors \cup {b.id}
           /\ new.id = seq + 1 \/ new.id = -(seq + 1)
<1>1. PICK i \in {seq + 1} \cup {-(seq + 1) : r \in Leaves(tree[d]) \ {b}} :
          new = [gen |-> b.gen + 1, id |-> i, deleted |-> deleted,
                 ancestors |-> b.ancestors \cup {b.id}]
    BY DEF Successors
<1>2. i = seq + 1 \/ i = -(seq + 1)
    BY <1>1
<1>3. i \in Int
    BY <1>2 DEF TypeOK
<1> QED BY <1>1, <1>2, <1>3 DEF Rev

\* Adding it keeps the types of what the server holds.
LEMMA AddTyped ==
    ASSUME TypeOK, NEW d \in Docs, NEW new \in Rev, AddRevision(d, new)
    PROVE  /\ seq' \in Nat /\ tree' \in [Docs -> SUBSET Rev] /\ rev' \in [Docs -> Rev]
           /\ changed' \in [Docs -> Nat]
<1>1. tree' \in [Docs -> SUBSET Rev]
    BY DEF AddRevision, TypeOK
<1>2. PICK win \in Leaves(tree[d] \cup {new}) : rev' = [rev EXCEPT ![d] = win]
    BY DEF AddRevision
<1>3. win \in Rev
    BY DEF Leaves, TypeOK
<1>4. rev' \in [Docs -> Rev]
    BY <1>2, <1>3 DEF TypeOK
<1>5. seq' \in Nat /\ changed' \in [Docs -> Nat]
    BY DEF AddRevision, TypeOK
<1> QED BY <1>1, <1>4, <1>5

\* The revision that a write in its way is based on
BaseOf(w) == IF write[w].base = NoRev THEN rev[write[w].doc] ELSE write[w].base

\* What the server stores is a successor of one it has.
LEMMA StoreAdds ==
    ASSUME TypeOK, NEW w \in Writes, Store(w), rev[write[w].doc] \in tree[write[w].doc]
    PROVE  /\ write[w].doc \in Docs /\ BaseOf(w) \in tree[write[w].doc]
           /\ BaseOf(w) \in Leaves(tree[write[w].doc]) \/ BaseOf(w) = rev[write[w].doc]
           /\ \E new \in Successors(BaseOf(w), write[w].doc, write[w].kind = "remove") :
                 /\ AddRevision(write[w].doc, new)
                 /\ write' = [write EXCEPT ![w] =
                       [pc |-> "answered", doc |-> write[w].doc, base |-> new,
                        kind |-> write[w].kind]]
<1>1. write[w].doc \in Docs
    BY DEF Store, TypeOK, WriteState, Idle
<1>2. /\ BaseOf(w) \in tree[write[w].doc]
      /\ BaseOf(w) \in Leaves(tree[write[w].doc]) \/ BaseOf(w) = rev[write[w].doc]
    BY DEF Store, Accepted, BaseOf, Leaves
<1> QED BY <1>1, <1>2 DEF Store, BaseOf

\* Every step keeps the types.
LEMMA TypeNext == TypeOK /\ [Next]_vars => TypeOK'
<1> SUFFICES ASSUME TypeOK, [Next]_vars PROVE TypeOK'
    OBVIOUS
<1> USE DEF Idle
<1>1. ASSUME NEW w \in Writes, NEW d \in Docs, NEW kind \in Kinds, Put(w, d, kind)
      PROVE  TypeOK'
    <2>1. write' \in [Writes -> WriteState]
        BY <1>1 DEF Put, TypeOK, WriteState
    <2> QED BY <1>1, <2>1 DEF Put, TypeOK, serverVars, feedVars
<1>2. ASSUME NEW w \in Writes, Store(w) PROVE TypeOK'
    <2> DEFINE d == write[w].doc
               b == IF write[w].base = NoRev THEN rev[d] ELSE write[w].base
    <2>1. d \in Docs /\ write[w].kind \in Kinds
        BY <1>2 DEF Store, TypeOK, WriteState
    <2>2. b \in Rev
        BY <1>2, <2>1 DEF Store, Accepted, Leaves, TypeOK
    <2>3. PICK new \in Successors(b, d, write[w].kind = "remove") :
              /\ AddRevision(d, new)
              /\ write' = [write EXCEPT ![w] = [pc |-> "answered", doc |-> d, base |-> new,
                                                kind |-> write[w].kind]]
        BY <1>2 DEF Store
    <2> HIDE DEF d, b
    <2>4. new \in Rev
        <3>1. (write[w].kind = "remove") \in BOOLEAN
            OBVIOUS
        <3> QED BY <2>1, <2>2, <2>3, <3>1, SuccessorTyped
    <2>5. write' \in [Writes -> WriteState]
        BY <2>1, <2>3, <2>4 DEF WriteState, TypeOK
    <2>6. /\ seq' \in Nat /\ tree' \in [Docs -> SUBSET Rev] /\ rev' \in [Docs -> Rev]
          /\ changed' \in [Docs -> Nat]
        BY <2>1, <2>3, <2>4, AddTyped
    <2>7. UNCHANGED <<poll, since, feedVars>>
        BY <1>2 DEF Store
    <2> QED BY <2>5, <2>6, <2>7 DEF TypeOK, feedVars
<1>3. ASSUME NEW w \in Writes, Conflict(w) \/ WriteFails(w) PROVE TypeOK'
    <2>1. write[w] \in WriteState
        BY DEF TypeOK
    <2>2. Conflict(w) => write[w].doc \in Docs
        BY <2>1 DEF Conflict, WriteState
    <2>3. PICK next : write' = [write EXCEPT ![w] = next] /\ next \in WriteState
        BY <1>3, <2>2 DEF Conflict, WriteFails, WriteState, Kinds
    <2>4. write' \in [Writes -> WriteState]
        BY <2>3 DEF TypeOK
    <2> QED BY <1>3, <2>4 DEF Conflict, WriteFails, TypeOK, serverVars, feedVars
<1>4. ASSUME NEW w \in Writes, Overwrite(w) PROVE TypeOK'
    <2>1. write[w] \in WriteState /\ write[w].pc = "conflict"
        BY <1>4 DEF Overwrite, TypeOK
    <2>2. write[w].doc \in Docs
        BY <2>1 DEF WriteState
    <2>3. rev[write[w].doc] \in Rev
        BY <2>2 DEF TypeOK
    <2>4. write' \in [Writes -> WriteState]
        BY <1>4, <2>2, <2>3 DEF Overwrite, WriteState, TypeOK, Kinds
    <2> QED BY <1>4, <2>4 DEF Overwrite, TypeOK, serverVars, feedVars
<1>5. ASSUME NEW w \in Writes, Stored(w) PROVE TypeOK'
    <2>1. write[w] \in WriteState /\ write[w].pc = "answered"
        BY <1>5 DEF Stored, TypeOK
    <2>2. write[w].doc \in Docs /\ write[w].base \in Rev
        BY <2>1 DEF WriteState
    <2>3. /\ view' \in [Docs -> Rev] /\ emitted' \in [Docs -> SUBSET Rev]
          /\ announced' \in [Docs -> Rev \cup {NoRev}]
        BY <1>5, <2>2, AnnounceTyped DEF Stored
    <2>4. write' \in [Writes -> WriteState]
        BY <1>5 DEF Stored, TypeOK, WriteState
    <2>5. UNCHANGED <<serverVars, poll, since>>
        BY <1>5 DEF Stored
    <2> QED BY <2>3, <2>4, <2>5 DEF TypeOK, serverVars
<1>6. ASSUME NEW d \in Docs, OtherWrite(d) PROVE TypeOK'
    <2>1. PICK b \in tree[d], deleted \in BOOLEAN :
              \E new \in Successors(b, d, deleted) : AddRevision(d, new)
        BY <1>6 DEF OtherWrite
    <2>2. b \in Rev
        BY <2>1 DEF TypeOK
    <2>3. /\ seq' \in Nat /\ tree' \in [Docs -> SUBSET Rev] /\ rev' \in [Docs -> Rev]
          /\ changed' \in [Docs -> Nat]
        BY <2>1, <2>2, SuccessorTyped, AddTyped
    <2> QED BY <1>6, <2>3 DEF OtherWrite, TypeOK, feedVars
<1>7. ASSUME PollAnswered PROVE TypeOK'
    <2>1. poll' \in PollState
        BY <1>7 DEF PollAnswered, PollState, TypeOK
    <2> QED BY <1>7, <2>1 DEF PollAnswered, TypeOK, serverVars, feedVars
<1>8. ASSUME PollReturns PROVE TypeOK'
    <2>1. poll.results \in [Docs -> Rev \cup {NoRev}] /\ poll.last \in Nat
        BY <1>8 DEF PollReturns, PollState, TypeOK
    <2> DEFINE news == {d \in Docs : /\ poll.results[d] # NoRev
                                     /\ ~IsAlreadyAnnounced(d, poll.results[d])}
    <2>3. \A d \in news : poll.results[d] \in Rev
        BY <2>1
    <2>4. Emit(news, poll.results)
        BY <1>8 DEF PollReturns
    <2>5. news \in SUBSET Docs
        OBVIOUS
    <2> HIDE DEF news
    <2>2. view' \in [Docs -> Rev] /\ emitted' \in [Docs -> SUBSET Rev]
        BY <2>3, <2>4, <2>5, EmitTyped DEF TypeOK
    <2> QED BY <1>8, <2>1, <2>2 DEF PollReturns, TypeOK, serverVars, PollState
<1>9. ASSUME PollFails PROVE TypeOK'
    BY <1>9 DEF PollFails, TypeOK, serverVars, feedVars, PollState
<1>10. ASSUME UNCHANGED vars PROVE TypeOK'
    BY <1>10 DEF vars, serverVars, feedVars, TypeOK
<1> QED BY <1>1, <1>2, <1>3, <1>4, <1>5, <1>6, <1>7, <1>8, <1>9, <1>10,
           ContendedAssumption DEF Next, OwnWrite, Poll

\* The variables keep their types.
THEOREM TypeCorrect == Spec => []TypeOK
<1>1. Init => TypeOK
    BY DEF Init, TypeOK, WriteState, PollState, Rev, First
<1> QED BY <1>1, TypeNext, PTL DEF Spec

-----------------------------------------------------------------------------
(***************************************************************************)
(* Why no poll takes subscribers back.  What is shown and under way has    *)
(* been stored, and the server delivers leaves only; so a response that is *)
(* older than what is shown was read before that was stored by an own      *)
(* write, and is older than an announced revision.                         *)
(***************************************************************************)
TreeInv ==
    \A d \in Docs :
        /\ rev[d] \in Leaves(tree[d])
        /\ \A r \in tree[d] : /\ -seq <= r.id /\ r.id <= seq
                              /\ \A i \in r.ancestors : -seq <= i /\ i <= seq
        /\ \A r, s \in tree[d] : r.id = s.id => r = s
        /\ \A r, s \in tree[d] : Older(r, s) => r.gen < s.gen

InTree ==
    /\ \A d \in Docs : view[d] \in tree[d]
    /\ \A w \in Writes : write[w].pc = "answered" => write[w].base \in tree[write[w].doc]
    /\ poll # Idle => \A d \in Docs : poll.results[d] \in tree[d] \cup {NoRev}

OldIsAnnounced ==
    poll # Idle => \A d \in Docs :
        \/ poll.results[d] = NoRev
        \/ ~Older(poll.results[d], view[d])
        \/ poll.results[d].gen < announced[d].gen

FeedInv == TypeOK /\ TreeInv /\ InTree /\ OldIsAnnounced

\* Adding a revision keeps the trees well-formed, and the leaf that wins in the tree.
LEMMA AddKeepsTree ==
    ASSUME TypeOK, TreeInv, NEW d \in Docs, NEW b \in tree[d], NEW deleted \in BOOLEAN,
           NEW new \in Successors(b, d, deleted), AddRevision(d, new)
    PROVE  /\ TreeInv'
           /\ new \in tree'[d] /\ \A e \in Docs : tree[e] \subseteq tree'[e]
<1>1. /\ new.gen = b.gen + 1 /\ new.ancestors = b.ancestors \cup {b.id}
      /\ new.id = seq + 1 \/ new.id = -(seq + 1)
      /\ b \in Rev /\ new \in Rev
    BY SuccessorTyped DEF TypeOK
<1>2. /\ tree' = [tree EXCEPT ![d] = @ \cup {new}] /\ seq' = seq + 1 /\ seq \in Nat
    BY DEF AddRevision, TypeOK
<1>3. tree'[d] = tree[d] \cup {new} /\ \A e \in Docs : e # d => tree'[e] = tree[e]
    BY <1>2 DEF TypeOK
<1>4. PICK win \in Leaves(tree[d] \cup {new}) : rev' = [rev EXCEPT ![d] = win]
    BY DEF AddRevision
<1>5. rev'[d] = win /\ \A e \in Docs : e # d => rev'[e] = rev[e]
    BY <1>4 DEF TypeOK
<1>6. \A e \in Docs : rev'[e] \in Leaves(tree'[e])
    BY <1>3, <1>4, <1>5 DEF TreeInv
<1>7. ASSUME NEW e \in Docs, NEW r \in tree'[e]
      PROVE  /\ r.id \in Int /\ r.gen \in Nat /\ r.ancestors \in SUBSET Int
             /\ -seq' <= r.id /\ r.id <= seq'
             /\ \A i \in r.ancestors : -seq' <= i /\ i <= seq'
    <2>1. r \in Rev
        BY <1>1, <1>3 DEF TypeOK
    <2>2. r.id \in Int /\ r.gen \in Nat /\ r.ancestors \in SUBSET Int
        BY <2>1 DEF Rev
    <2>3. CASE r \in tree[e]
        <3>1. -seq <= r.id /\ r.id <= seq /\ \A i \in r.ancestors : -seq <= i /\ i <= seq
            BY <2>3 DEF TreeInv
        <3> QED BY <1>2, <2>2, <3>1
    <2>4. CASE r \notin tree[e]
        <3>1. r = new /\ e = d
            BY <1>3, <2>4
        <3>2. /\ -seq <= b.id /\ b.id <= seq /\ b.id \in Int
              /\ \A i \in b.ancestors : -seq <= i /\ i <= seq
              /\ b.ancestors \in SUBSET Int
            BY <1>1 DEF TreeInv, Rev
        <3>3. \A i \in new.ancestors : -seq' <= i /\ i <= seq'
            BY <1>1, <1>2, <3>2
        <3> QED BY <1>1, <1>2, <2>2, <3>1, <3>3
    <2> QED BY <2>3, <2>4
<1>8. ASSUME NEW r \in tree[d]
      PROVE  /\ r.id # new.id /\ new.id \notin r.ancestors
             /\ Older(r, new) => r.gen < new.gen
    <2>1. /\ -seq <= r.id /\ r.id <= seq /\ r.id \in Int /\ r.gen \in Nat
          /\ \A i \in r.ancestors : -seq <= i /\ i <= seq
        BY DEF TreeInv, TypeOK, Rev
    <2>2. r.id # new.id /\ new.id \notin r.ancestors
        BY <1>1, <1>2, <2>1
    <2>3. r.id \in b.ancestors => r.gen < b.gen
        BY DEF TreeInv, Older
    <2>4. r.id = b.id => r = b
        BY DEF TreeInv
    <2>5. b.gen \in Nat
        BY <1>1 DEF Rev
    <2> QED BY <1>1, <2>1, <2>2, <2>3, <2>4, <2>5 DEF Older
<1>9. new.id \notin new.ancestors
    BY <1>1, <1>2 DEF TreeInv, Rev
<1>10. ASSUME NEW e \in Docs, NEW r \in tree'[e], NEW s \in tree'[e]
       PROVE  (r.id = s.id => r = s) /\ (Older(r, s) => r.gen < s.gen)
    <2>1. CASE r \in tree[e] /\ s \in tree[e]
        BY <2>1 DEF TreeInv
    <2>2. CASE r \in tree[e] /\ s \notin tree[e]
        <3>1. s = new /\ e = d
            BY <1>3, <2>2
        <3> QED BY <1>8, <2>2, <3>1
    <2>3. CASE r \notin tree[e] /\ s \in tree[e]
        <3>1. r = new /\ e = d
            BY <1>3, <2>3
        <3> QED BY <1>8, <2>3, <3>1 DEF Older
    <2>4. CASE r \notin tree[e] /\ s \notin tree[e]
        <3>1. r = new /\ s = new
            BY <1>3, <2>4
        <3> QED BY <1>9, <3>1 DEF Older
    <2> QED BY <2>1, <2>2, <2>3, <2>4
<1>11. TreeInv'
    BY <1>6, <1>7, <1>10 DEF TreeInv, Older
<1> QED BY <1>3, <1>11

\* With room for all, announcing a document forgets no other one.
LEMMA NothingForgotten ==
    ASSUME RoomForAll, NEW d \in Docs, NEW r, Announce(d, r), TypeOK
    PROVE  \/ UNCHANGED feedVars
           \/ /\ announced' = [announced EXCEPT ![d] = r]
              /\ view' = [view EXCEPT ![d] = r]
<1>1. Cardinality(Known) <= Cardinality(Docs)
    BY FS_Subset DEF Known, RoomForAll
<1>2. Cardinality(Known) \in Nat /\ Cardinality(Docs) \in Nat
    BY FS_Subset, FS_CardinalityType DEF Known, RoomForAll
<1>3. ~(Cardinality(Known) >= MaxAnnounced)
    BY <1>1, <1>2, MaxAnnouncedAssumption DEF RoomForAll
<1>4. CASE IsAlreadyAnnounced(d, r)
    BY <1>4 DEF Announce
<1>5. CASE ~IsAlreadyAnnounced(d, r)
    <2>1. announced' = [e \in Docs |-> IF e = d THEN r ELSE announced[e]]
        BY <1>3, <1>5 DEF Announce
    <2>2. view' = [e \in Docs |-> IF e \in {d} THEN r ELSE view[e]]
        BY <1>5 DEF Announce, Emit
    <2> QED BY <2>1, <2>2 DEF TypeOK
<1> QED BY <1>4, <1>5

\* What is shown and under way stays in the trees, and old responses stay behind what
\* was announced.
LEMMA FeedNext == RoomForAll /\ FeedInv /\ [Next]_vars => FeedInv'
<1> SUFFICES ASSUME RoomForAll, FeedInv, [Next]_vars
             PROVE  TreeInv' /\ InTree' /\ OldIsAnnounced'
    BY TypeNext DEF FeedInv
<1> USE DEF Idle
<1>t. TypeOK /\ TypeOK'
    BY TypeNext DEF FeedInv
<1>d. \A w \in Writes : write[w].pc = "answered" => write[w].doc \in Docs
    BY <1>t DEF TypeOK, WriteState
<1>1. ASSUME NEW w \in Writes,
             \/ \E d \in Docs, kind \in Kinds : Put(w, d, kind)
             \/ Conflict(w) \/ Overwrite(w) \/ WriteFails(w)
      PROVE  TreeInv' /\ InTree' /\ OldIsAnnounced'
    <2>1. UNCHANGED <<serverVars, poll, feedVars>>
        BY <1>1 DEF Put, Conflict, Overwrite, WriteFails
    <2>2. \A v \in Writes : write'[v].pc = "answered" => write'[v] = write[v]
        BY <1>1, <1>t DEF Put, Conflict, Overwrite, WriteFails, TypeOK
    <2>3. InTree'
        BY <2>1, <2>2 DEF serverVars, feedVars, FeedInv, InTree
    <2> QED BY <2>1, <2>3 DEF serverVars, feedVars, FeedInv, TreeInv, OldIsAnnounced
<1>2. ASSUME NEW w \in Writes, Store(w) PROVE TreeInv' /\ InTree' /\ OldIsAnnounced'
    <2> DEFINE d == write[w].doc
               b == BaseOf(w)
               del == write[w].kind = "remove"
    <2>1. rev[d] \in tree[d]
        <3>1. d \in Docs
            BY <1>2, <1>t DEF Store, TypeOK, WriteState
        <3> QED BY <3>1 DEF FeedInv, TreeInv, Leaves
    <2>2. /\ d \in Docs /\ b \in tree[d] /\ del \in BOOLEAN
          /\ \E new \in Successors(b, d, del) :
               /\ AddRevision(d, new)
               /\ write' = [write EXCEPT ![w] = [pc |-> "answered", doc |-> d, base |-> new,
                                                 kind |-> write[w].kind]]
        BY <1>2, <1>t, <2>1, StoreAdds
    <2>3. UNCHANGED <<poll, since, feedVars>>
        BY <1>2 DEF Store
    <2> HIDE DEF d, b, del
    <2>4. PICK new \in Successors(b, d, del) :
               /\ AddRevision(d, new)
               /\ write' = [write EXCEPT ![w] = [pc |-> "answered", doc |-> d, base |-> new,
                                                 kind |-> write[w].kind]]
        BY <2>2
    <2>5. TreeInv' /\ new \in tree'[d] /\ \A e \in Docs : tree[e] \subseteq tree'[e]
        BY <1>t, <2>2, <2>4, AddKeepsTree DEF FeedInv
    <2>6. /\ write'[w].doc = d /\ write'[w].base = new
          /\ \A v \in Writes : v # w => write'[v] = write[v]
        BY <2>4, <1>t DEF TypeOK
    <2>7. InTree'
        BY <2>3, <2>5, <2>6, <1>d DEF feedVars, FeedInv, InTree
    <2> QED BY <2>3, <2>5, <2>7 DEF feedVars, FeedInv, OldIsAnnounced
<1>3. ASSUME NEW w \in Writes, Stored(w) PROVE TreeInv' /\ InTree' /\ OldIsAnnounced'
    <2> DEFINE d == write[w].doc
               r == write[w].base
    <2>1. d \in Docs /\ r \in tree[d]
        BY <1>3, <1>d DEF Stored, FeedInv, InTree
    <2>2. /\ Announce(d, r) /\ UNCHANGED <<serverVars, poll, since>>
          /\ write' = [write EXCEPT ![w] = Idle]
        BY <1>3 DEF Stored
    <2> HIDE DEF d, r
    <2>3. \A v \in Writes : write'[v].pc = "answered" => write'[v] = write[v]
        BY <2>2, <1>t DEF TypeOK
    <2>4. \/ UNCHANGED feedVars
          \/ announced' = [announced EXCEPT ![d] = r] /\ view' = [view EXCEPT ![d] = r]
        BY <2>1, <2>2, <1>t, NothingForgotten
    <2>t. TreeInv'
        BY <2>2 DEF serverVars, FeedInv, TreeInv
    <2>5. CASE UNCHANGED feedVars
        BY <2>2, <2>3, <2>t, <2>5 DEF serverVars, feedVars, FeedInv, InTree, OldIsAnnounced
    <2>6. CASE announced' = [announced EXCEPT ![d] = r] /\ view' = [view EXCEPT ![d] = r]
        <3>1. ASSUME NEW e \in Docs
              PROVE  \/ announced'[e] = announced[e] /\ view'[e] = view[e]
                     \/ e = d /\ announced'[e] = r /\ view'[e] = r
            BY <2>1, <2>6, <1>t DEF TypeOK
        <3>2. InTree'
            BY <3>1, <2>1, <2>2, <2>3 DEF serverVars, FeedInv, InTree
        <3>3. ASSUME poll # Idle, poll.results[d] # NoRev, Older(poll.results[d], r)
              PROVE  poll.results[d].gen < r.gen
            BY <2>1, <3>3 DEF FeedInv, InTree, TreeInv
        <3>4. OldIsAnnounced'
            BY <3>1, <3>3, <2>1, <2>2 DEF FeedInv, OldIsAnnounced
        <3> QED BY <2>t, <3>2, <3>4
    <2> QED BY <2>4, <2>5, <2>6
<1>4. ASSUME NEW d \in Docs, OtherWrite(d) PROVE TreeInv' /\ InTree' /\ OldIsAnnounced'
    <2>1. PICK b \in tree[d], deleted \in BOOLEAN :
              \E new \in Successors(b, d, deleted) : AddRevision(d, new)
        BY <1>4 DEF OtherWrite
    <2>2. TreeInv' /\ \A e \in Docs : tree[e] \subseteq tree'[e]
        BY <1>t, <2>1, AddKeepsTree DEF FeedInv
    <2>3. UNCHANGED <<write, poll, since, feedVars>>
        BY <1>4 DEF OtherWrite
    <2>4. InTree'
        BY <2>2, <2>3, <1>d DEF feedVars, FeedInv, InTree
    <2> QED BY <2>2, <2>3, <2>4 DEF feedVars, FeedInv, OldIsAnnounced
<1>5. ASSUME PollAnswered PROVE TreeInv' /\ InTree' /\ OldIsAnnounced'
    <2>1. \A d \in Docs : poll'.results[d] \in {rev[d], NoRev}
        BY <1>5 DEF PollAnswered
    <2>2. UNCHANGED <<serverVars, write, feedVars>>
        BY <1>5 DEF PollAnswered
    <2>3. TreeInv'
        BY <2>2 DEF serverVars, FeedInv, TreeInv
    <2>4. \A d \in Docs : rev[d] \in tree[d] /\ ~Older(rev[d], view[d])
        BY DEF FeedInv, TreeInv, InTree, Leaves
    <2>5. InTree'
        BY <2>1, <2>2, <2>4 DEF serverVars, feedVars, FeedInv, InTree
    <2>6. OldIsAnnounced'
        BY <2>1, <2>2, <2>4 DEF feedVars, OldIsAnnounced
    <2> QED BY <2>3, <2>5, <2>6
<1>6. ASSUME PollReturns PROVE TreeInv' /\ InTree' /\ OldIsAnnounced'
    <2>1. \A d \in Docs :
              \/ view'[d] = view[d]
              \/ view'[d] = poll.results[d] /\ poll.results[d] # NoRev
        BY <1>6 DEF PollReturns, Emit
    <2>2. poll # Idle /\ poll' = Idle /\ UNCHANGED <<serverVars, write>>
        BY <1>6 DEF PollReturns
    <2>3. TreeInv'
        BY <2>2 DEF serverVars, FeedInv, TreeInv
    <2>4. InTree'
        BY <2>1, <2>2 DEF serverVars, FeedInv, InTree
    <2> QED BY <2>2, <2>3, <2>4 DEF OldIsAnnounced
<1>7. ASSUME PollFails \/ UNCHANGED vars PROVE TreeInv' /\ InTree' /\ OldIsAnnounced'
    <2>1. /\ UNCHANGED <<serverVars, write, feedVars>>
          /\ poll' = Idle \/ poll' = poll
        BY <1>7 DEF PollFails, vars
    <2> QED BY <2>1 DEF serverVars, feedVars, FeedInv, TreeInv, InTree, OldIsAnnounced
<1> QED BY <1>1, <1>2, <1>3, <1>4, <1>5, <1>6, <1>7, ContendedAssumption
        DEF Next, OwnWrite, Poll

\* From such a state no poll result that is emitted is older than what is shown.
LEMMA PollStep == FeedInv /\ PollReturns => \A d \in Docs : ~Older(view'[d], view[d])
<1> SUFFICES ASSUME FeedInv, PollReturns, NEW d \in Docs
             PROVE  ~Older(view'[d], view[d])
    OBVIOUS
<1>1. poll # Idle /\ poll.results[d] \in Rev \cup {NoRev} /\ announced[d] \in Rev \cup {NoRev}
    BY DEF FeedInv, TypeOK, PollReturns, PollState
<1>2. \/ view'[d] = view[d]
      \/ /\ view'[d] = poll.results[d] /\ poll.results[d] # NoRev
         /\ ~IsAlreadyAnnounced(d, poll.results[d])
    BY DEF PollReturns, Emit
<1>3. CASE view'[d] = view[d]
    <2>1. view[d] \in tree[d] /\ view[d].gen \in Nat
        BY DEF FeedInv, InTree, TypeOK, Rev
    <2> QED BY <1>3, <2>1 DEF FeedInv, TreeInv
<1>4. CASE view'[d] # view[d]
    <2>1. announced[d] = NoRev => ~(poll.results[d].gen < announced[d].gen)
        BY <1>1 DEF NoRev, Rev
    <2>2. ~(poll.results[d].gen < announced[d].gen)
        BY <1>2, <1>4, <2>1 DEF IsAlreadyAnnounced
    <2> QED BY <1>1, <1>2, <1>4, <2>2 DEF FeedInv, OldIsAnnounced
<1> QED BY <1>3, <1>4

\* At first there is one revision of everything.
LEMMA FeedInit == Init => FeedInv
<1> SUFFICES ASSUME Init PROVE FeedInv
    OBVIOUS
<1>1. TypeOK
    BY DEF Init, TypeOK, WriteState, PollState, Rev, First
<1>2. TreeInv
    <2>1. First.id = 0 /\ First.ancestors = {} /\ ~Older(First, First)
        BY DEF First, Older
    <2>2. \A d \in Docs : tree[d] = {First} /\ rev[d] = First
        BY DEF Init
    <2>3. seq = 0
        BY DEF Init
    <2> QED BY <2>1, <2>2, <2>3 DEF TreeInv, Leaves
<1> QED BY <1>1, <1>2 DEF Init, FeedInv, InTree, OldIsAnnounced, Idle

\* With room for all documents in announcedRevisions, no poll takes subscribers
\* back to a revision that the shown one was made from, whatever this and other
\* clients write, delete and replicate meanwhile.
THEOREM PollsMoveForward == ASSUME RoomForAll PROVE Spec => PollNeverOlder
<1>1. FeedInv /\ [Next]_vars => FeedInv'
    BY FeedNext, RoomForAll
<1>2. FeedInv => [PollReturns => \A d \in Docs : ~Older(view'[d], view[d])]_vars
    BY PollStep
<1> QED BY FeedInit, <1>1, <1>2, PTL DEF Spec, PollNeverOlder

-----------------------------------------------------------------------------
(***************************************************************************)
(* Why nothing takes subscribers back on a document with one writer at a   *)
(* time: it has one branch, its own writes do not overlap, and one that    *)
(* the server has answered is the latest revision there until its response *)
(* has arrived.                                                            *)
(***************************************************************************)
OneBranch ==
    \A d \in Docs \ Contended : \A r \in tree[d] : r = rev[d] \/ Older(r, rev[d])

OneWriter ==
    \A w \in Writes : write[w] # Idle /\ write[w].doc \notin Contended =>
        /\ \A v \in Writes : write[v] # Idle /\ write[v].doc = write[w].doc => v = w
        /\ write[w].pc = "answered" => write[w].base = rev[write[w].doc]

\* A step of one write that goes on with the same document, and leaves the server as it
\* is or stores the document, keeps writers apart.
LEMMA OneWriterGoesOn ==
    ASSUME TypeOK, OneWriter, NEW w \in Writes, write[w] # Idle, NEW next,
           write' = [write EXCEPT ![w] = next], next # Idle => next.doc = write[w].doc,
           \A d \in Docs : d # write[w].doc => rev'[d] = rev[d],
           next # Idle /\ next.pc = "answered" /\ write[w].doc \notin Contended
               => next.base = rev'[write[w].doc],
           next = Idle => rev' = rev
    PROVE  OneWriter'
<1>1. write'[w] = next /\ \A v \in Writes : v # w => write'[v] = write[v]
    BY DEF TypeOK
<1>2. ASSUME NEW v \in Writes, write'[v] # Idle, write'[v].doc \notin Contended
      PROVE  /\ \A u \in Writes : write'[u] # Idle /\ write'[u].doc = write'[v].doc => u = v
             /\ write'[v].pc = "answered" => write'[v].base = rev'[write'[v].doc]
    <2>1. write[v] # Idle /\ write[v].doc = write'[v].doc
        BY <1>1, <1>2
    <2>2. \A u \in Writes : write[u] # Idle /\ write[u].doc = write[v].doc => u = v
        BY <1>2, <2>1 DEF OneWriter
    <2>3. \A u \in Writes : write'[u] # Idle
              => write[u] # Idle /\ write[u].doc = write'[u].doc
        BY <1>1
    <2>4. ASSUME write'[v].pc = "answered" PROVE write'[v].base = rev'[write'[v].doc]
        <3>1. CASE v = w
            BY <1>1, <1>2, <2>1, <2>4, <3>1
        <3>2. CASE v # w
            <4>1. write[v].doc \in Docs /\ write[v].doc # write[w].doc
                BY <2>1, <2>2, <3>2 DEF TypeOK, WriteState
            <4>2. write[v].base = rev[write[v].doc]
                BY <1>1, <1>2, <2>1, <2>4, <3>2 DEF OneWriter
            <4> QED BY <1>1, <2>1, <3>2, <4>1, <4>2
        <3> QED BY <3>1, <3>2
    <2> QED BY <2>1, <2>2, <2>3, <2>4
<1> QED BY <1>2 DEF OneWriter

\* What is stored of a document with one branch is put at its end, and wins.
LEMMA StoreExtendsBranch ==
    ASSUME TypeOK, TreeInv, OneBranch, NEW w \in Writes, Store(w)
    PROVE  /\ OneBranch' /\ write[w].doc \in Docs
           /\ \A e \in Docs : e # write[w].doc => rev'[e] = rev[e]
           /\ \E new : /\ write' = [write EXCEPT ![w] =
                             [pc |-> "answered", doc |-> write[w].doc, base |-> new,
                              kind |-> write[w].kind]]
                       /\ write[w].doc \notin Contended => new = rev'[write[w].doc]
<1> DEFINE d == write[w].doc
           b == BaseOf(w)
           del == (write[w].kind = "remove")
<1>1. d \in Docs
    BY DEF Store, TypeOK, WriteState, Idle
<1>2. rev[d] \in Leaves(tree[d]) /\ rev[d] \in tree[d]
    BY <1>1 DEF TreeInv, Leaves
<1>3. /\ b \in tree[d]
      /\ b \in Leaves(tree[d]) \/ b = rev[d]
      /\ \E new \in Successors(b, d, del) :
            /\ AddRevision(d, new)
            /\ write' = [write EXCEPT ![w] = [pc |-> "answered", doc |-> d, base |-> new,
                                              kind |-> write[w].kind]]
    BY <1>2, StoreAdds
<1> HIDE DEF d, b, del
<1>4. PICK new \in Successors(b, d, del) :
            /\ AddRevision(d, new)
            /\ write' = [write EXCEPT ![w] = [pc |-> "answered", doc |-> d, base |-> new,
                                              kind |-> write[w].kind]]
    BY <1>3
<1>5. PICK win \in Leaves(tree[d] \cup {new}) : rev' = [rev EXCEPT ![d] = win]
    BY <1>4 DEF AddRevision
<1>6. rev'[d] = win /\ \A e \in Docs : e # d => rev'[e] = rev[e]
    BY <1>1, <1>5 DEF TypeOK
<1>7. tree'[d] = tree[d] \cup {new} /\ \A e \in Docs : e # d => tree'[e] = tree[e]
    BY <1>1, <1>4 DEF AddRevision, TypeOK
<1>8. ASSUME d \notin Contended
      PROVE  /\ new = rev'[d]
             /\ \A r \in tree[d] : Older(r, new)
    <2>1. \A r \in tree[d] : r = rev[d] \/ Older(r, rev[d])
        BY <1>1, <1>8 DEF OneBranch
    <2>2. b = rev[d]
        BY <1>2, <1>3, <2>1 DEF Leaves
    <2>3. new.ancestors = b.ancestors \cup {b.id}
        <3>1. b \in Rev /\ del \in BOOLEAN
            BY <1>1, <1>3 DEF TypeOK, del
        <3> QED BY <1>1, <1>4, <3>1, SuccessorTyped
    <2>4. \A r \in tree[d] : Older(r, new)
        BY <2>1, <2>2, <2>3 DEF Older
    <2>5. win = new
        BY <1>5, <2>4 DEF Leaves
    <2> QED BY <1>6, <2>4, <2>5
<1>9. OneBranch'
    BY <1>6, <1>7, <1>8 DEF OneBranch
<1> QED BY <1>1, <1>4, <1>6, <1>8, <1>9 DEF d

\* Every step keeps the one branch of an uncontended document, and its writers apart.
LEMMA OneWriterNext ==
    TypeOK /\ TreeInv /\ OneBranch /\ OneWriter /\ [Next]_vars => OneBranch' /\ OneWriter'
<1> SUFFICES ASSUME TypeOK, TreeInv, OneBranch, OneWriter, [Next]_vars
             PROVE  OneBranch' /\ OneWriter'
    OBVIOUS
<1>b. UNCHANGED <<tree, rev>> => OneBranch'
    BY DEF OneBranch
<1>1. ASSUME NEW w \in Writes, NEW d \in Docs, NEW kind \in Kinds, Put(w, d, kind)
      PROVE  OneBranch' /\ OneWriter'
    <2>1. /\ write'[w].doc = d /\ write'[w].pc = "sent" /\ write[w] = Idle
          /\ \A v \in Writes : v # w => write'[v] = write[v]
          /\ UNCHANGED <<tree, rev>>
        BY <1>1 DEF Put, TypeOK, serverVars
    <2>2. \A v \in Writes : write[v] # Idle /\ write[v].doc = d => d \in Contended
        BY <1>1 DEF Put
    <2> QED BY <1>b, <2>1, <2>2 DEF OneWriter
<1>2. ASSUME NEW w \in Writes, Store(w) PROVE OneBranch' /\ OneWriter'
    <2> DEFINE next(new) == [pc |-> "answered", doc |-> write[w].doc, base |-> new,
                             kind |-> write[w].kind]
    <2>1. write[w] # Idle
        BY <1>2 DEF Store, Idle
    <2>5. /\ OneBranch' /\ write[w].doc \in Docs
          /\ \A e \in Docs : e # write[w].doc => rev'[e] = rev[e]
        BY <1>2, StoreExtendsBranch
    <2>2. PICK new : /\ write' = [write EXCEPT ![w] = next(new)]
                     /\ write[w].doc \notin Contended => new = rev'[write[w].doc]
        BY <1>2, StoreExtendsBranch
    <2>3. /\ next(new).doc = write[w].doc /\ next(new).base = new
          /\ next(new).pc = "answered" /\ Idle.pc = "idle"
        BY DEF Idle
    <2> HIDE DEF next
    <2>4. next(new) # Idle
        BY <2>3
    <2> QED BY <2>1, <2>2, <2>3, <2>4, <2>5, OneWriterGoesOn
<1>3. ASSUME NEW w \in Writes, Conflict(w) \/ Overwrite(w) \/ Stored(w) \/ WriteFails(w)
      PROVE  OneBranch' /\ OneWriter'
    <2>1. UNCHANGED <<tree, rev>> /\ write[w] # Idle
        BY <1>3 DEF Conflict, Overwrite, Stored, WriteFails, serverVars, Idle
    <2>2. PICK next : /\ write' = [write EXCEPT ![w] = next]
                      /\ next # Idle => next.doc = write[w].doc /\ next.pc # "answered"
        BY <1>3 DEF Conflict, Overwrite, Stored, WriteFails
    <2> QED BY <1>b, <2>1, <2>2, OneWriterGoesOn
<1>4. ASSUME NEW d \in Contended, OtherWrite(d) PROVE OneBranch' /\ OneWriter'
    <2>1. write' = write /\ \A e \in Docs : e # d => rev'[e] = rev[e] /\ tree'[e] = tree[e]
        BY <1>4 DEF OtherWrite, AddRevision, TypeOK
    <2>2. \A w \in Writes : write[w] # Idle => write[w].doc \in Docs
        BY DEF TypeOK, WriteState
    <2> QED BY <2>1, <2>2 DEF OneWriter, OneBranch
<1>5. ASSUME Poll \/ UNCHANGED vars PROVE OneBranch' /\ OneWriter'
    <2>1. UNCHANGED <<tree, rev, write>>
        BY <1>5 DEF Poll, PollAnswered, PollReturns, PollFails, vars, serverVars
    <2> QED BY <1>b, <2>1 DEF OneWriter
<1> QED BY <1>1, <1>2, <1>3, <1>4, <1>5 DEF Next, OwnWrite

\* From such a state no step takes back what is shown of an uncontended document.
LEMMA NothingGoesBack ==
    ASSUME FeedInv, OneWriter, [Next]_vars, NEW d \in Docs \ Contended
    PROVE  ~Older(view'[d], view[d])
<1>t. /\ view[d] \in tree[d] /\ rev[d] \in Leaves(tree[d])
      /\ ~Older(view[d], view[d])
    <2>1. view[d] \in tree[d] /\ rev[d] \in Leaves(tree[d])
        BY DEF FeedInv, InTree, TreeInv
    <2>2. view[d].gen \in Nat
        BY DEF FeedInv, TypeOK, Rev
    <2> QED BY <2>1, <2>2 DEF FeedInv, TreeInv
<1>1. ASSUME NEW w \in Writes, Stored(w) PROVE ~Older(view'[d], view[d])
    <2> DEFINE e == write[w].doc
               r == write[w].base
    <2>1. e \in Docs /\ write[w] # Idle
        BY <1>1 DEF Stored, FeedInv, TypeOK, WriteState, Idle
    <2>2. e = d => r = rev[d]
        BY <1>1, <2>1 DEF Stored, OneWriter
    <2>3. Announce(e, r)
        BY <1>1 DEF Stored
    <2> HIDE DEF e, r
    <2>4. view'[d] = view[d] \/ (e = d /\ view'[d] = r)
        BY <2>3 DEF Announce, Emit, feedVars
    <2> QED BY <1>t, <2>2, <2>4 DEF Leaves
<1>2. CASE PollReturns
    BY <1>2, PollStep
<1>3. ASSUME UNCHANGED view PROVE ~Older(view'[d], view[d])
    BY <1>3, <1>t
<1>4. \/ \E w \in Writes : Stored(w)
      \/ PollReturns
      \/ UNCHANGED view
    BY DEF Next, OwnWrite, Poll, Put, Store, Conflict, Overwrite, WriteFails, OtherWrite,
           PollAnswered, PollFails, vars, feedVars
<1> QED BY <1>1, <1>2, <1>3, <1>4

\* With room for all documents in announcedRevisions, subscribers never go back on a
\* document with one writer at a time to a revision that the shown one was made from,
\* in whatever order polls and writes are answered.
THEOREM NeverBack == ASSUME RoomForAll PROVE Spec => NeverOlder
<1> DEFINE Inv == FeedInv /\ OneBranch /\ OneWriter
<1>1. Init => Inv
    <2>1. Init => OneBranch /\ OneWriter
        BY DEF Init, OneBranch, OneWriter, Idle
    <2> QED BY <2>1, FeedInit
<1>2. Inv /\ [Next]_vars => Inv'
    <2> SUFFICES ASSUME Inv, [Next]_vars PROVE Inv'
        OBVIOUS
    <2>1. FeedInv'
        BY FeedNext, RoomForAll
    <2>2. OneBranch' /\ OneWriter'
        BY OneWriterNext DEF FeedInv
    <2> QED BY <2>1, <2>2
<1>3. Inv /\ [Next]_vars => \A d \in Docs \ Contended : ~Older(view'[d], view[d])
    BY NothingGoesBack
<1>4. Inv /\ [Next]_vars => [\A d \in Docs \ Contended : ~Older(view'[d], view[d])]_vars
    BY <1>3
<1> HIDE DEF Inv
<1> QED BY <1>1, <1>2, <1>4, PTL DEF Spec, NeverOlder
=============================================================================
