-------------------------- MODULE RemoteChangesFeed --------------------------
(***************************************************************************)
(* The changes feed of a RemotePouchDatabase: a client without a local     *)
(* database polls _changes, and announces its own writes on the same feed  *)
(* as soon as the server has answered them.  What subscribers show of a    *)
(* document is what the feed has emitted last.                             *)
(*                                                                         *)
(* Requests overlap: a poll and several writes are under way at once, and  *)
(* their responses arrive in any order.  The feed is modelled from the     *)
(* answer of its first poll ("now") on.  Each document of a putAll() is a  *)
(* write of its own.                                                       *)
(*                                                                         *)
(* The server is CouchDB: a document is a tree of revisions, clients that  *)
(* replicate may add a branch to it, and the winner among its leaves is    *)
(* what _changes delivers.  A leaf that is not deleted wins over one that  *)
(* is, whatever their generations.                                         *)
(***************************************************************************)
EXTENDS Integers, FiniteSets

CONSTANTS
    Docs,           \* document ids
    Writes,         \* own writes that may be under way at the same time
    MaxAnnounced,   \* MAX_ANNOUNCED_REVISIONS
    Contended,      \* documents with several writers at once: other clients, or
                    \* saves of this client that overlap
    MaxSeq          \* bound: changes on the server

ASSUME MaxAnnouncedAssumption == MaxAnnounced \in Nat \ {0}
ASSUME ContendedAssumption == Contended \subseteq Docs
ASSUME MaxSeqAssumption == MaxSeq \in Nat

VARIABLES
    seq,         \* update sequence of the server
    tree,        \* per document: the revisions the server knows of
    rev,         \* per document: the winning one
    changed,     \* per document: the sequence number of its latest change
    write,       \* the own writes
    poll,        \* the poll: idle, or the response that is on its way
    since,       \* lastSequence
    announced,   \* announcedRevisions
    view,        \* per document: the revision emitted last
    emitted      \* history: per document, the revisions emitted so far

serverVars == <<seq, tree, rev, changed>>
feedVars == <<announced, view, emitted>>
vars == <<serverVars, write, poll, since, feedVars>>

-----------------------------------------------------------------------------
\* A revision: its generation, whether it is a deletion, and the ids of those it was
\* made from.  Its id is the number of the change that made it, taken negative when its
\* hash is the lower one: the order of ids decides between siblings as the hashes do.
Rev == [gen : Nat \ {0}, id : Int, deleted : BOOLEAN, ancestors : SUBSET Int]

\* The revision that is on the server and with the subscribers at first
First == [gen |-> 1, id |-> 0, deleted |-> FALSE, ancestors |-> {}]
NoRev == [gen |-> 0, id |-> 0, deleted |-> FALSE, ancestors |-> {}]

Idle == [pc |-> "idle"]
Kinds == {"save", "overwrite", "remove"}
WriteState ==
    {Idle}
    \cup [pc : {"sent", "conflict"}, doc : Docs, base : Rev \cup {NoRev}, kind : Kinds]
    \cup [pc : {"answered"}, doc : Docs, base : Rev, kind : Kinds]
PollState == {Idle} \cup [pc : {"answered"}, results : [Docs -> Rev \cup {NoRev}],
                       last : Nat]

TypeOK ==
    /\ seq \in Nat
    /\ tree \in [Docs -> SUBSET Rev]
    /\ rev \in [Docs -> Rev]
    /\ changed \in [Docs -> Nat]
    /\ write \in [Writes -> WriteState]
    /\ poll \in PollState
    /\ since \in Nat
    /\ announced \in [Docs -> Rev \cup {NoRev}]
    /\ view \in [Docs -> Rev]
    /\ emitted \in [Docs -> SUBSET Rev]

Init ==
    /\ seq = 0
    /\ tree = [d \in Docs |-> {First}] /\ rev = [d \in Docs |-> First]
    /\ changed = [d \in Docs |-> 0]
    /\ write = [w \in Writes |-> Idle]
    /\ poll = Idle /\ since = 0
    /\ announced = [d \in Docs |-> NoRev]
    /\ view = [d \in Docs |-> First]
    /\ emitted = [d \in Docs |-> {First}]

-----------------------------------------------------------------------------
(***************************************************************************)
(* CouchDB: the revisions of a document                                    *)
(***************************************************************************)

\* Revision r is one that s was made from.
Older(r, s) == r.id \in s.ancestors

Leaves(revs) == {r \in revs : \A s \in revs : ~Older(r, s)}

\* Of two leaves, the one that wins
Beats(r, s) ==
    \/ ~r.deleted /\ s.deleted
    \/ r.deleted = s.deleted /\ (r.gen > s.gen \/ (r.gen = s.gen /\ r.id > s.id))

\* What a change may make of revision b.  (Without a sibling, the first hash is the
\* higher one: the order to those that come is open.)
Successors(b, d, deleted) ==
    {[gen |-> b.gen + 1, id |-> i, deleted |-> deleted, ancestors |-> b.ancestors \cup {b.id}]
       : i \in {seq + 1} \cup {-(seq + 1) : r \in Leaves(tree[d]) \ {b}}}

\* A revision is added to a document, and a winner found among its leaves.
AddRevision(d, new) ==
    /\ seq < MaxSeq
    /\ seq' = seq + 1
    /\ tree' = [tree EXCEPT ![d] = @ \cup {new}]
    /\ \E win \in Leaves(tree[d] \cup {new}) :
          /\ \A r \in Leaves(tree[d] \cup {new}) \ {win} : Beats(win, r)
          /\ rev' = [rev EXCEPT ![d] = win]
    /\ changed' = [changed EXCEPT ![d] = seq + 1]

-----------------------------------------------------------------------------
\* Mutant: only the echo of the very revision is held back.
HoldsBackEchoesOnly(d, r) == announced[d] = r

\* Mutant: a sibling of the same generation is held back too.
HoldsBackSiblings(d, r) == announced[d] # NoRev /\ r.gen <= announced[d].gen

\* isAlreadyAnnounced(): this very revision, or one of an older generation than
\* the one announced.  A sibling of the same generation is news.
IsAlreadyAnnounced(d, r) ==
    /\ announced[d] # NoRev
    /\ announced[d] = r \/ r.gen < announced[d].gen

\* changesFeed.next() for each of these documents
Emit(docs, r) ==
    /\ view' = [d \in Docs |-> IF d \in docs THEN r[d] ELSE view[d]]
    /\ emitted' = [d \in Docs |-> IF d \in docs THEN emitted[d] \cup {r[d]}
                                                ELSE emitted[d]]

Known == {d \in Docs : announced[d] # NoRev}

\* announceOwnWrite().  The map is cleared when it is full.
Announce(d, r) ==
    IF IsAlreadyAnnounced(d, r)
    THEN UNCHANGED feedVars
    ELSE /\ announced' = [e \in Docs |->
               IF e = d THEN r
               ELSE IF Cardinality(Known) >= MaxAnnounced THEN NoRev
               ELSE announced[e]]
         /\ Emit({d}, [e \in Docs |-> r])

-----------------------------------------------------------------------------
(***************************************************************************)
(* Own writes: put(), remove() and the documents of putAll()               *)
(***************************************************************************)

\* The revision that is shown is saved or removed, or the document is saved with
\* forceOverwrite.
Put(w, d, kind) ==
    /\ write[w] = Idle
    /\ d \in Contended \/ ~ \E v \in Writes : write[v] # Idle /\ write[v].doc = d
    /\ view[d].deleted => kind = "overwrite"
    /\ write' = [write EXCEPT ![w] =
                    [pc |-> "sent", doc |-> d, kind |-> kind,
                     base |-> IF kind = "overwrite" THEN NoRev ELSE view[d]]]
    /\ UNCHANGED <<serverVars, poll, since, feedVars>>

\* A write must name a leaf, the winner or not; none if the document is deleted.
Accepted(w) ==
    LET d == write[w].doc
    IN \/ write[w].base \in Leaves(tree[d])
       \/ write[w].base = NoRev /\ rev[d].deleted

\* The server stores the document, as successor of the revision it is based on.
Store(w) ==
    /\ write[w].pc = "sent" /\ Accepted(w)
    /\ LET d == write[w].doc
           b == IF write[w].base = NoRev THEN rev[d] ELSE write[w].base
       IN \E new \in Successors(b, d, write[w].kind = "remove") :
             /\ AddRevision(d, new)
             /\ write' = [write EXCEPT ![w] = [pc |-> "answered", doc |-> d, base |-> new,
                                               kind |-> write[w].kind]]
    /\ UNCHANGED <<poll, since, feedVars>>

\* The server refuses it (409): remove() rejects, and so does resolveConflict(),
\* unless it was called with overwriteChanges.
Conflict(w) ==
    /\ write[w].pc = "sent" /\ ~Accepted(w)
    /\ write' = [write EXCEPT ![w] =
                    IF write[w].kind = "overwrite"
                    THEN [pc |-> "conflict", doc |-> write[w].doc, base |-> NoRev,
                          kind |-> "overwrite"]
                    ELSE Idle]
    /\ UNCHANGED <<serverVars, poll, since, feedVars>>

\* It then reads the revision there is now, and puts the document on top of that; if
\* the document has been deleted meanwhile, it rejects.
Overwrite(w) ==
    /\ write[w].pc = "conflict"
    /\ write' = [write EXCEPT ![w] =
                    IF rev[write[w].doc].deleted THEN Idle
                    ELSE [pc |-> "sent", doc |-> write[w].doc, kind |-> "save",
                          base |-> rev[write[w].doc]]]
    /\ UNCHANGED <<serverVars, poll, since, feedVars>>

\* The response arrives, the write is announced.
Stored(w) ==
    /\ write[w].pc = "answered"
    /\ Announce(write[w].doc, write[w].base)
    /\ write' = [write EXCEPT ![w] = Idle]
    /\ UNCHANGED <<serverVars, poll, since>>

\* A request or its response is lost: the promise rejects, nothing is announced.
WriteFails(w) ==
    /\ write[w] # Idle
    /\ write' = [write EXCEPT ![w] = Idle]
    /\ UNCHANGED <<serverVars, poll, since, feedVars>>

-----------------------------------------------------------------------------
\* Somebody else changes or deletes the document, or replicates a branch made from any
\* of its revisions, a step per revision.
OtherWrite(d) ==
    /\ \E b \in tree[d], deleted \in BOOLEAN : \E new \in Successors(b, d, deleted) :
          AddRevision(d, new)
    /\ UNCHANGED <<write, poll, since, feedVars>>

-----------------------------------------------------------------------------
(***************************************************************************)
(* The poll.  There is at most one (exhaustMap).                           *)
(***************************************************************************)

\* The server reads what has changed since lastSequence.
PollAnswered ==
    /\ poll = Idle
    /\ poll' = [pc |-> "answered", last |-> seq,
                results |-> [d \in Docs |-> IF changed[d] > since THEN rev[d] ELSE NoRev]]
    /\ UNCHANGED <<serverVars, write, since, feedVars>>

\* Its response arrives: what was not announced is emitted.
PollReturns ==
    /\ poll # Idle
    /\ Emit({d \in Docs : /\ poll.results[d] # NoRev
                          /\ ~IsAlreadyAnnounced(d, poll.results[d])}, poll.results)
    /\ since' = poll.last
    /\ poll' = Idle
    /\ UNCHANGED <<serverVars, write, announced>>

\* Mutant: a failed poll moves lastSequence on.
PollFailsForward ==
    /\ poll # Idle
    /\ since' = poll.last
    /\ poll' = Idle
    /\ UNCHANGED <<serverVars, write, feedVars>>

\* An error is swallowed, the next poll asks for the same changes.
PollFails ==
    /\ poll # Idle
    /\ poll' = Idle
    /\ UNCHANGED <<serverVars, write, since, feedVars>>

-----------------------------------------------------------------------------
OwnWrite(w) ==
    \/ \E d \in Docs, kind \in Kinds : Put(w, d, kind)
    \/ Store(w) \/ Conflict(w) \/ Overwrite(w) \/ Stored(w) \/ WriteFails(w)

Poll == PollAnswered \/ PollReturns \/ PollFails

Next ==
    \/ \E w \in Writes : OwnWrite(w)
    \/ \E d \in Contended : OtherWrite(d)
    \/ Poll

Spec == Init /\ [][Next]_vars

\* The timer polls again and again and not all polls fail; responses arrive.
FairSpec ==
    /\ Spec
    /\ WF_vars(PollAnswered)
    /\ SF_vars(PollReturns)
    /\ \A w \in Writes : WF_vars(Stored(w))

-----------------------------------------------------------------------------
(***************************************************************************)
(* Properties                                                              *)
(***************************************************************************)

\* Of a document with one writer at a time, subscribers never go back to a revision
\* that the shown one was made from, in whatever order the responses to polls and
\* writes arrive ("emitting a superseded revision after a newer one would leave
\* subscribers on stale data").
NeverOlder == [][\A d \in Docs \ Contended : ~Older(view'[d], view[d])]_vars

\* No poll takes subscribers back: what it has read of the server before an own
\* write and delivers after it is held back, whoever else writes meanwhile.
PollNeverOlder == [][PollReturns => \A d \in Docs : ~Older(view'[d], view[d])]_vars

\* When nobody writes any more, subscribers come to show what is on the server of
\* the documents with one writer at a time: a lost response or a failed poll is made
\* up for by a later poll.
OwnEventuallyCurrent == <>[](\A d \in Docs \ Contended : view[d] = rev[d])

\* The own write that was announced has been a deletion, or was deleted by somebody,
\* and a branch that is shorter than it has survived.
DeletedBranchOutlived(d) ==
    /\ rev[d].gen < announced[d].gen
    /\ \E r \in Leaves(tree[d]) :
          r.deleted /\ (r = announced[d] \/ Older(announced[d], r))

\* The revision that wins on the server is emitted: none is taken for an echo of
\* an own write that it has replaced.  Excepted is the winner that survives the
\* deletion of a longer branch, which the code takes for a superseded one.
WinnerIsEmitted == <>[](\A d \in Docs : rev[d] \in emitted[d] \/ DeletedBranchOutlived(d))
=============================================================================
