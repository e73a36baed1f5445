------------------------------- MODULE Import -------------------------------
(***************************************************************************)
(* An import of records from a file: ImportService with the services for   *)
(* existing records and for links, EntityMapperService.saveAll() and       *)
(* load(), and putAll() of the database, which a RemotePouchDatabase       *)
(* splits across requests.  And the undo of that import.                   *)
(*                                                                         *)
(* A record has one imported field.  A document is its revision number and *)
(* the value of that field; a link target is its revision and the links to *)
(* imported records it holds.  While the app awaits a request, others may  *)
(* change the same documents, and the link actions and the parts of the    *)
(* undo, which run concurrently, may.                                      *)
(***************************************************************************)
EXTENDS BulkWriteBatches, FiniteSets, SequencesExt

CONSTANTS
    File,         \* the records of the file, in order
    Existing,     \* those that match a record there is, which they update
    ByReference,  \* those of them whose imported value is an object: an array, a Date or
                  \* a location
    Targets,      \* other records, to which the imported ones may be linked
    Links,        \* the additional actions
    Target,       \* [Links -> Targets]
    Indirect,     \* the actions that create relationship records
    Sizes,        \* sizes the documents may have: functions on DOMAIN File
    MaxEdits,     \* bound: changes by others
    MaxFaults     \* bound: requests or responses that fail

Records == ToSet(File)

ASSUME FileAssumption ==
    /\ Existing \subseteq Records /\ ByReference \subseteq Existing
    /\ File \in Seq(Records)
    /\ \A i, j \in DOMAIN File : File[i] = File[j] => i = j
ASSUME LinksAssumption ==
    Target \in [Links -> Targets] /\ Indirect \subseteq Links
ASSUME SizesAssumption == Sizes \subseteq [DOMAIN File -> Nat]
ASSUME BoundsAssumption == MaxEdits \in Nat /\ MaxFaults \in Nat

VARIABLES
    \* the database
    db,         \* per record: revision and value
    target,     \* per target: revision, links in it, changes by others
    relations,  \* relationship records: pairs of action and record
    history,    \* the entry in the import history: {} or a set of one
    \* the app
    import,     \* the import
    entity,     \* the entities in memory: revision, value before the import
    link,       \* the additional actions
    undo,       \* the undo
    task,       \* its parts
    \* the environment
    setting,    \* sizes of the documents, and whether writes go to the server directly
    edits, faults,
    \* history, read by properties only
    written,    \* records that the import has stored
    lost,       \* those whose response was lost
    unrecorded  \* the history entry could not be saved

docVars == <<db, target, relations, history>>
appVars == <<import, entity, link>>
undoVars == <<undo, task>>
envVars == <<setting, edits, faults>>
ghostVars == <<written, lost, unrecorded>>
vars == <<docVars, appVars, undoVars, envVars, ghostVars>>

-----------------------------------------------------------------------------
Value == {"absent", "old", "imported", "edited"}

Entry == [created : SUBSET Records, updated : SUBSET Records]
NoEntry == [created |-> {}, updated |-> {}]

\* The parts of an undo, which run concurrently
Tasks == {<<"remove", r>> : r \in Records} \cup {<<"revert", r>> : r \in Existing}
            \cup {<<"unlink", l>> : l \in Links} \cup {<<"history">>}

Document == [rev : Nat, value : Value]
TargetDocument == [rev : Nat, links : SUBSET (Links \X Records), others : Nat]

ImportState ==
    [pc : {"prepare", "records", "links", "history", "reporting", "completed", "partial",
           "failed"},
     next : Nat, result : [Records -> {"none", "ok", "error"}],
     stopped : BOOLEAN, saved : SUBSET Records]
LinkState == [pc : {"off", "load", "save", "done", "failed"}, rev : Nat,
              seen : SUBSET (Links \X Records), others : Nat]
TaskState == [pc : {"off", "load", "write", "done", "failed"}, rev : Nat, value : Value,
              seen : SUBSET (Links \X Records), others : Nat]

TypeOK ==
    /\ db \in [Records -> Document]
    /\ target \in [Targets -> TargetDocument]
    /\ relations \subseteq Links \X Records
    /\ history \subseteq Entry /\ Cardinality(history) <= 1
    /\ import \in ImportState
    /\ entity \in [Records -> [rev : Nat, previous : Value]]
    /\ link \in [Links -> LinkState]
    /\ undo \in [pc : {"none", "running", "undone", "failed"}, item : Entry]
    /\ task \in [Tasks -> TaskState]
    /\ setting \in [size : Sizes, remote : BOOLEAN]
    /\ edits \in Nat /\ faults \in Nat
    /\ written \subseteq Records /\ lost \subseteq Records /\ unrecorded \in BOOLEAN

NoLink == [pc |-> "off", rev |-> 0, seen |-> {}, others |-> 0]
NoTask == [pc |-> "off", rev |-> 0, value |-> "absent", seen |-> {}, others |-> 0]

Init ==
    /\ setting \in [size : Sizes, remote : BOOLEAN]
    /\ db = [r \in Records |-> IF r \in Existing THEN [rev |-> 1, value |-> "old"]
                               ELSE [rev |-> 0, value |-> "absent"]]
    /\ target = [t \in Targets |-> [rev |-> 1, links |-> {}, others |-> 0]]
    /\ relations = {} /\ history = {}
    /\ import = [pc |-> "prepare", next |-> 1, result |-> [r \in Records |-> "none"],
                 stopped |-> FALSE, saved |-> {}]
    /\ entity = [r \in Records |-> [rev |-> 0, previous |-> "absent"]]
    /\ link = [l \in Links |-> NoLink]
    /\ undo = [pc |-> "none", item |-> NoEntry]
    /\ task = [t \in Tasks |-> NoTask]
    /\ edits = 0 /\ faults = 0
    /\ written = {} /\ lost = {} /\ unrecorded = FALSE

-----------------------------------------------------------------------------
(***************************************************************************)
(* Others                                                                  *)
(***************************************************************************)
UseEdit == edits < MaxEdits /\ edits' = edits + 1

\* A record is changed, in the imported field or elsewhere, or deleted.
OtherEdit(r) ==
    /\ UseEdit
    /\ db[r].value # "absent"
    /\ \E value \in {db[r].value, "edited", "absent"} :
          db' = [db EXCEPT ![r] = [rev |-> db[r].rev + 1, value |-> value]]
    /\ UNCHANGED <<target, relations, history, appVars, undoVars, setting, faults,
                   ghostVars>>

\* A link target is changed, e.g. another record is linked to it.
OtherLink(t) ==
    /\ UseEdit
    /\ target' = [target EXCEPT ![t].rev = @ + 1, ![t].others = @ + 1]
    /\ UNCHANGED <<db, relations, history, appVars, undoVars, setting, faults, ghostVars>>

\* A request fails.  The server may have done what it asks for, and the response is lost.
RequestFails == faults < MaxFaults /\ faults' = faults + 1
ResponseLost == setting.remote /\ RequestFails

-----------------------------------------------------------------------------
(***************************************************************************)
(* The import                                                              *)
(***************************************************************************)
Requests ==
    LET split == SplitIntoRequests(setting.size)
    IN IF setting.remote /\ Len(split) > 1 THEN split ELSE <<[i \in DOMAIN File |-> i]>>

\* transformRawDataToEntities(): records that match an existing one are that one, with
\* the imported value; the value before is kept for an undo.
Prepare ==
    /\ import.pc = "prepare"
    /\ \A r \in Existing : db[r].value # "absent"
    /\ entity' = [r \in Records |-> [rev |-> db[r].rev, previous |-> db[r].value]]
    /\ import' = [import EXCEPT !.pc = "records"]
    /\ UNCHANGED <<docVars, link, undoVars, envVars, ghostVars>>

\* Mutant: results are matched by position, in a list without the failed ones.
ApplyRevisionsShifted(result, d) ==
    entity' = [r \in Records |->
        IF result[r] = "ok" /\ \A q \in Records : result[q] # "error"
        THEN [entity[r] EXCEPT !.rev = d[r].rev] ELSE entity[r]]

\* applyStoredRevisions(): stored entities get the revision of their document.
ApplyStoredRevisions(result, d) ==
    entity' = [r \in Records |->
        IF result[r] = "ok" THEN [entity[r] EXCEPT !.rev = d[r].rev] ELSE entity[r]]

\* Mutant: a request that failed as a whole hides what the earlier ones have stored.
SettledPlain(i) ==
    LET ok == {r \in Records : i.result[r] = "ok"}
    IN IF ok = Records THEN [i EXCEPT !.pc = "links", !.saved = ok]
       ELSE IF ok = {} \/ i.stopped THEN [i EXCEPT !.pc = "failed"]
       ELSE [i EXCEPT !.pc = "reporting", !.saved = ok]

\* putAll() of all the records settles: it resolves, rejects with the results or with
\* a PartialBulkWriteError, or with the failure itself when nothing is stored.  The
\* records that are marked as stored are to be reported.
Settled(i) ==
    LET ok == {r \in Records : i.result[r] = "ok"}
    IN IF ok = Records THEN [i EXCEPT !.pc = "links", !.saved = ok]
       ELSE IF ok = {} THEN [i EXCEPT !.pc = "failed"]
       ELSE [i EXCEPT !.pc = "reporting", !.saved = ok]

\* The link actions start together, or there are none.
StartLinks(i) ==
    /\ import' = IF i.pc = "links" /\ Links = {} THEN [i EXCEPT !.pc = "history"] ELSE i
    /\ link' = IF i.pc # "links" THEN link
               ELSE [l \in Links |-> [NoLink EXCEPT !.pc = IF l \in Indirect THEN "save"
                                                                           ELSE "load"]]

MoreRequests(i) == i.next <= Len(Requests) /\ ~i.stopped

\* The import goes on with the next request, or its write has settled.
Proceed(i, d) ==
    IF MoreRequests(i)
    THEN import' = i /\ UNCHANGED <<entity, link>>
    ELSE StartLinks(Settled(i)) /\ ApplyStoredRevisions(i.result, d)

\* The documents of a request that the database stores: those of the revision it has
Fitting(docs) == {r \in docs : db[r].rev = entity[r].rev}

StoreDocs(docs) ==
    [r \in Records |-> IF r \in docs THEN [rev |-> db[r].rev + 1, value |-> "imported"]
                                     ELSE db[r]]

NextDocs == {File[i] : i \in ToSet(Requests[import.next])}

\* One request: conflicts are not resolved, and the server may refuse documents.
WriteRequest ==
    /\ import.pc = "records"
    /\ \E refused \in SUBSET NextDocs :
          /\ IF refused = {} THEN UNCHANGED faults ELSE setting.remote /\ RequestFails
          /\ LET stored == Fitting(NextDocs \ refused)
                 result == [r \in Records |-> IF r \in stored THEN "ok"
                                              ELSE IF r \in NextDocs THEN "error"
                                              ELSE import.result[r]]
             IN /\ db' = StoreDocs(stored)
                /\ written' = written \cup stored
                /\ Proceed([import EXCEPT !.next = @ + 1, !.result = result], db')
    /\ UNCHANGED <<target, relations, history, undoVars, setting, edits, lost, unrecorded>>

\* The request as a whole fails: later ones are not sent.
WriteRequestFails ==
    /\ import.pc = "records"
    /\ \/ RequestFails /\ UNCHANGED <<db, written, lost>>
       \/ /\ ResponseLost
          /\ db' = StoreDocs(Fitting(NextDocs))
          /\ written' = written \cup Fitting(NextDocs)
          /\ lost' = lost \cup Fitting(NextDocs)
    /\ Proceed([import EXCEPT !.stopped = TRUE], db)
    /\ UNCHANGED <<target, relations, history, undoVars, setting, edits, unrecorded>>

\* saveAll() checks the permissions of all records before it writes any.
PermissionDenied ==
    /\ import.pc = "records" /\ import.next = 1
    /\ RequestFails
    /\ import' = [import EXCEPT !.pc = "failed"]
    /\ UNCHANGED <<docVars, entity, link, undoVars, setting, edits, ghostVars>>

\* Promise.all() of the link actions: the import goes on when all are done, or as soon
\* as one has failed, while the others are still under way.
LinkEnds(l, pc) ==
    /\ link' = [link EXCEPT ![l] = [NoLink EXCEPT !.pc = pc]]
    /\ import' =
          IF import.pc # "links" THEN import
          ELSE IF pc = "failed" THEN [import EXCEPT !.pc = "reporting"]
          ELSE IF \A k \in Links \ {l} : link[k].pc = "done"
               THEN [import EXCEPT !.pc = "history"] ELSE import

\* linkDirectly() loads the target ...
LoadTarget(l) ==
    /\ link[l].pc = "load"
    /\ LET t == target[Target[l]]
       IN link' = [link EXCEPT ![l] =
                      [pc |-> "save", rev |-> t.rev, seen |-> t.links, others |-> t.others]]
    /\ UNCHANGED <<docVars, import, entity, undoVars, envVars, ghostVars>>

\* A target with these links, as it was seen otherwise
NewTarget(seen, links) == [rev |-> seen.rev + 1, links |-> links, others |-> seen.others]

\* ... and saves it with the links, unless it was changed in between.
SaveTarget(l) ==
    /\ link[l].pc = "save" /\ l \notin Indirect
    /\ LET t == Target[l]
           new == NewTarget(link[l], link[l].seen \cup {<<l, r>> : r \in Records})
           fits == target[t].rev = link[l].rev
       IN \/ /\ target' = IF fits THEN [target EXCEPT ![t] = new] ELSE target
             /\ LinkEnds(l, IF fits THEN "done" ELSE "failed")
             /\ UNCHANGED faults
          \/ /\ ResponseLost /\ fits
             /\ target' = [target EXCEPT ![t] = new]
             /\ LinkEnds(l, "failed")
    /\ UNCHANGED <<db, relations, history, entity, undoVars, setting, edits, ghostVars>>

\* linkIndirectly() saves a relationship record for each imported one.  When saveAll()
\* rejects, some of them may be stored.
SaveRelations(l) ==
    /\ link[l].pc = "save" /\ l \in Indirect
    /\ \E stored \in SUBSET Records :
          /\ relations' = relations \cup {<<l, r>> : r \in stored}
          /\ \/ stored = Records /\ LinkEnds(l, "done") /\ UNCHANGED faults
             \/ stored # Records /\ RequestFails /\ LinkEnds(l, "failed")
             \/ ResponseLost /\ LinkEnds(l, "failed")
    /\ UNCHANGED <<db, target, history, entity, undoVars, setting, edits, ghostVars>>

LinkFails(l) ==
    /\ link[l].pc \in {"load", "save"}
    /\ RequestFails
    /\ LinkEnds(l, "failed")
    /\ UNCHANGED <<docVars, entity, undoVars, setting, edits, ghostVars>>

\* Mutant: all the records of the import are listed as created.
EntryAllCreated(saved) == [created |-> saved, updated |-> {}]

\* The history entry for these records: what was updated is not listed as created.
EntryFor(saved) == [created |-> saved \ Existing, updated |-> saved \cap Existing]

\* saveImportHistory(), for a complete import or a partial one
SaveHistory ==
    /\ import.pc \in {"history", "reporting"}
    /\ history' = {EntryFor(import.saved)}
    /\ import' = [import EXCEPT !.pc = IF import.pc = "history" THEN "completed"
                                                                ELSE "partial"]
    /\ UNCHANGED <<db, target, relations, entity, link, undoVars, envVars, ghostVars>>

\* It fails: executeImport() rejects with the failure, reportPartialImport() goes on.
SaveHistoryFails ==
    /\ import.pc \in {"history", "reporting"}
    /\ \/ RequestFails /\ UNCHANGED history
       \/ ResponseLost /\ history' = {EntryFor(import.saved)}
    /\ import' = [import EXCEPT !.pc = IF import.pc = "history" THEN "failed"
                                                                ELSE "partial"]
    /\ unrecorded' = TRUE
    /\ UNCHANGED <<db, target, relations, entity, link, undoVars, setting, edits,
                   written, lost>>

-----------------------------------------------------------------------------
(***************************************************************************)
(* undoImport(): all its parts run concurrently.                           *)
(***************************************************************************)
\* Mutant: the links are left.
PartsOfRecords(item) == {t \in Tasks : \/ t[1] = "remove" /\ t[2] \in item.created
                                       \/ t[1] = "revert" /\ t[2] \in item.updated
                                       \/ t[1] = "history"}

PartsOf(item) == {t \in Tasks : \/ t[1] = "remove" /\ t[2] \in item.created
                                \/ t[1] = "revert" /\ t[2] \in item.updated
                                \/ t[1] \in {"unlink", "history"}}

\* The user undoes an import that is listed in the history.
UndoImport ==
    /\ undo.pc = "none" /\ history # {}
    /\ import.pc \in {"completed", "partial", "failed"}
    /\ LET item == CHOOSE e \in history : TRUE
       IN /\ undo' = [pc |-> "running", item |-> item]
          /\ task' = [t \in Tasks |->
                IF t \notin PartsOf(item) THEN NoTask
                ELSE [NoTask EXCEPT !.pc = IF t[1] = "history" THEN "write" ELSE "load"]]
    /\ UNCHANGED <<docVars, appVars, envVars, ghostVars>>

\* A part is over; failures other than those of a removal make the undo reject at once.
TaskEnds(t, ok) ==
    LET pc == IF ok \/ t[1] = "remove" THEN "done" ELSE "failed"
    IN /\ task' = [task EXCEPT ![t] = [NoTask EXCEPT !.pc = pc]]
       /\ undo' = [undo EXCEPT !.pc =
                      IF @ # "running" THEN @
                      ELSE IF pc = "failed" THEN "failed"
                      ELSE IF \A s \in Tasks \ {t} : task[s].pc \in {"off", "done"}
                           THEN "undone" ELSE @]

\* entityMapper.load() of the record to remove or to revert, which may be gone
LoadRecord(t, r) ==
    /\ t \in {<<"remove", r>>, <<"revert", r>>} /\ task[t].pc = "load"
    /\ IF db[r].value = "absent" THEN TaskEnds(t, FALSE)
       ELSE /\ task' = [task EXCEPT ![t] = [NoTask EXCEPT !.pc = "write",
                                               !.rev = db[r].rev, !.value = db[r].value]]
            /\ UNCHANGED undo
    /\ UNCHANGED <<docVars, appVars, envVars, ghostVars>>

\* Mutant: the value is reverted whatever it is now.
UndoneValueAlways(r, value) == entity[r].previous

\* The value that undoImport() saves: the previous one, unless it was changed since.
\* Values are compared with ===, so objects are never found equal.
UndoneValue(r, value) ==
    IF value = "imported" /\ r \notin ByReference THEN entity[r].previous ELSE value

\* The record is removed, or saved as it was before, unless it has changed in between.
WriteRecord(t, r) ==
    /\ t \in {<<"remove", r>>, <<"revert", r>>} /\ task[t].pc = "write"
    /\ LET value == IF t[1] = "remove" THEN "absent" ELSE UndoneValue(r, task[t].value)
           fits == db[r].rev = task[t].rev
       IN /\ db' = IF fits THEN [db EXCEPT ![r] = [rev |-> db[r].rev + 1, value |-> value]]
                   ELSE db
          /\ \/ TaskEnds(t, fits) /\ UNCHANGED faults
             \/ TaskEnds(t, FALSE) /\ fits /\ ResponseLost
    /\ UNCHANGED <<target, relations, history, appVars, setting, edits, ghostVars>>

\* undoLinkDirectly() and undoLinkIndirectly() load the target or the relations ...
LoadLinks(l) ==
    /\ task[<<"unlink", l>>].pc = "load"
    /\ LET t == target[Target[l]]
       IN task' = [task EXCEPT ![<<"unlink", l>>] =
             IF l \in Indirect
             THEN [NoTask EXCEPT !.pc = "write",
                      !.seen = {x \in relations : x[1] = l /\ x[2] \in undo.item.created}]
             ELSE [NoTask EXCEPT !.pc = "write", !.rev = t.rev, !.seen = t.links,
                      !.others = t.others]]
    /\ UNCHANGED <<docVars, appVars, undo, envVars, ghostVars>>

\* ... and save the target without links to created records,
WriteLinks(l) ==
    LET t == Target[l]
        seen == task[<<"unlink", l>>]
        new == NewTarget(seen, seen.seen \ {<<l, r>> : r \in undo.item.created})
        fits == target[t].rev = seen.rev
    IN /\ seen.pc = "write" /\ l \notin Indirect
       /\ target' = IF fits THEN [target EXCEPT ![t] = new] ELSE target
       /\ \/ TaskEnds(<<"unlink", l>>, fits) /\ UNCHANGED faults
          \/ TaskEnds(<<"unlink", l>>, FALSE) /\ fits /\ ResponseLost
       /\ UNCHANGED <<db, relations, history, appVars, setting, edits, ghostVars>>

\* or remove these relations, of which some requests may fail.
RemoveRelations(l) ==
    LET seen == task[<<"unlink", l>>]
    IN /\ seen.pc = "write" /\ l \in Indirect
       /\ \/ /\ relations' = relations \ seen.seen
             /\ TaskEnds(<<"unlink", l>>, TRUE)
             /\ UNCHANGED faults
          \/ \E kept \in SUBSET seen.seen :
                /\ relations' = relations \ (seen.seen \ kept)
                /\ TaskEnds(<<"unlink", l>>, FALSE)
                /\ RequestFails
       /\ UNCHANGED <<db, target, history, appVars, setting, edits, ghostVars>>

RemoveHistory ==
    /\ task[<<"history">>].pc = "write"
    /\ history' = {}
    /\ TaskEnds(<<"history">>, TRUE)
    /\ UNCHANGED <<db, target, relations, appVars, envVars, ghostVars>>

\* A request of one part fails.
TaskFails(t) ==
    /\ task[t].pc \in {"load", "write"}
    /\ RequestFails
    /\ TaskEnds(t, FALSE)
    /\ UNCHANGED <<docVars, appVars, setting, edits, ghostVars>>

-----------------------------------------------------------------------------
Write == Prepare \/ WriteRequest \/ WriteRequestFails \/ PermissionDenied

Link(l) == LoadTarget(l) \/ SaveTarget(l) \/ SaveRelations(l) \/ LinkFails(l)

Undo ==
    \/ UndoImport
    \/ \E t \in Tasks : TaskFails(t) \/ \E r \in Records : LoadRecord(t, r) \/ WriteRecord(t, r)
    \/ \E l \in Links : LoadLinks(l) \/ WriteLinks(l) \/ RemoveRelations(l)
    \/ RemoveHistory

Others == (\E r \in Existing \cup written : OtherEdit(r)) \/ (\E t \in Targets : OtherLink(t))

Next == Write \/ (\E l \in Links : Link(l)) \/ SaveHistory \/ SaveHistoryFails \/ Undo \/ Others

Spec == Init /\ [][Next]_vars

-----------------------------------------------------------------------------
(***************************************************************************)
(* Properties                                                              *)
(***************************************************************************)

\* The write of the records has settled.
WriteIsOver == import.pc \notin {"prepare", "records"}

\* Requests cover the write, in order, and stay within the limits.
RequestsAreASplit == IsSplit(setting.size, SplitIntoRequests(setting.size))

\* The app knows which records are stored, whatever documents and requests fail: those
\* that the import has written, apart from those whose response was lost.
StoredAreReported == WriteIsOver => import.saved = written \ lost

\* As long as nobody else writes, an imported record is at the revision the app knows,
\* whatever documents and requests fail: its next save does not conflict with the
\* import's own write.
NextSaveFits ==
    WriteIsOver /\ undo.pc = "none" /\ edits = 0
        => \A r \in import.saved : entity[r].rev = db[r].rev

\* What the import has stored can be recognised and undone: the history lists it, as
\* created or updated, unless a response was lost or the entry itself was not saved.
StoredAreInHistory ==
    import.pc \in {"completed", "partial", "failed"} /\ undo.pc = "none" /\ ~unrecorded
        => \A r \in written \ lost : \E e \in history :
              IF r \in Existing THEN r \in e.updated ELSE r \in e.created

\* Only others delete a record that existed before the import, and neither the import
\* nor its undo writes over what others have changed since it read it.
OthersChangesSurvive ==
    [][edits' = edits =>
          /\ \A r \in Existing : db[r].value # "absent" => db'[r].value # "absent"
          /\ \A r \in Existing : db[r].value = "edited" /\ entity[r].previous # "edited"
                => db'[r].value = "edited"
          /\ \A t \in Targets : target'[t].others = target[t].others]_vars

\* No two actions link records to the same target directly; the second would fail.
DistinctTargets == \A k, l \in Links \ Indirect : Target[k] = Target[l] => k = l

\* An undo that resolves has taken back every imported value that it compares by value,
\* whoever interfered and whatever failed, and the history entry.  It leaves nothing of
\* the import, links to updated records and values compared by reference apart, as long
\* as no link action was still under way, nothing failed and nobody interfered.
UndoneIsGone ==
    undo.pc = "undone" =>
        /\ \A r \in undo.item.updated \ ByReference : db[r].value # "imported"
        /\ history = {}
        /\ edits = 0 /\ faults = 0 /\ DistinctTargets =>
              /\ \A r \in Records \ ByReference :
                    db[r].value = IF r \in Existing THEN "old" ELSE "absent"
              /\ \A x \in relations : x[2] \in Existing
              /\ \A t \in Targets : \A x \in target[t].links : x[2] \in Existing
=============================================================================
