-------------------------- MODULE CascadingActions --------------------------
(***************************************************************************)
(* Deleting and anonymizing records together with the records that refer   *)
(* to them: EntityDeleteService and EntityAnonymizeService on top of       *)
(* CascadingEntityAction, as EntityActionsService starts and undoes them.  *)
(*                                                                         *)
(* The recursion of the code is a stack of frames, one for each record     *)
(* that is being processed; every write to the database is a step of its   *)
(* own, and other users edit records in between.  Each frame works on the  *)
(* instances it loaded when it began; a write of an instance whose _rev is *)
(* no longer the latest is refused (409).                                  *)
(*                                                                         *)
(* Of a record's data the model keeps its references to other records and  *)
(* whether personal data is left in it.  Array fields hold no duplicates.  *)
(* The loads of several entity types at the start of a frame are one step. *)
(***************************************************************************)
EXTENDS Integers, FiniteSets, Sequences, SequencesExt, FiniteSetsExt

CONSTANTS
    Entities,        \* ids, numbers in the order in which records are loaded
    Fields,          \* fields with references, a sequence in schema order
    Roles,           \* choices of the fields whose entityReferenceRole is "composite"
    Retained,        \* fields with anonymize: "retain"
    HasPII,          \* records of types with hasPII
    AccountHolders,  \* records of types with enableUserAccounts
    OwnEntity,       \* the record of the user
    MaxRefs,         \* bound: references at first
    MaxSelected,     \* bound: records selected for one action
    MaxDepth,        \* bound: depth of the recursion
    MaxEdits,        \* bound: edits by others during an action
    MaxFaults        \* bound: failures other than conflicts

ASSUME EntitiesAssumption ==
    Entities \subseteq Nat /\ IsFiniteSet(Entities) /\ HasPII \subseteq Entities
    /\ AccountHolders \subseteq Entities
FieldNames == {Fields[i] : i \in DOMAIN Fields}
ASSUME FieldsAssumption ==
    Fields \in Seq(FieldNames) /\ Roles \subseteq SUBSET FieldNames
    /\ Retained \subseteq FieldNames
ASSUME LimitsAssumption ==
    {MaxRefs, MaxSelected, MaxDepth, MaxEdits, MaxFaults} \subseteq Nat

VARIABLES
    composite,   \* fields with the role "composite"
    db,          \* the database: per entity the latest revision
    accounts,    \* records with a user account in Keycloak
    action,      \* the action of EntityActionsService, and what it has collected
    stack,       \* frames of the recursion, the innermost last
    edits, faults,
    \* history, read by properties only
    before,      \* the database when the action was started
    edited,      \* records others have edited since
    raced        \* records others have linked to since

envVars == <<composite, edits, faults, before, edited, raced>>
vars == <<envVars, db, accounts, action, stack>>

-----------------------------------------------------------------------------
Record == [exists : BOOLEAN, rev : Nat, refs : [FieldNames -> SUBSET Entities],
           personal : BOOLEAN, anonymized : BOOLEAN]

NoRefs == [f \in FieldNames |-> {}]
Missing == [exists |-> FALSE, rev |-> 0, refs |-> NoRefs, personal |-> FALSE,
            anonymized |-> FALSE]

\* CascadingActionResult: the original of a record that was not changed is Missing
Result == [originals : [Entities -> Record], retaining : SUBSET Entities]
NoResult == [originals |-> [e \in Entities |-> Missing], retaining |-> {}]

Step == [id : Entities, field : FieldNames]
Frame == [id : Entities, entity : Record, pc : {"begin", "load", "cascade"},
          affected : [Entities -> Record], todo : SUBSET Step, result : Result]

Action == [kind : {"none", "delete", "anonymize"},
           state : {"idle", "running", "done", "failed", "aborted",
                    "undoing", "overwriting", "undone", "undoFailed"},
           selected : Seq([id : Entities, entity : Record]), result : Result]
NoAction == [kind |-> "none", state |-> "idle", selected |-> <<>>, result |-> NoResult]

TypeOK ==
    /\ composite \in Roles
    /\ db \in [Entities -> Record] /\ before \in [Entities -> Record]
    /\ accounts \subseteq AccountHolders
    /\ action \in Action
    /\ stack \in Seq(Frame)
    /\ edits \in 0..MaxEdits /\ faults \in 0..MaxFaults
    /\ edited \subseteq Entities /\ raced \subseteq Entities

\* Entities e that refer to x in a field, in the database d
Refers(d, e, x, f) == d[e].exists /\ x \in d[e].refs[f]

Reference == Entities \X FieldNames \X Entities

Init ==
    /\ composite \in Roles
    /\ \E links \in UNION {kSubset(n, {r \in Reference : r[1] # r[3]}) : n \in 0..MaxRefs} :
          db = [e \in Entities |->
                  [Missing EXCEPT !.exists = TRUE, !.rev = 1, !.personal = e \in HasPII,
                     !.refs = [f \in FieldNames |->
                                 {x \in Entities : <<e, f, x>> \in links}]]]
    /\ accounts = AccountHolders
    /\ action = NoAction /\ stack = <<>>
    /\ edits = 0 /\ faults = 0
    /\ before = db /\ edited = {} /\ raced = {}

-----------------------------------------------------------------------------
\* Mutant: the states found later take the place of those found first.
MergeResultsLaterWins(r, other) ==
    [originals |-> [e \in Entities |-> IF other.originals[e].exists
                                       THEN other.originals[e] ELSE r.originals[e]],
     retaining |-> r.retaining \cup other.retaining]

\* mergeResults(): of a record found twice the state found first is kept.
MergeResults(r, other) ==
    [originals |-> [e \in Entities |-> IF r.originals[e].exists
                                       THEN r.originals[e] ELSE other.originals[e]],
     retaining |-> r.retaining \cup other.retaining]

Changed(e, original) == [NoResult EXCEPT !.originals[e] = original]

\* entityMapper.save(): refused unless the instance has the latest revision.
Saves(e, instance) == db[e].rev = instance.rev
Saved(instance) == [instance EXCEPT !.rev = @ + 1]

Top == stack[Len(stack)]
Caller == stack[Len(stack) - 1]
SetTop(frame) == [stack EXCEPT ![Len(stack)] = frame]

UseFault == faults < MaxFaults /\ faults' = faults + 1

\* Enter the recursion with an instance.
Push(e, instance, frames) ==
    /\ Len(frames) < MaxDepth
    /\ stack' = Append(frames,
          [id |-> e, entity |-> instance,
           pc |-> IF action.kind = "delete" /\ e \notin AccountHolders
                  THEN "load" ELSE "begin",
           affected |-> [x \in Entities |-> Missing], todo |-> {}, result |-> NoResult])

\* Return to the frame that called, which holds the same instance, or to the action.
Return(instance, result) ==
    IF Len(stack) = 1
    THEN /\ stack' = <<>>
         /\ action' = [action EXCEPT !.result = MergeResults(@, result)]
    ELSE /\ stack' = [Front(stack) EXCEPT ![Len(stack) - 1] =
                         [Caller EXCEPT !.affected[Top.id] = instance,
                                        !.result = MergeResults(@, result)]]
         /\ UNCHANGED action

\* An exception goes all the way up.
Throw(state) ==
    /\ stack' = <<>>
    /\ action' = [action EXCEPT !.state = state]

Running(kind) == action.state = "running" /\ action.kind = kind /\ stack # <<>>

-----------------------------------------------------------------------------
(***************************************************************************)
(* EntityActionsService: delete() and anonymize(), after the confirmation  *)
(***************************************************************************)
Start(kind) ==
    /\ action.state = "idle"
    /\ \E ids \in SeqOf(Entities, MaxSelected) :
          /\ ids # <<>> /\ IsInjective(ids)
          /\ action' = [action EXCEPT !.kind = kind, !.state = "running", !.selected =
                [i \in DOMAIN ids |-> [id |-> ids[i], entity |-> db[ids[i]]]]]
    /\ before' = db /\ edited' = {} /\ raced' = {}
    /\ UNCHANGED <<composite, edits, faults, db, accounts, stack>>

\* The next of the selected records
ProcessNext ==
    /\ action.state = "running" /\ stack = <<>> /\ action.selected # <<>>
    /\ LET next == Head(action.selected) IN Push(next.id, next.entity, <<>>)
    /\ action' = [action EXCEPT !.selected = Tail(@)]
    /\ UNCHANGED <<envVars, db, accounts>>

\* All are processed: the snackbar offers to undo that.
Complete ==
    /\ action.state = "running" /\ stack = <<>> /\ action.selected = <<>>
    /\ action' = [action EXCEPT !.state = "done"]
    /\ UNCHANGED <<envVars, db, accounts, stack>>

\* Originals the undo has to write over
Originals == {e \in Entities : action.result.originals[e].exists}

\* saveAll(previousEntitiesForUndo, true): documents that are deleted are stored
\* at once, the others conflict.
Undo ==
    /\ action.state = "done"
    /\ action' = [action EXCEPT !.state = "undoing"]
    /\ UNCHANGED <<envVars, db, accounts, stack>>

Restore(e) == [action.result.originals[e] EXCEPT !.rev = db[e].rev + 1]

UndoBulk ==
    /\ action.state = "undoing"
    /\ LET stored == {e \in Originals : ~db[e].exists}
       IN /\ db' = [e \in Entities |-> IF e \in stored THEN Restore(e) ELSE db[e]]
          /\ action' = [action EXCEPT !.state = "overwriting",
                          !.result.originals = [e \in Entities |->
                              IF e \in stored THEN Missing ELSE @[e]]]
    /\ UNCHANGED <<envVars, accounts, stack>>

\* resolveConflict() of one of the others: overwritten by force.
UndoOverwrite(e) ==
    /\ action.state = "overwriting" /\ e \in Originals
    /\ db' = [db EXCEPT ![e] = Restore(e)]
    /\ action' = [action EXCEPT !.result.originals[e] = Missing]
    /\ UNCHANGED <<envVars, accounts, stack>>

UndoCompletes ==
    /\ action.state = "overwriting" /\ Originals = {}
    /\ action' = [action EXCEPT !.state = "undone"]
    /\ UNCHANGED <<envVars, db, accounts, stack>>

UndoFails ==
    /\ action.state \in {"undoing", "overwriting"}
    /\ UseFault
    /\ action' = [action EXCEPT !.state = "undoFailed"]
    /\ UNCHANGED <<composite, edits, before, edited, raced, db, accounts, stack>>

-----------------------------------------------------------------------------
(***************************************************************************)
(* cascadeActionToRelatedEntities()                                        *)
(***************************************************************************)

\* loadAllLinkingToEntity()
LoadLinking ==
    /\ action.state = "running" /\ stack # <<>> /\ Top.pc = "load"
    /\ stack' = SetTop([Top EXCEPT !.pc = "cascade", !.affected = db,
                          !.todo = {s \in Step : Refers(db, s.id, Top.id, s.field)}])
    /\ UNCHANGED <<envVars, db, accounts, action>>

Cascading == Top.pc = "cascade" /\ Top.todo # {}

\* The next affected record and field: record by record, and field by field in the
\* order of the schema
Position(field) == CHOOSE i \in DOMAIN Fields : Fields[i] = field
Precedes(s, r) == s.id < r.id \/ (s.id = r.id /\ Position(s.field) <= Position(r.field))
Next1 == CHOOSE s \in Top.todo : \A r \in Top.todo : Precedes(s, r)
Affected == Top.affected[Next1.id]

\* Mutant: the reference need not be the only one.
IsOnlyCompositeOfAny == Next1.field \in composite

\* "is only composite".  A field that has been anonymized holds null, which
\* asArray() turns into an array with one item.
IsOnlyComposite ==
    Next1.field \in composite /\ Cardinality(Affected.refs[Next1.field]) <= 1

\* compositeAction(): the recursion
CompositeAction ==
    /\ action.state = "running" /\ stack # <<>> /\ Cascading
    /\ IsOnlyComposite
    /\ Push(Next1.id, Affected, SetTop([Top EXCEPT !.todo = @ \ {Next1}]))
    /\ UNCHANGED <<envVars, db, accounts, action>>

-----------------------------------------------------------------------------
(***************************************************************************)
(* EntityDeleteService                                                     *)
(***************************************************************************)

\* handleUserAccountDeletion(): there is none, the user keeps it, it cannot be
\* accessed or deleted, or it is deleted with the record.
HandleAccount ==
    /\ Running("delete") /\ Top.pc = "begin"
    /\ \/ UNCHANGED accounts
       \/ /\ Top.id \in accounts /\ Top.id # OwnEntity
          /\ accounts' = accounts \ {Top.id}
    /\ stack' = SetTop([Top EXCEPT !.pc = "load"])
    /\ UNCHANGED <<envVars, db, action>>

\* The own account blocks the deletion, the user cancels it, or Keycloak cannot be
\* reached: whatever has been deleted until then stays deleted.
AccountEndsDeletion ==
    /\ Running("delete") /\ Top.pc = "begin" /\ Top.id \in accounts
    /\ \/ Throw("aborted") /\ UNCHANGED faults
       \/ Throw("failed") /\ UseFault
    /\ UNCHANGED <<composite, edits, before, edited, raced, db, accounts>>

\* removeReferenceFromEntity()
RemoveReference ==
    /\ Running("delete") /\ Cascading /\ ~IsOnlyComposite
    /\ Saves(Next1.id, Affected)
    /\ LET changed == Saved([Affected EXCEPT !.refs[Next1.field] = @ \ {Top.id}])
       IN /\ db' = [db EXCEPT ![Next1.id] = changed]
          /\ stack' = SetTop([Top EXCEPT !.todo = @ \ {Next1}, !.affected[Next1.id] = changed,
                !.result = MergeResults(@,
                    [Changed(Next1.id, Affected) EXCEPT
                       !.retaining = {Next1.id} \cap HasPII])])
    /\ UNCHANGED <<envVars, accounts, action>>

Tombstone(e) == [Missing EXCEPT !.rev = db[e].rev + 1]

\* Mutant: the record is removed before anything that refers to it.
RemoveRecordFirst ==
    /\ Running("delete") /\ Top.pc = "cascade"
    /\ Saves(Top.id, Top.entity)
    /\ db' = [db EXCEPT ![Top.id] = Tombstone(Top.id)]
    /\ Return(Top.entity, MergeResults(Changed(Top.id, Top.entity), Top.result))
    /\ UNCHANGED <<envVars, accounts>>

\* Mutant: a changed record is removed all the same.
RemoveRecordForced ==
    /\ Running("delete") /\ Top.pc = "cascade" /\ Top.todo = {}
    /\ db' = [db EXCEPT ![Top.id] = Tombstone(Top.id)]
    /\ Return(Top.entity, MergeResults(Changed(Top.id, Top.entity), Top.result))
    /\ UNCHANGED <<envVars, accounts>>

\* After the cascade the record itself is removed, if nobody has changed it since
\* this instance was loaded.
RemoveRecord ==
    /\ Running("delete") /\ Top.pc = "cascade" /\ Top.todo = {}
    /\ Saves(Top.id, Top.entity)
    /\ db' = [db EXCEPT ![Top.id] = Tombstone(Top.id)]
    /\ Return(Top.entity, MergeResults(Changed(Top.id, Top.entity), Top.result))
    /\ UNCHANGED <<envVars, accounts>>

-----------------------------------------------------------------------------
(***************************************************************************)
(* EntityAnonymizeService                                                  *)
(***************************************************************************)
NothingToAnonymize == Top.entity.anonymized \/ Top.id \notin HasPII

SkipAnonymize ==
    /\ Running("anonymize") /\ Top.pc = "begin" /\ NothingToAnonymize
    /\ Return(Top.entity, NoResult)
    /\ UNCHANGED <<envVars, db, accounts>>

\* Mutant: the record is marked in the instance only until the cascade is over.
AnonymizeUnsaved ==
    /\ Running("anonymize") /\ Top.pc = "begin" /\ ~NothingToAnonymize
    /\ stack' = SetTop([Top EXCEPT !.pc = "load",
                          !.result = Changed(Top.id, Top.entity)])
    /\ UNCHANGED <<envVars, db, accounts, action>>

\* The record is saved without personal data before the cascade.
Anonymize ==
    /\ Running("anonymize") /\ Top.pc = "begin" /\ ~NothingToAnonymize
    /\ Saves(Top.id, Top.entity)
    /\ LET changed == Saved([Top.entity EXCEPT !.anonymized = TRUE, !.personal = FALSE,
                       !.refs = [f \in FieldNames |-> IF f \in Retained THEN @[f] ELSE {}]])
       IN /\ db' = [db EXCEPT ![Top.id] = changed]
          /\ stack' = SetTop([Top EXCEPT !.pc = "load", !.entity = changed,
                                !.result = Changed(Top.id, Top.entity)])
    /\ UNCHANGED <<envVars, accounts, action>>

\* Mutant: only records that refer to nothing else are reported.
KeepUnreported ==
    /\ Running("anonymize") /\ Cascading /\ ~IsOnlyComposite
    /\ stack' = SetTop([Top EXCEPT !.todo = @ \ {Next1}])
    /\ UNCHANGED <<envVars, db, accounts, action>>

\* keepEntityUnchanged(): the user is told of it.
KeepUnchanged ==
    /\ Running("anonymize") /\ Cascading /\ ~IsOnlyComposite
    /\ stack' = SetTop([Top EXCEPT !.todo = @ \ {Next1},
                          !.result.retaining = @ \cup ({Next1.id} \cap HasPII)])
    /\ UNCHANGED <<envVars, db, accounts, action>>

AnonymizeReturns ==
    /\ Running("anonymize") /\ Top.pc = "cascade" /\ Top.todo = {}
    /\ Return(Top.entity, Top.result)
    /\ UNCHANGED <<envVars, db, accounts>>

-----------------------------------------------------------------------------
\* The write that the innermost frame is about to make
Conflicts ==
    IF Top.pc = "cascade" /\ Top.todo # {}
    THEN action.kind = "delete" /\ ~IsOnlyComposite /\ ~Saves(Next1.id, Affected)
    ELSE /\ \/ action.kind = "delete" /\ Top.pc = "cascade"
            \/ action.kind = "anonymize" /\ Top.pc = "begin" /\ ~NothingToAnonymize
         /\ ~Saves(Top.id, Top.entity)

\* A write is refused, or a request fails: the action ends where it is, without an
\* offer to undo what it has done.
Fail ==
    /\ action.state = "running" /\ stack # <<>>
    /\ IF Conflicts THEN UNCHANGED faults ELSE UseFault
    /\ Throw("failed")
    /\ UNCHANGED <<composite, edits, before, edited, raced, db, accounts>>

\* Somebody else edits a record, and may add or remove a reference.
OtherEdit(e) ==
    /\ action.state \in {"running", "done"} /\ edits < MaxEdits
    /\ db[e].exists
    /\ \/ /\ db' = [db EXCEPT ![e].rev = @ + 1]
          /\ UNCHANGED raced
       \/ \E f \in FieldNames, x \in Entities \ {e} :
             /\ db[x].exists
             /\ db' = [db EXCEPT ![e].rev = @ + 1,
                          ![e].refs[f] = IF x \in @ THEN @ \ {x} ELSE @ \cup {x}]
             /\ raced' = raced \cup {x}
    /\ edits' = edits + 1 /\ edited' = edited \cup {e}
    /\ UNCHANGED <<composite, faults, before, accounts, action, stack>>

-----------------------------------------------------------------------------
ActionStep ==
    \/ ProcessNext \/ Complete
    \/ LoadLinking \/ CompositeAction
    \/ HandleAccount \/ RemoveReference \/ RemoveRecord
    \/ SkipAnonymize \/ Anonymize \/ KeepUnchanged \/ AnonymizeReturns

UndoStep == UndoBulk \/ (\E e \in Entities : UndoOverwrite(e)) \/ UndoCompletes

Next ==
    \/ Start("delete") \/ Start("anonymize") \/ Undo
    \/ ActionStep \/ AccountEndsDeletion \/ Fail
    \/ UndoStep \/ UndoFails
    \/ \E e \in Entities : OtherEdit(e)

Spec == Init /\ [][Next]_vars

-----------------------------------------------------------------------------
(***************************************************************************)
(* Properties                                                              *)
(***************************************************************************)

\* References are removed before the record they lead to: at no moment of a
\* deletion, also of one that fails or is aborted halfway, does a record refer to
\* one that is gone, unless somebody else has linked to it meanwhile.
NoDanglingReferences ==
    action.kind = "delete" /\ action.state \notin {"overwriting", "undoFailed"} =>
        \A e, x \in Entities, f \in FieldNames :
            Refers(db, e, x, f) => db[x].exists \/ x \in raced

Selected == {e \in Entities : e = stack[1].id}

\* A record nobody has selected is deleted only if one of its composite fields names
\* the record whose deletion led to it, and no other, in the revision that is deleted:
\* an edit of somebody else that adds another record to that field meanwhile saves it.
\* (Its other fields are not looked at: they may refer to anybody.)
OnlyPartsAreDeleted ==
    [][\A e \in Entities : db[e].exists /\ ~db'[e].exists /\ e \notin Selected =>
          \E f \in composite : db[e].refs[f] = {Caller.id}]_vars

\* What undoing a completed action brings back: every record that nobody else has
\* edited is as it was before, however often the cascade came across it.
UndoRestores ==
    action.state = "undone" =>
        \A e \in Entities \ edited :
            [db[e] EXCEPT !.rev = 0] = [before[e] EXCEPT !.rev = 0]

\* After an anonymization nobody has interfered with, each record with personal
\* data that referred to an anonymized one is anonymized too, or the user was told
\* to review it.
NothingPersonalOverlooked ==
    action.kind = "anonymize" /\ action.state = "done" /\ edited = {} =>
        \A a, e \in Entities, f \in FieldNames :
            db[a].anonymized /\ Refers(before, e, a, f) /\ db[e].personal
                => e \in action.result.retaining

\* A record is processed again while it is being processed.
Reentered ==
    \E i, j \in DOMAIN stack :
        i < j /\ stack[i].id = stack[j].id /\ stack[j].pc # "begin"

\* A cycle of related records does not lead an anonymization back into a record it
\* is still processing, however the records are edited meanwhile.
AnonymizingTerminatesOnCycles == action.kind = "anonymize" => ~Reentered

\* entity-anonymize.service.ts, of a cycle of related records that leads back to one
\* that has been processed: "deletion terminates naturally, because the record is gone
\* by then".
DeletionTerminatesOnCycles == action.kind = "delete" => ~Reentered
=============================================================================
