------------------------- MODULE CouchdbFileService -------------------------
(***************************************************************************)
(* File attachments of records: CouchdbFileService with its ObservableQueue, *)
(* the EditFileComponent that uses it, and what deleting and anonymizing   *)
(* a record does to its files.                                             *)
(*                                                                         *)
(* A record's field holds the name of a file; the file itself is an        *)
(* attachment of a document on the server, one document for each record.   *)
(* A file is named after the job that uploads it.                          *)
(***************************************************************************)
EXTENDS Naturals, Sequences, FiniteSetsExt

CONSTANTS
    Records,
    Fields,        \* of the "file" datatype or one that extends it
    PhotoFields,   \* those of the "photo" datatype
    MaxJobs,       \* bound: jobs
    MaxFaults      \* bound: requests that fail and changes by other clients

\* The records of a type without such a field are of no concern to the service.
ASSUME FieldsAssumption == PhotoFields \subseteq Fields /\ Fields # {}
ASSUME BoundsAssumption == MaxJobs \in Nat /\ MaxFaults \in Nat

VARIABLES
    \* on the server
    docs,       \* the attachments document of each record
    \* the records
    value,      \* the file that a field names
    deleted,    \* records that are deleted
    \* the client
    jobs,       \* the jobs of the ObservableQueue, in the order they were added
    cache,      \* the upload that the cached image of a field comes from
    initial,    \* initialValue of the field's EditFileComponent
    reverts,    \* failed jobs for which revertEntityChanges() is about to load the record
    copies,     \* records that a job is about to save: with which name in its field
    faults,
    \* history, read by properties only
    rerun,      \* fields that a job has changed which had been reported as failed
    raced,      \* fields for which showing an image has run an upload again
    lost,       \* fields of a request that succeeded without the client knowing
    overlapped, \* fields that were changed while a change of theirs was under way
    unsaved,    \* fields whose name could not be saved, see SaveRecord and RevertFails
    anonymized  \* fields that were emptied by anonymizing the record

historyVars == <<rerun, raced, lost, overlapped, unsaved, anonymized>>
vars == <<docs, value, deleted, jobs, cache, initial, reverts, copies, faults, historyVars>>

-----------------------------------------------------------------------------
Paths == Records \X Fields
NoFile == 0
OldFile == MaxJobs + 1
Files == 0..(MaxJobs + 1)

Kinds == {"upload", "remove", "anonymize", "removeAll"}

Job == [kind : Kinds, path : Paths, status : {"new", "waiting", "running", "failed", "done"},
        step : {"sync", "get", "create", "change"}, rev : Nat, told : BOOLEAN,
        synced : {"pending", "yes", "no"}]

TypeOK ==
    /\ docs \in [Records -> [exists : BOOLEAN, rev : Nat, files : [Fields -> Files]]]
    /\ \A r \in Records : ~docs[r].exists => \A f \in Fields : docs[r].files[f] = NoFile
    /\ value \in [Paths -> Files] /\ deleted \subseteq Records
    /\ jobs \in Seq(Job) /\ Len(jobs) <= MaxJobs
    /\ cache \in [Paths -> 0..MaxJobs] /\ \A p \in Paths : cache[p] <= Len(jobs)
    /\ initial \in [Paths -> Files]
    /\ reverts \subseteq DOMAIN jobs /\ copies \subseteq (DOMAIN jobs) \X Files
    /\ faults \in 0..MaxFaults
    /\ \A paths \in {rerun, raced, lost, overlapped, unsaved, anonymized} :
          paths \subseteq Paths

NoFiles == [f \in Fields |-> NoFile]

\* Some fields have a file already.
Init ==
    /\ docs \in [Records -> {[exists |-> FALSE, rev |-> 0, files |-> NoFiles]} \cup
                            {[exists |-> TRUE, rev |-> 1, files |-> [f \in Fields |->
                              IF f \in present THEN OldFile ELSE NoFile]] :
                             present \in SUBSET Fields}]
    /\ value = [p \in Paths |-> docs[p[1]].files[p[2]]]
    /\ initial = value
    /\ deleted = {} /\ jobs = <<>> /\ cache = [p \in Paths |-> 0]
    /\ reverts = {} /\ copies = {} /\ faults = 0
    /\ rerun = {} /\ raced = {} /\ lost = {} /\ overlapped = {} /\ unsaved = {}
    /\ anonymized = {}

-----------------------------------------------------------------------------
(***************************************************************************)
(* The ObservableQueue                                                     *)
(***************************************************************************)
Settled(n) == jobs[n].status \in {"failed", "done"}

Start(job) == [job EXCEPT !.status = "running",
                          !.step = IF job.kind = "upload" THEN "sync" ELSE "get"]

\* Mutant: every job that has failed runs again, not only the ones right before.
SubscribeAll(js, n) ==
    LET again == {k \in 1..n : js[k].status \in {"new", "failed"}}
    IN [k \in DOMAIN js |->
          IF k \notin again THEN js[k]
          ELSE IF \A i \in again : i >= k
               THEN Start(js[k]) ELSE [js[k] EXCEPT !.status = "waiting"]]

\* Mutant: shareReplay() is missing.
SubscribeUnshared(js, n) ==
    LET again == {k \in 1..n : \A i \in k..n : js[i].status \in {"new", "failed", "done"}}
    IN [k \in DOMAIN js |->
          IF k \notin again THEN js[k]
          ELSE IF k = Min(again) /\ (k = 1 \/ js[k - 1].status = "done")
               THEN Start(js[k]) ELSE [js[k] EXCEPT !.status = "waiting"]]

\* Somebody subscribes to the n-th job.  shareReplay() shares a job that is waiting or
\* running and replays one that is done, but starts one that has failed again; a job
\* subscribes to the one before it.
Subscribe(js, n) ==
    LET again == {k \in 1..n : \A i \in k..n : js[i].status \in {"new", "failed"}}
    IN [k \in DOMAIN js |->
          IF k \notin again THEN js[k]
          ELSE IF k = 1 \/ js[k - 1].status = "done"
               THEN Start(js[k]) ELSE [js[k] EXCEPT !.status = "waiting"]]

\* Mutant: the error of a job is not caught in the queue.
SettleUncaught(n, status) ==
    [k \in DOMAIN jobs |->
        IF k = n THEN [jobs[k] EXCEPT !.status = status, !.told = TRUE]
        ELSE IF k = n + 1 /\ jobs[k].status = "waiting" /\ status = "done"
             THEN Start(jobs[k]) ELSE jobs[k]]

\* A job ends: the next one starts, whether it has failed or not.
Settle(n, status) ==
    [k \in DOMAIN jobs |->
        IF k = n THEN [jobs[k] EXCEPT !.status = status, !.told = TRUE]
        ELSE IF k = n + 1 /\ jobs[k].status = "waiting" THEN Start(jobs[k])
        ELSE jobs[k]]

\* add() and subscribe().  ensureSynced() is called here already, for an upload.
Add(kind, p) ==
    /\ Len(jobs) < MaxJobs
    /\ jobs' = Subscribe(Append(jobs,
                    [kind |-> kind, path |-> p, status |-> "new", step |-> "get", rev |-> 0,
                     told |-> FALSE, synced |-> IF kind = "upload" THEN "pending" ELSE "yes"]),
                 Len(jobs) + 1)

\* Whether a job changes this field
Concerns(n, p) ==
    IF jobs[n].kind = "removeAll" THEN jobs[n].path[1] = p[1] ELSE jobs[n].path = p

PathsOf(n) == {p \in Paths : Concerns(n, p)}

\* Nothing is under way for this field.
Idle(p) ==
    /\ \A n \in reverts \cup {c[1] : c \in copies} : jobs[n].path # p
    /\ \A n \in DOMAIN jobs : Concerns(n, p) => Settled(n)

-----------------------------------------------------------------------------
(***************************************************************************)
(* What the user does                                                      *)
(***************************************************************************)
Overlaps(p) == overlapped' = IF Idle(p) THEN overlapped ELSE overlapped \cup {p}

\* The record is saved, from these copies or from none.  The revision of the others is
\* outdated then: their saves are going to be refused.
SaveRecord(r, saved) ==
    LET held == {c \in copies : jobs[c[1]].path[1] = r}
    IN /\ copies' = copies \ held
       /\ unsaved' = unsaved \cup {jobs[c[1]].path : c \in held \ saved}

\* The form is saved with a new file: saveNewFile() and uploadFile().
UploadFile(p) ==
    /\ p[1] \notin deleted
    /\ Add("upload", p)
    /\ value' = [value EXCEPT ![p] = Len(jobs')]
    /\ cache' = [cache EXCEPT ![p] = Len(jobs')]
    /\ Overlaps(p) /\ SaveRecord(p[1], {})
    /\ UNCHANGED <<docs, deleted, initial, reverts, faults, rerun, raced, lost,
                   anonymized>>

\* The form is saved without the file it had: deleteExistingFile() and removeFile().
RemoveFile(p) ==
    /\ p[1] \notin deleted
    /\ initial[p] # NoFile
    /\ Add("remove", p)
    /\ value' = [value EXCEPT ![p] = NoFile]
    /\ Overlaps(p) /\ SaveRecord(p[1], {})
    /\ UNCHANGED <<docs, deleted, cache, initial, reverts, faults, rerun, raced,
                   lost, anonymized>>

\* The record is deleted, here or elsewhere: removeAllFiles().
DeleteRecord(r) ==
    /\ r \notin deleted /\ deleted' = deleted \cup {r}
    /\ Add("removeAll", <<r, CHOOSE f \in Fields : TRUE>>)
    /\ SaveRecord(r, {})
    /\ UNCHANGED <<docs, value, cache, initial, reverts, faults, rerun, raced, lost,
                   overlapped, anonymized>>

\* removeProperty(): only the field of a "file" has its attachment removed, and is emptied
\* once it is, when the record as it was before is saved.  The form of the record is opened
\* again afterwards.
AnonymizeField(p) ==
    /\ p[1] \notin deleted /\ value[p] # NoFile
    /\ IF p[2] \in PhotoFields
       THEN /\ value' = [value EXCEPT ![p] = NoFile]
            /\ initial' = [initial EXCEPT ![p] = NoFile]
            /\ anonymized' = anonymized \cup {p}
            /\ SaveRecord(p[1], {})
            /\ UNCHANGED jobs
       ELSE /\ Add("anonymize", p)
            /\ copies' = copies \cup {<<Len(jobs'), NoFile>>}
            /\ UNCHANGED <<value, initial, unsaved, anonymized>>
    /\ Overlaps(p)
    /\ UNCHANGED <<docs, deleted, cache, reverts, faults, rerun, raced, lost>>

\* An image is shown, see loadFile(): it comes from the upload if there has been one.
LoadFile(p) ==
    /\ p[2] \in PhotoFields /\ p[1] \notin deleted /\ value[p] # NoFile
    /\ cache[p] # 0
    /\ jobs' = Subscribe(jobs, cache[p])
    /\ jobs' # jobs
    /\ raced' = raced \cup UNION {PathsOf(n) : n \in {n \in DOMAIN jobs : jobs'[n] # jobs[n]}}
    /\ UNCHANGED <<docs, value, deleted, cache, initial, reverts, copies, faults, rerun,
                   lost, overlapped, unsaved, anonymized>>

-----------------------------------------------------------------------------
(***************************************************************************)
(* A job's requests                                                        *)
(***************************************************************************)
Running(n) == n \in DOMAIN jobs /\ jobs[n].status = "running"

\* The component, or the anonymization, is told of an error only once.
Fails(n) ==
    /\ jobs' = Settle(n, "failed")
    /\ reverts' = IF jobs[n].kind \in {"upload", "remove"} /\ ~jobs[n].told
                  THEN reverts \cup {n} ELSE reverts
    /\ copies' = IF jobs[n].kind = "anonymize" THEN {c \in copies : c[1] # n} ELSE copies
    /\ UNCHANGED <<value, cache, initial, rerun, unsaved, anonymized>>

\* The removal of a file that was there ("found") removes the cached image as well.
Succeeds(n, found) ==
    LET kind == jobs[n].kind
        p == jobs[n].path
        expected == ~jobs[n].told
        empties == kind = "anonymize" /\ <<n, NoFile>> \in copies
    IN /\ jobs' = Settle(n, "done")
       /\ cache' = IF kind \in {"remove", "anonymize"} /\ found
                   THEN [cache EXCEPT ![p] = 0] ELSE cache
       /\ initial' = IF kind = "upload" /\ expected THEN [initial EXCEPT ![p] = value[p]]
                     ELSE IF empties \/ (kind = "remove" /\ expected)
                     THEN [initial EXCEPT ![p] = NoFile]
                     ELSE initial
       /\ IF empties
          THEN /\ value' = [value EXCEPT ![p] = NoFile]
               /\ anonymized' = anonymized \cup {p}
               /\ SaveRecord(p[1], {<<n, NoFile>>})
          ELSE UNCHANGED <<value, anonymized, copies, unsaved>>
       /\ rerun' = IF expected THEN rerun ELSE rerun \cup PathsOf(n)
       /\ UNCHANGED reverts

Continues(n, step, rev) ==
    /\ jobs' = [jobs EXCEPT ![n].step = step, ![n].rev = rev]
    /\ UNCHANGED <<value, cache, initial, reverts, copies, rerun, unsaved, anonymized>>

Synced(ended, synced) ==
    [n \in DOMAIN jobs |-> IF n \in ended THEN [jobs[n] EXCEPT !.synced = synced] ELSE jobs[n]]

\* ensureSynced() resolves or rejects, once for all runs of the job.  When the connection
\* is lost, it does for every job that waits for it.
SyncEnds(n) ==
    LET pending == {k \in DOMAIN jobs : jobs[k].synced = "pending"}
    IN /\ n \in pending
       /\ \/ jobs' = Synced({n}, "yes") /\ UNCHANGED faults
          \/ /\ \E ended \in {{n}, pending} : jobs' = Synced(ended, "no")
             /\ faults < MaxFaults /\ faults' = faults + 1
       /\ UNCHANGED <<docs, value, deleted, cache, initial, reverts, copies, historyVars>>

AwaitSync(n) ==
    /\ Running(n) /\ jobs[n].step = "sync"
    /\ \/ jobs[n].synced = "yes" /\ Continues(n, "get", 0)
       \/ jobs[n].synced = "no" /\ Fails(n)
    /\ UNCHANGED <<docs, deleted, faults, raced, lost, overlapped>>

Doc(n) == docs[jobs[n].path[1]]

\* The attachments document, or that there is none
GetDoc(n) ==
    /\ Running(n) /\ jobs[n].step = "get"
    /\ IF Doc(n).exists THEN Continues(n, "change", Doc(n).rev)
       ELSE IF jobs[n].kind = "upload" THEN Continues(n, "create", 0)
       ELSE Succeeds(n, FALSE)
    /\ UNCHANGED <<docs, deleted, faults, raced, lost, overlapped>>

\* Whether the server accepts a change of the revision the job has got
Accepts(n) ==
    IF jobs[n].step = "create" THEN ~Doc(n).exists
    ELSE Doc(n).exists /\ Doc(n).rev = jobs[n].rev

\* The document after the request
Changed(n) ==
    LET f == jobs[n].path[2]
        kind == jobs[n].kind
    IN [exists |-> kind # "removeAll", rev |-> Doc(n).rev + 1,
        files |-> IF jobs[n].step = "create" \/ kind = "removeAll" THEN NoFiles
                  ELSE [Doc(n).files EXCEPT ![f] = IF kind = "upload" THEN n ELSE NoFile]]

ChangeDoc(n) ==
    /\ Running(n) /\ jobs[n].step \in {"create", "change"}
    /\ IF Accepts(n)
       THEN /\ docs' = [docs EXCEPT ![jobs[n].path[1]] = Changed(n)]
            /\ IF jobs[n].step = "create" THEN Continues(n, "change", Doc(n).rev + 1)
                                          ELSE Succeeds(n, TRUE)
       ELSE /\ UNCHANGED docs
            /\ IF jobs[n].kind # "upload" /\ ~Doc(n).exists THEN Succeeds(n, FALSE)
                                                            ELSE Fails(n)
    /\ UNCHANGED <<deleted, faults, raced, lost, overlapped>>

\* A request fails, or its response is lost.
RequestFails(n) ==
    /\ Running(n) /\ jobs[n].step # "sync"
    /\ faults < MaxFaults /\ faults' = faults + 1
    /\ Fails(n)
    /\ \/ UNCHANGED <<docs, lost>>
       \/ /\ jobs[n].step # "get" /\ Accepts(n)
          /\ docs' = [docs EXCEPT ![jobs[n].path[1]] = Changed(n)]
          /\ lost' = IF jobs[n].step = "change" THEN lost \cup PathsOf(n) ELSE lost
    /\ UNCHANGED <<deleted, raced, overlapped>>

-----------------------------------------------------------------------------
(***************************************************************************)
(* revertEntityChanges()                                                   *)
(***************************************************************************)

\* "ensure we have latest _rev of entity": a record that is gone cannot be loaded.
LoadEntity(n) ==
    /\ n \in reverts /\ reverts' = reverts \ {n}
    /\ copies' = IF jobs[n].path[1] \in deleted THEN copies
                 ELSE copies \cup {<<n, initial[jobs[n].path]>>}
    /\ UNCHANGED <<docs, value, deleted, jobs, cache, initial, faults, historyVars>>

\* Mutant: the record keeps the name of the file that was not uploaded.
RevertNothing(n) ==
    /\ jobs[n].kind # "anonymize"
    /\ \E c \in copies : c[1] = n /\ SaveRecord(jobs[n].path[1], {c})
    /\ UNCHANGED <<docs, value, deleted, jobs, cache, initial, reverts, faults, rerun, raced,
                   lost, overlapped, anonymized>>

\* "Reset entity to how it was before"
Revert(n) ==
    /\ jobs[n].kind # "anonymize"
    /\ \E c \in copies :
          /\ c[1] = n /\ value' = [value EXCEPT ![jobs[n].path] = c[2]]
          /\ SaveRecord(jobs[n].path[1], {c})
    /\ UNCHANGED <<docs, deleted, jobs, cache, initial, reverts, faults, rerun, raced, lost,
                   overlapped, anonymized>>

\* The record cannot be loaded or saved, e.g. since it has been changed otherwise since
\* it was loaded.  Nobody catches that.
RevertFails(n) ==
    /\ jobs[n].kind # "anonymize"
    /\ n \in reverts \cup {c[1] : c \in copies}
    /\ faults < MaxFaults /\ faults' = faults + 1
    /\ reverts' = reverts \ {n} /\ copies' = {c \in copies : c[1] # n}
    /\ unsaved' = unsaved \cup {jobs[n].path}
    /\ UNCHANGED <<docs, value, deleted, jobs, cache, initial, rerun, raced, lost, overlapped,
                   anonymized>>

-----------------------------------------------------------------------------
\* Another client changes another file of the record.
ForeignChange(r) ==
    /\ faults < MaxFaults /\ faults' = faults + 1
    /\ docs[r].exists
    /\ docs' = [docs EXCEPT ![r].rev = @ + 1]
    /\ UNCHANGED <<value, deleted, jobs, cache, initial, reverts, copies, historyVars>>

Requests(n) == SyncEnds(n) \/ AwaitSync(n) \/ GetDoc(n) \/ ChangeDoc(n)

Next ==
    \/ \E p \in Paths :
          UploadFile(p) \/ RemoveFile(p) \/ AnonymizeField(p) \/ LoadFile(p)
    \/ \E n \in DOMAIN jobs : LoadEntity(n) \/ Revert(n) \/ RevertFails(n)
    \/ \E r \in Records : DeleteRecord(r) \/ ForeignChange(r)
    \/ \E n \in 1..MaxJobs : Requests(n) \/ RequestFails(n)

Spec == Init /\ [][Next]_vars

\* Every request ends, with a response or with an error.
FairSpec == Spec /\ \A n \in 1..MaxJobs : WF_vars(Requests(n))

-----------------------------------------------------------------------------
(***************************************************************************)
(* Properties                                                              *)
(***************************************************************************)
FileOf(p) == docs[p[1]].files[p[2]]

\* When nothing is under way for a field, the file on the server is the one it names: a
\* change that failed has been taken back.  Not if a response was lost, if a job that had
\* been reported as failed ran again later, if the field was changed again too early, if it
\* is a photo and the record was anonymized, or if the record could not be saved: when
\* changes of two of its fields fail together, one of the two saves that take them back
\* does (edit-file.component.ts:192-201).
AttachmentMatchesValue ==
    \A p \in Paths :
        /\ p[1] \notin deleted /\ Idle(p)
        /\ p \notin lost \cup raced \cup rerun \cup overlapped \cup unsaved
        /\ p[2] \in PhotoFields => p \notin anonymized
        => FileOf(p) = value[p]

\* The jobs that run again do not undo what has been done since: the file of a field is
\* what the last of its jobs that succeeded made of it.  (Not for images: showing one may
\* run its upload beside the queue.)
LastSuccessCounts ==
    \A p \in Paths :
        LET done == {n \in DOMAIN jobs : Concerns(n, p) /\ jobs[n].status = "done"}
        IN p \notin lost \cup raced =>
              IF done = {} THEN FileOf(p) \notin 1..MaxJobs
              ELSE FileOf(p) = IF jobs[Max(done)].kind = "upload" THEN Max(done) ELSE NoFile

\* A job that fails does not hold up the queue: every job ends.
JobsEnd ==
    \A n \in 1..MaxJobs : (n \in DOMAIN jobs) ~> (n \in DOMAIN jobs /\ Settled(n))
=============================================================================
