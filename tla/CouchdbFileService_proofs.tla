---------------------- MODULE CouchdbFileService_proofs ----------------------
(***************************************************************************)
(* Proofs about CouchdbFileService, for any records and fields, any number *)
(* of jobs and of failures.                                                *)
(***************************************************************************)
EXTENDS CouchdbFileService, SequenceTheorems, TLAPS

\* A path is a record and one of its fields.
LEMMA PathParts ==
  ASSUME NEW p \in Paths, NEW q \in Paths
  PROVE  /\ p[1] \in Records /\ p[2] \in Fields
         /\ p[1] = q[1] /\ p[2] = q[2] => p = q
  BY DEF Paths

\* The fields of a job
LEMMA JobFields ==
  ASSUME TypeOK, NEW n \in DOMAIN jobs
  PROVE  /\ n \in 1..Len(jobs) /\ n \in 1..MaxJobs /\ n \in Nat
         /\ jobs[n] \in Job
         /\ jobs[n].kind \in Kinds /\ jobs[n].path \in Paths
         /\ jobs[n].status \in {"new", "waiting", "running", "failed", "done"}
         /\ jobs[n].step \in {"sync", "get", "create", "change"}
         /\ jobs[n].rev \in Nat /\ jobs[n].told \in BOOLEAN
         /\ jobs[n].synced \in {"pending", "yes", "no"}
<1>1. jobs \in Seq(Job) /\ Len(jobs) \in Nat /\ Len(jobs) <= MaxJobs /\ DOMAIN jobs = 1..Len(jobs)
  BY DEF TypeOK
<1>2. n \in 1..Len(jobs) /\ n \in 1..MaxJobs /\ n \in Nat
  BY <1>1, BoundsAssumption
<1>3. jobs[n] \in Job
  BY <1>1, <1>2
<1> QED
  BY <1>2, <1>3 DEF Job

\* A job that starts, waits or ends stays the same job.
LEMMA JobStarts ==
  ASSUME NEW job \in Job
  PROVE  /\ Start(job) \in Job
         /\ Start(job).kind = job.kind /\ Start(job).path = job.path
         /\ Start(job).told = job.told /\ Start(job).status = "running"
  BY DEF Job, Start

\* A job that waits stays the same job, too.
LEMMA JobWaits ==
  ASSUME NEW job \in Job, NEW changed, changed = [job EXCEPT !.status = "waiting"]
  PROVE  /\ changed \in Job /\ changed.kind = job.kind /\ changed.path = job.path
         /\ changed.told = job.told /\ changed.status = "waiting"
  BY DEF Job

\* A function on the first numbers is a sequence.
LEMMA SequenceOf ==
  ASSUME NEW S, NEW n \in Nat, NEW f \in [1..n -> S]
  PROVE  f \in Seq(S) /\ Len(f) = n
  OBVIOUS

-----------------------------------------------------------------------------
(***************************************************************************)
(* What the steps do to the queue                                          *)
(***************************************************************************)

\* The jobs that a subscription to the n-th one runs again
Again(js, n) == {k \in 1..n : \A i \in k..n : js[i].status \in {"new", "failed"}}

\* Those jobs wait or run, nothing else changes, and only a job whose predecessor is done
\* or missing runs at once.
LEMMA SubscribeJobs ==
  ASSUME NEW js \in Seq(Job), NEW n \in 1..Len(js)
  PROVE  /\ Subscribe(js, n) \in Seq(Job) /\ Len(Subscribe(js, n)) = Len(js)
         /\ \A k \in 1..Len(js) :
               /\ Subscribe(js, n)[k].kind = js[k].kind
               /\ Subscribe(js, n)[k].path = js[k].path
               /\ Subscribe(js, n)[k].told = js[k].told
               /\ k \notin Again(js, n) => Subscribe(js, n)[k] = js[k]
               /\ k \in Again(js, n) => Subscribe(js, n)[k].status \in {"waiting", "running"}
               /\ k \in Again(js, n) /\ k > 1 /\ js[k - 1].status # "done"
                     => Subscribe(js, n)[k].status = "waiting"
<1> DEFINE new(k) == IF k \notin Again(js, n) THEN js[k]
                     ELSE IF k = 1 \/ js[k - 1].status = "done"
                          THEN Start(js[k]) ELSE [js[k] EXCEPT !.status = "waiting"]
<1>1. Subscribe(js, n) = [k \in 1..Len(js) |-> new(k)]
  BY DEF Subscribe, Again
<1>2. ASSUME NEW k \in 1..Len(js)
      PROVE  /\ new(k) \in Job
             /\ new(k).kind = js[k].kind /\ new(k).path = js[k].path /\ new(k).told = js[k].told
             /\ k \notin Again(js, n) => new(k) = js[k]
             /\ k \in Again(js, n) => new(k).status \in {"waiting", "running"}
             /\ k \in Again(js, n) /\ k > 1 /\ js[k - 1].status # "done"
                   => new(k).status = "waiting"
  <2>1. js[k] \in Job
    OBVIOUS
  <2>2. CASE k \notin Again(js, n)
    BY <2>1, <2>2
  <2>3. CASE k \in Again(js, n) /\ (k = 1 \/ js[k - 1].status = "done")
    <3>1. new(k) = Start(js[k])
      BY <2>3
    <3> HIDE DEF new
    <3> QED
      BY <2>1, <2>3, <3>1, JobStarts
  <2>4. CASE k \in Again(js, n) /\ ~(k = 1 \/ js[k - 1].status = "done")
    <3>1. new(k) = [js[k] EXCEPT !.status = "waiting"]
      BY <2>4
    <3> HIDE DEF new
    <3>2. /\ new(k) \in Job /\ new(k).kind = js[k].kind /\ new(k).path = js[k].path
          /\ new(k).told = js[k].told /\ new(k).status = "waiting"
      BY <2>1, <3>1, JobWaits
    <3> QED
      BY <2>4, <3>2
  <2> QED
    BY <2>2, <2>3, <2>4
<1> HIDE DEF new
<1>3. Len(js) \in Nat
  OBVIOUS
<1>4. [k \in 1..Len(js) |-> new(k)] \in Seq(Job)
  BY <1>2, <1>3
<1> QED
  BY <1>1, <1>2, <1>3, <1>4

\* The new job comes last; the failed ones right before it wait for their turn again.
LEMMA AddJobs ==
  ASSUME TypeOK, NEW kind \in Kinds, NEW p \in Paths, Add(kind, p)
  PROVE  /\ jobs' \in Seq(Job) /\ Len(jobs') = Len(jobs) + 1 /\ Len(jobs') <= MaxJobs
         /\ jobs'[Len(jobs) + 1].kind = kind /\ jobs'[Len(jobs) + 1].path = p
         /\ jobs'[Len(jobs) + 1].told = FALSE
         /\ jobs'[Len(jobs) + 1].status \in {"waiting", "running"}
         /\ \A n \in DOMAIN jobs :
               /\ jobs'[n].kind = jobs[n].kind /\ jobs'[n].path = jobs[n].path
               /\ jobs'[n].told = jobs[n].told
               /\ \/ jobs'[n] = jobs[n]
                  \/ /\ jobs[n].status \in {"new", "failed"}
                     /\ jobs'[n].status \in {"waiting", "running"}
                     /\ \A m \in DOMAIN jobs' : m > n => jobs'[m].status = "waiting"
         /\ (\E n \in DOMAIN jobs : /\ ~Settled(n)
                                    /\ \A m \in DOMAIN jobs : m > n => jobs[m].status = "waiting"
                                    /\ jobs[n].status # "new")
               => /\ jobs'[Len(jobs) + 1].status = "waiting"
                  /\ \A n \in DOMAIN jobs : jobs'[n] = jobs[n]
<1> DEFINE L == Len(jobs) + 1
           job == [kind |-> kind, path |-> p, status |-> "new", step |-> "get", rev |-> 0,
                   told |-> FALSE, synced |-> IF kind = "upload" THEN "pending" ELSE "yes"]
           js == Append(jobs, job)
<1>1. job \in Job
  BY DEF Job
<1>2. jobs' = Subscribe(js, L) /\ Len(jobs) < MaxJobs
  BY DEF Add
<1>3. jobs \in Seq(Job) /\ Len(jobs) \in Nat /\ DOMAIN jobs = 1..Len(jobs)
  BY DEF TypeOK
<1>4. /\ job.kind = kind /\ job.path = p /\ job.told = FALSE /\ job.status = "new"
  OBVIOUS
<1> HIDE DEF job
<1>5. /\ js \in Seq(Job) /\ Len(js) = L /\ js[L] = job
      /\ \A n \in 1..Len(jobs) : js[n] = jobs[n]
  BY <1>1, <1>3
<1> HIDE DEF js
<1>6. L \in 1..Len(js) /\ L \in Nat
  BY <1>3, <1>5
<1>7. /\ jobs' \in Seq(Job) /\ Len(jobs') = L
      /\ \A k \in 1..L :
               /\ jobs'[k].kind = js[k].kind
               /\ jobs'[k].path = js[k].path
               /\ jobs'[k].told = js[k].told
               /\ k \notin Again(js, L) => jobs'[k] = js[k]
               /\ k \in Again(js, L) => jobs'[k].status \in {"waiting", "running"}
               /\ k \in Again(js, L) /\ k > 1 /\ js[k - 1].status # "done"
                     => jobs'[k].status = "waiting"
  BY <1>2, <1>5, <1>6, SubscribeJobs
<1>8. L \in Again(js, L)
  BY <1>4, <1>5, <1>6 DEF Again
<1>9. ASSUME NEW n \in Again(js, L), NEW m \in 1..L, m > n
      PROVE  m \in Again(js, L) /\ js[m - 1].status # "done"
  <2>1. n \in 1..L /\ \A i \in n..L : js[i].status \in {"new", "failed"}
    BY DEF Again
  <2>2. m - 1 \in n..L /\ \A i \in m..L : i \in n..L
    BY <1>6, <1>9, <2>1
  <2> QED
    BY <2>1, <2>2 DEF Again
<1>10. ASSUME NEW n \in DOMAIN jobs
       PROVE  /\ jobs'[n].kind = jobs[n].kind /\ jobs'[n].path = jobs[n].path
              /\ jobs'[n].told = jobs[n].told
              /\ \/ jobs'[n] = jobs[n]
                 \/ /\ jobs[n].status \in {"new", "failed"}
                    /\ jobs'[n].status \in {"waiting", "running"}
                    /\ \A m \in DOMAIN jobs' : m > n => jobs'[m].status = "waiting"
  <2>1. n \in 1..L /\ js[n] = jobs[n]
    BY <1>3, <1>5
  <2>2. CASE n \in Again(js, L)
    <3>1. jobs[n].status \in {"new", "failed"}
      BY <1>6, <2>1, <2>2 DEF Again
    <3>2. ASSUME NEW m \in DOMAIN jobs', m > n PROVE jobs'[m].status = "waiting"
      <4>1. m \in 1..L /\ m > 1
        BY <1>7, <2>1, <3>2
      <4> QED
        BY <1>7, <1>9, <2>2, <3>2, <4>1
    <3> QED
      BY <1>7, <2>1, <2>2, <3>1, <3>2
  <2>3. CASE n \notin Again(js, L)
    BY <1>7, <2>1, <2>3
  <2> QED
    BY <2>2, <2>3
<1>11. ASSUME NEW n \in DOMAIN jobs, ~Settled(n), jobs[n].status # "new",
              \A m \in DOMAIN jobs : m > n => jobs[m].status = "waiting"
       PROVE  /\ jobs'[L].status = "waiting"
              /\ \A k \in DOMAIN jobs : jobs'[k] = jobs[k]
  <2>1. Len(jobs) \in DOMAIN jobs /\ jobs[Len(jobs)].status \in {"waiting", "running"}
    BY <1>3, <1>11, JobFields DEF Settled
  <2>2. js[L - 1].status = jobs[Len(jobs)].status /\ L > 1
    BY <1>3, <1>5, <2>1
  <2>3. ASSUME NEW k \in DOMAIN jobs PROVE k \notin Again(js, L)
    <3>1. Len(jobs) \in k..L
      BY <1>3
    <3> QED
      BY <1>3, <2>1, <2>2, <3>1 DEF Again
  <2> QED
    BY <1>3, <1>5, <1>6, <1>7, <1>8, <2>1, <2>2, <2>3
<1>12. /\ jobs'[L].kind = kind /\ jobs'[L].path = p /\ jobs'[L].told = FALSE
       /\ jobs'[L].status \in {"waiting", "running"}
  BY <1>4, <1>5, <1>6, <1>7, <1>8
<1>13. Len(jobs') <= MaxJobs
  BY <1>2, <1>3, <1>7, BoundsAssumption
<1> QED
  BY <1>7, <1>10, <1>11, <1>12, <1>13

\* A job that ends has reported, and the next one starts if it waits for it.
LEMMA SettleJobs ==
  ASSUME TypeOK, NEW n \in DOMAIN jobs, NEW s \in {"failed", "done"}, jobs' = Settle(n, s)
  PROVE  /\ jobs' \in Seq(Job) /\ Len(jobs') = Len(jobs) /\ DOMAIN jobs' = DOMAIN jobs
         /\ jobs'[n].status = s /\ jobs'[n].told = TRUE
         /\ \A k \in DOMAIN jobs :
               /\ jobs'[k].kind = jobs[k].kind /\ jobs'[k].path = jobs[k].path
               /\ k # n => /\ jobs'[k].told = jobs[k].told
                           /\ \/ jobs'[k] = jobs[k]
                              \/ /\ k = n + 1 /\ jobs[k].status = "waiting"
                                 /\ jobs'[k].status = "running"
<1> DEFINE new(k) == IF k = n THEN [jobs[k] EXCEPT !.status = s, !.told = TRUE]
                     ELSE IF k = n + 1 /\ jobs[k].status = "waiting" THEN Start(jobs[k])
                     ELSE jobs[k]
<1>1. jobs \in Seq(Job) /\ Len(jobs) \in Nat /\ DOMAIN jobs = 1..Len(jobs)
  BY DEF TypeOK
<1>2. jobs' = [k \in 1..Len(jobs) |-> new(k)]
  BY <1>1 DEF Settle
<1>3. ASSUME NEW k \in 1..Len(jobs)
      PROVE  /\ new(k) \in Job
             /\ new(k).kind = jobs[k].kind /\ new(k).path = jobs[k].path
             /\ k = n => new(k).status = s /\ new(k).told = TRUE
             /\ k # n => /\ new(k).told = jobs[k].told
                         /\ \/ new(k) = jobs[k]
                            \/ /\ k = n + 1 /\ jobs[k].status = "waiting"
                               /\ new(k).status = "running"
  <2>1. jobs[k] \in Job
    BY <1>1
  <2>2. CASE k = n
    <3>1. new(k) = [jobs[k] EXCEPT !.status = s, !.told = TRUE]
      BY <2>2
    <3> HIDE DEF new
    <3>2. /\ new(k) \in Job /\ new(k).kind = jobs[k].kind /\ new(k).path = jobs[k].path
          /\ new(k).told = TRUE /\ new(k).status = s
      BY <2>1, <3>1 DEF Job
    <3> QED
      BY <2>2, <3>2
  <2>3. CASE k # n /\ k = n + 1 /\ jobs[k].status = "waiting"
    <3>1. new(k) = Start(jobs[k])
      BY <2>3
    <3> HIDE DEF new
    <3> QED
      BY <2>1, <2>3, <3>1, JobStarts
  <2>4. CASE k # n /\ ~(k = n + 1 /\ jobs[k].status = "waiting")
    <3>1. new(k) = jobs[k]
      BY <2>4
    <3> QED
      BY <2>1, <2>4, <3>1
  <2> QED
    BY <2>2, <2>3, <2>4
<1> HIDE DEF new
<1>4. jobs' \in [1..Len(jobs) -> Job]
  BY <1>2, <1>3
<1>5. jobs' \in Seq(Job) /\ Len(jobs') = Len(jobs) /\ DOMAIN jobs' = DOMAIN jobs
  BY <1>1, <1>4, SequenceOf
<1> QED
  BY <1>1, <1>2, <1>3, <1>5

\* What changes of the queue when jobs go on, or when their synchronisation ends
Progress ==
    \/ \E n \in DOMAIN jobs, step \in {"get", "create", "change"}, rev \in Nat :
          jobs' = [jobs EXCEPT ![n].step = step, ![n].rev = rev]
    \/ \E ended \in SUBSET DOMAIN jobs, synced \in {"yes", "no"} : jobs' = Synced(ended, synced)

\* A job that goes on, or whose synchronisation ends, only changes that much.
LEMMA ProgressJobs ==
  ASSUME TypeOK, Progress
  PROVE  /\ jobs' \in Seq(Job) /\ Len(jobs') = Len(jobs) /\ DOMAIN jobs' = DOMAIN jobs
         /\ \A k \in DOMAIN jobs :
               /\ jobs'[k].kind = jobs[k].kind /\ jobs'[k].path = jobs[k].path
               /\ jobs'[k].told = jobs[k].told /\ jobs'[k].status = jobs[k].status
<1>1. jobs \in Seq(Job) /\ Len(jobs) \in Nat /\ DOMAIN jobs = 1..Len(jobs)
  BY DEF TypeOK
<1>2. CASE \E n \in DOMAIN jobs, step \in {"get", "create", "change"}, rev \in Nat :
              jobs' = [jobs EXCEPT ![n].step = step, ![n].rev = rev]
  <2>1. PICK n \in DOMAIN jobs, step \in {"get", "create", "change"}, rev \in Nat :
              jobs' = [jobs EXCEPT ![n].step = step, ![n].rev = rev]
    BY <1>2
  <2> DEFINE job == [jobs[n] EXCEPT !.step = step, !.rev = rev]
  <2>2. jobs' = [jobs EXCEPT ![n] = job]
    BY <1>1, <2>1
  <2>3. /\ job \in Job /\ job.kind = jobs[n].kind /\ job.path = jobs[n].path
        /\ job.told = jobs[n].told /\ job.status = jobs[n].status
    BY JobFields DEF Job
  <2> HIDE DEF job
  <2>4. jobs' \in Seq(Job) /\ Len(jobs') = Len(jobs)
    BY <1>1, <2>2, <2>3, ExceptSeq
  <2> QED
    BY <1>1, <2>2, <2>3, <2>4
<1>3. CASE \E ended \in SUBSET DOMAIN jobs, synced \in {"yes", "no"} :
              jobs' = Synced(ended, synced)
  <2>1. PICK ended \in SUBSET DOMAIN jobs, synced \in {"yes", "no"} :
              jobs' = Synced(ended, synced)
    BY <1>3
  <2> DEFINE new(k) == IF k \in ended THEN [jobs[k] EXCEPT !.synced = synced] ELSE jobs[k]
  <2>2. jobs' = [k \in 1..Len(jobs) |-> new(k)]
    BY <1>1, <2>1 DEF Synced
  <2>3. ASSUME NEW k \in DOMAIN jobs
        PROVE  /\ new(k) \in Job /\ new(k).kind = jobs[k].kind /\ new(k).path = jobs[k].path
               /\ new(k).told = jobs[k].told /\ new(k).status = jobs[k].status
    <3>1. jobs[k] \in Job
      BY JobFields
    <3> QED
      BY <3>1 DEF Job
  <2> HIDE DEF new
  <2>4. jobs' \in [1..Len(jobs) -> Job]
    BY <1>1, <2>2, <2>3
  <2>5. jobs' \in Seq(Job) /\ Len(jobs') = Len(jobs) /\ DOMAIN jobs' = DOMAIN jobs
    BY <1>1, <2>4, SequenceOf
  <2> QED
    BY <1>1, <2>2, <2>3, <2>5
<1> QED
  BY <1>2, <1>3 DEF Progress

-----------------------------------------------------------------------------
(***************************************************************************)
(* What the steps do to the documents                                      *)
(***************************************************************************)
DocsTyped ==
    /\ docs \in [Records -> [exists : BOOLEAN, rev : Nat, files : [Fields -> Files]]]
    /\ \A r \in Records : ~docs[r].exists => \A f \in Fields : docs[r].files[f] = NoFile

\* No file, and every file that a job uploads
LEMMA FilesTyped ==
  /\ NoFile \in Files /\ OldFile \in Files /\ OldFile \notin 1..MaxJobs /\ NoFile \notin 1..MaxJobs
  /\ \A n \in 1..MaxJobs : n \in Files
  /\ NoFiles \in [Fields -> Files]
  BY BoundsAssumption DEF NoFile, OldFile, Files, NoFiles

\* The fields of an attachments document
LEMMA DocFields ==
  ASSUME TypeOK, NEW r \in Records
  PROVE  /\ docs[r].exists \in BOOLEAN /\ docs[r].rev \in Nat
         /\ docs[r].files \in [Fields -> Files]
         /\ ~docs[r].exists => \A f \in Fields : docs[r].files[f] = NoFile
  BY DEF TypeOK

\* A change by another client leaves the files of the record's other fields alone.
LEMMA RevisionKeepsFiles ==
  ASSUME TypeOK, NEW r \in Records, docs[r].exists, docs' = [docs EXCEPT ![r].rev = @ + 1]
  PROVE  DocsTyped' /\ \A p \in Paths : FileOf(p)' = FileOf(p)
<1> DEFINE doc == [docs[r] EXCEPT !.rev = docs[r].rev + 1]
<1>1. docs' = [docs EXCEPT ![r] = doc]
  BY DEF TypeOK
<1>2. /\ doc \in [exists : BOOLEAN, rev : Nat, files : [Fields -> Files]]
      /\ doc.exists /\ doc.files = docs[r].files
  <2>1. docs[r] \in [exists : BOOLEAN, rev : Nat, files : [Fields -> Files]]
    BY DEF TypeOK
  <2> QED
    BY <2>1
<1> HIDE DEF doc
<1>3. \A q \in Records : docs'[q] = IF q = r THEN doc ELSE docs[q]
  BY <1>1 DEF TypeOK
<1>4. DocsTyped'
  <2>1. docs' \in [Records -> [exists : BOOLEAN, rev : Nat, files : [Fields -> Files]]]
    BY <1>1, <1>2 DEF TypeOK
  <2>2. \A q \in Records : ~docs'[q].exists => docs'[q] = docs[q]
    BY <1>2, <1>3
  <2> QED
    BY <2>1, <2>2, DocFields DEF DocsTyped
<1>5. ASSUME NEW p \in Paths PROVE FileOf(p)' = FileOf(p)
  BY <1>2, <1>3, PathParts DEF FileOf
<1> QED
  BY <1>4, <1>5

\* A job's request changes the files of the fields it concerns, and no others; the
\* creation of the document changes none.
LEMMA RequestChangesFiles ==
  ASSUME TypeOK, NEW n \in DOMAIN jobs, jobs[n].step \in {"create", "change"}, Accepts(n),
         docs' = [docs EXCEPT ![jobs[n].path[1]] = Changed(n)]
  PROVE  /\ DocsTyped'
         /\ \A p \in Paths :
               FileOf(p)' = IF jobs[n].step = "change" /\ Concerns(n, p)
                            THEN IF jobs[n].kind = "upload" THEN n ELSE NoFile
                            ELSE FileOf(p)
<1> DEFINE r == jobs[n].path[1]
           f == jobs[n].path[2]
           kind == jobs[n].kind
           after == IF kind = "upload" THEN n ELSE NoFile
           files == IF jobs[n].step = "create" \/ kind = "removeAll" THEN NoFiles
                    ELSE [docs[r].files EXCEPT ![f] = after]
           doc == [exists |-> kind # "removeAll", rev |-> docs[r].rev + 1, files |-> files]
<1>1. /\ r \in Records /\ f \in Fields /\ jobs[n].path \in Paths /\ n \in 1..MaxJobs
      /\ kind \in Kinds
  BY JobFields, PathParts
<1>2. docs' = [docs EXCEPT ![r] = doc]
  BY DEF Changed, Doc
<1>3. after \in Files
  BY <1>1, FilesTyped
<1>4. files \in [Fields -> Files]
  BY <1>1, <1>3, DocFields, FilesTyped
<1>5. kind = "removeAll" => \A g \in Fields : files[g] = NoFile
  BY DEF NoFiles
<1>6. \A g \in Fields :
        files[g] = IF jobs[n].step = "create" \/ kind = "removeAll" THEN NoFile
                   ELSE IF g = f THEN after ELSE docs[r].files[g]
  BY <1>1, DocFields DEF NoFiles
<1>7. jobs[n].step = "create" => ~docs[r].exists
  BY DEF Accepts, Doc
<1> HIDE DEF files
<1>8. /\ doc \in [exists : BOOLEAN, rev : Nat, files : [Fields -> Files]]
      /\ doc.exists = (kind # "removeAll") /\ doc.files = files
  BY <1>1, <1>4, DocFields
<1> HIDE DEF doc
<1>9. \A q \in Records : docs'[q] = IF q = r THEN doc ELSE docs[q]
  BY <1>1, <1>2 DEF TypeOK
<1>10. DocsTyped'
  BY <1>1, <1>2, <1>5, <1>8, <1>9 DEF TypeOK, DocsTyped
<1>11. ASSUME NEW p \in Paths
       PROVE  FileOf(p)' = IF jobs[n].step = "change" /\ Concerns(n, p) THEN after ELSE FileOf(p)
  <2>1. p[1] \in Records /\ p[2] \in Fields /\ (p[1] = r /\ p[2] = f <=> jobs[n].path = p)
    BY <1>1, PathParts
  <2>2. CASE p[1] # r
    BY <1>9, <2>1, <2>2 DEF FileOf, Concerns
  <2>3. CASE p[1] = r
    <3>1. FileOf(p)' = files[p[2]] /\ FileOf(p) = docs[r].files[p[2]]
      BY <1>8, <1>9, <2>1, <2>3 DEF FileOf
    <3>2. CASE jobs[n].step = "create"
      BY <1>1, <1>6, <1>7, <2>1, <3>1, <3>2, DocFields
    <3>3. CASE jobs[n].step = "change" /\ kind = "removeAll"
      BY <1>6, <2>1, <2>3, <3>1, <3>3 DEF Concerns
    <3>4. CASE jobs[n].step = "change" /\ kind # "removeAll"
      BY <1>6, <2>1, <2>3, <3>1, <3>4 DEF Concerns
    <3> QED
      BY <3>2, <3>3, <3>4
  <2> QED
    BY <2>2, <2>3
<1> QED
  BY <1>10, <1>11

-----------------------------------------------------------------------------
(***************************************************************************)
(* TypeOK                                                                  *)
(***************************************************************************)

\* The sets that record what has happened to the fields
HistoryTyped ==
    /\ rerun \subseteq Paths /\ raced \subseteq Paths /\ lost \subseteq Paths
    /\ overlapped \subseteq Paths /\ unsaved \subseteq Paths /\ anonymized \subseteq Paths

\* A fault uses up the budget.
LEMMA FaultCounted ==
  ASSUME faults \in 0..MaxFaults, faults < MaxFaults
  PROVE  faults + 1 \in 0..MaxFaults
  BY BoundsAssumption

\* A job more keeps the types of the queue.
LEMMA AddTyped ==
  ASSUME TypeOK, NEW kind \in {"upload", "remove", "anonymize", "removeAll"},
         NEW p \in Paths, Add(kind, p)
  PROVE  /\ jobs' \in Seq(Job) /\ Len(jobs') = Len(jobs) + 1 /\ Len(jobs') <= MaxJobs
         /\ Len(jobs) \in Nat /\ \A q \in Paths : cache[q] <= Len(jobs')
         /\ DOMAIN jobs \subseteq DOMAIN jobs' /\ Len(jobs') \in DOMAIN jobs'
<1>1. /\ jobs' \in Seq(Job) /\ Len(jobs') = Len(jobs) + 1 /\ Len(jobs') <= MaxJobs
  BY AddJobs DEF Kinds
<1> QED
  BY <1>1 DEF TypeOK

\* Saving a record ends what is about to be saved of it.
LEMMA SaveTyped ==
  ASSUME TypeOK, NEW r, NEW saved, SaveRecord(r, saved)
  PROVE  copies' \subseteq copies /\ unsaved' \subseteq Paths
<1>1. \A c \in copies : jobs[c[1]].path \in Paths
  <2>1. \A c \in copies : c[1] \in DOMAIN jobs
    BY DEF TypeOK
  <2> QED
    BY <2>1, JobFields
<1> QED
  BY <1>1 DEF SaveRecord, TypeOK

\* What the user does keeps the types.
LEMMA UserTyped ==
  ASSUME TypeOK, NEW p \in Paths, UploadFile(p) \/ RemoveFile(p) \/ AnonymizeField(p)
  PROVE  TypeOK'
<1>1. overlapped' \subseteq Paths
  BY DEF UploadFile, RemoveFile, AnonymizeField, Overlaps, TypeOK
<1>2. CASE UploadFile(p)
  <2>1. /\ jobs' \in Seq(Job) /\ Len(jobs') = Len(jobs) + 1 /\ Len(jobs') <= MaxJobs
        /\ Len(jobs) \in Nat /\ DOMAIN jobs \subseteq DOMAIN jobs'
    BY <1>2, AddTyped DEF UploadFile
  <2>2. Len(jobs') \in Files /\ Len(jobs') \in 0..MaxJobs
    BY <2>1, FilesTyped, BoundsAssumption
  <2>3. value' \in [Paths -> Files] /\ cache' \in [Paths -> 0..MaxJobs]
    BY <1>2, <2>2 DEF UploadFile, TypeOK
  <2>4. \A q \in Paths : cache'[q] <= Len(jobs')
    BY <1>2, <2>1 DEF UploadFile, TypeOK
  <2>5. /\ reverts' \subseteq DOMAIN jobs' /\ copies' \subseteq (DOMAIN jobs') \X Files
        /\ unsaved' \subseteq Paths
    BY <1>2, <2>1, SaveTyped DEF UploadFile, TypeOK
  <2> QED
    BY <1>1, <1>2, <2>1, <2>3, <2>4, <2>5 DEF UploadFile, TypeOK
<1>3. CASE RemoveFile(p)
  <2>1. /\ jobs' \in Seq(Job) /\ Len(jobs') = Len(jobs) + 1 /\ Len(jobs') <= MaxJobs
        /\ Len(jobs) \in Nat /\ DOMAIN jobs \subseteq DOMAIN jobs'
    BY <1>3, AddTyped DEF RemoveFile
  <2>2. value' \in [Paths -> Files]
    BY <1>3, FilesTyped DEF RemoveFile, TypeOK
  <2>3. cache' = cache /\ \A q \in Paths : cache[q] <= Len(jobs')
    BY <1>3, <2>1 DEF RemoveFile, TypeOK
  <2>4. /\ reverts' \subseteq DOMAIN jobs' /\ copies' \subseteq (DOMAIN jobs') \X Files
        /\ unsaved' \subseteq Paths
    BY <1>3, <2>1, SaveTyped DEF RemoveFile, TypeOK
  <2> QED
    BY <1>1, <1>3, <2>1, <2>2, <2>3, <2>4 DEF RemoveFile, TypeOK
<1>4. CASE AnonymizeField(p)
  <2>1. /\ jobs' \in Seq(Job) /\ Len(jobs') <= MaxJobs
        /\ \A q \in Paths : cache[q] <= Len(jobs')
        /\ reverts \subseteq DOMAIN jobs' /\ copies' \subseteq (DOMAIN jobs') \X Files
        /\ unsaved' \subseteq Paths
    <3>1. CASE p[2] \in PhotoFields
      BY <1>4, <3>1, SaveTyped DEF AnonymizeField, TypeOK
    <3>2. CASE p[2] \notin PhotoFields
      <4>1. Add("anonymize", p)
        BY <1>4, <3>2 DEF AnonymizeField
      <4>2. /\ jobs' \in Seq(Job) /\ Len(jobs') = Len(jobs) + 1 /\ Len(jobs') <= MaxJobs
            /\ Len(jobs) \in Nat
            /\ DOMAIN jobs \subseteq DOMAIN jobs' /\ Len(jobs') \in DOMAIN jobs'
        BY <4>1, AddTyped
      <4>3. copies' \subseteq (DOMAIN jobs') \X Files /\ unsaved' \subseteq Paths
        BY <1>4, <3>2, <4>2, FilesTyped DEF AnonymizeField, TypeOK
      <4> QED
        BY <4>2, <4>3 DEF TypeOK
    <3> QED
      BY <3>1, <3>2
  <2>2. value' \in [Paths -> Files] /\ initial' \in [Paths -> Files] /\ anonymized' \subseteq Paths
    BY <1>4, FilesTyped DEF AnonymizeField, TypeOK
  <2>3. cache' = cache
    BY <1>4 DEF AnonymizeField
  <2> QED
    BY <1>1, <1>4, <2>1, <2>2, <2>3 DEF AnonymizeField, TypeOK
<1> QED
  BY <1>2, <1>3, <1>4

\* Deleting a record keeps the types.
LEMMA DeleteTyped ==
  ASSUME TypeOK, NEW r \in Records, DeleteRecord(r)
  PROVE  TypeOK'
<1>1. <<r, CHOOSE f \in Fields : TRUE>> \in Paths
  BY FieldsAssumption DEF Paths
<1>2. /\ jobs' \in Seq(Job) /\ Len(jobs') = Len(jobs) + 1 /\ Len(jobs') <= MaxJobs
      /\ Len(jobs) \in Nat /\ DOMAIN jobs \subseteq DOMAIN jobs'
  BY <1>1, AddTyped DEF DeleteRecord
<1>3. cache' = cache /\ \A q \in Paths : cache[q] <= Len(jobs')
  BY <1>2 DEF DeleteRecord, TypeOK
<1>4. /\ reverts' \subseteq DOMAIN jobs' /\ copies' \subseteq (DOMAIN jobs') \X Files
      /\ unsaved' \subseteq Paths
  BY <1>2, SaveTyped DEF DeleteRecord, TypeOK
<1> QED
  BY <1>2, <1>3, <1>4 DEF DeleteRecord, TypeOK

\* Showing an image keeps the types.
LEMMA LoadTyped ==
  ASSUME TypeOK, NEW p \in Paths, LoadFile(p)
  PROVE  TypeOK'
<1>1. cache[p] \in 1..Len(jobs) /\ jobs \in Seq(Job)
  BY DEF LoadFile, TypeOK
<1>2. jobs' \in Seq(Job) /\ Len(jobs') = Len(jobs) /\ DOMAIN jobs' = DOMAIN jobs
  BY <1>1, SubscribeJobs DEF LoadFile
<1>3. raced' \subseteq Paths
  BY DEF LoadFile, TypeOK, PathsOf
<1> QED
  BY <1>2, <1>3 DEF LoadFile, TypeOK

\* A job that fails, succeeds or goes on keeps the types of the client.
ClientTyped ==
    /\ jobs \in Seq(Job) /\ Len(jobs) <= MaxJobs
    /\ value \in [Paths -> Files] /\ initial \in [Paths -> Files]
    /\ cache \in [Paths -> 0..MaxJobs] /\ \A p \in Paths : cache[p] <= Len(jobs)
    /\ reverts \subseteq DOMAIN jobs /\ copies \subseteq (DOMAIN jobs) \X Files
    /\ rerun \subseteq Paths /\ unsaved \subseteq Paths /\ anonymized \subseteq Paths

\* It keeps them when it fails, ...
LEMMA FailsTyped ==
  ASSUME TypeOK, NEW n \in DOMAIN jobs, Fails(n)
  PROVE  ClientTyped'
<1>1. jobs' \in Seq(Job) /\ Len(jobs') = Len(jobs) /\ DOMAIN jobs' = DOMAIN jobs
  BY SettleJobs DEF Fails
<1>2. reverts' \subseteq DOMAIN jobs' /\ copies' \subseteq (DOMAIN jobs') \X Files
  BY <1>1 DEF Fails, TypeOK
<1> QED
  BY <1>1, <1>2 DEF Fails, TypeOK, ClientTyped

\* when it succeeds ...
LEMMA SucceedsTyped ==
  ASSUME TypeOK, NEW n \in DOMAIN jobs, NEW found \in BOOLEAN, Succeeds(n, found)
  PROVE  ClientTyped'
<1>1. jobs' \in Seq(Job) /\ Len(jobs') = Len(jobs) /\ DOMAIN jobs' = DOMAIN jobs
  BY SettleJobs DEF Succeeds
<1>2. jobs[n].path \in Paths
  BY JobFields
<1>3. value' \in [Paths -> Files] /\ initial' \in [Paths -> Files]
  BY <1>2, FilesTyped DEF Succeeds, TypeOK
<1>4. /\ cache' \in [Paths -> 0..MaxJobs]
      /\ \A p \in Paths : cache'[p] <= Len(jobs')
  BY <1>1, <1>2, BoundsAssumption DEF Succeeds, TypeOK
<1>5. rerun' \subseteq Paths /\ anonymized' \subseteq Paths
  BY <1>2 DEF Succeeds, TypeOK, PathsOf
<1>6. copies' \subseteq copies /\ unsaved' \subseteq Paths
  BY SaveTyped DEF Succeeds, TypeOK
<1>7. reverts' \subseteq DOMAIN jobs' /\ copies' \subseteq (DOMAIN jobs') \X Files
  BY <1>1, <1>6 DEF Succeeds, TypeOK
<1> QED
  BY <1>1, <1>3, <1>4, <1>5, <1>6, <1>7 DEF TypeOK, ClientTyped

\* and when it goes on.
LEMMA ContinuesTyped ==
  ASSUME TypeOK, NEW n \in DOMAIN jobs, NEW step \in {"get", "create", "change"}, NEW rev \in Nat,
         Continues(n, step, rev)
  PROVE  ClientTyped'
<1>1. jobs' \in Seq(Job) /\ Len(jobs') = Len(jobs) /\ DOMAIN jobs' = DOMAIN jobs
  BY ProgressJobs DEF Continues, Progress
<1> QED
  BY <1>1 DEF Continues, TypeOK, ClientTyped

\* The end of a synchronisation is all that changes of the queue, for one job or for
\* several.
LEMMA SyncProgress ==
  ASSUME NEW n, SyncEnds(n)
  PROVE  Progress
<1> DEFINE pending == {k \in DOMAIN jobs : jobs[k].synced = "pending"}
<1>1. {n} \subseteq DOMAIN jobs /\ pending \subseteq DOMAIN jobs
  BY DEF SyncEnds
<1>2. \/ jobs' = Synced({n}, "yes")
      \/ jobs' = Synced({n}, "no")
      \/ jobs' = Synced(pending, "no")
  BY DEF SyncEnds
<1> HIDE DEF pending
<1> QED
  BY <1>1, <1>2 DEF Progress

\* The requests of a job keep the types.
LEMMA RequestsTyped ==
  ASSUME TypeOK, NEW n \in 1..MaxJobs, Requests(n) \/ RequestFails(n)
  PROVE  TypeOK'
<1>1. n \in DOMAIN jobs
  BY DEF Requests, SyncEnds, AwaitSync, GetDoc, ChangeDoc, RequestFails, Running
<1>2. /\ Doc(n).rev \in Nat /\ jobs[n].path[1] \in Records
  BY <1>1, JobFields, PathParts, DocFields DEF Doc
<1>3. CASE SyncEnds(n)
  <2>1. jobs' \in Seq(Job) /\ Len(jobs') = Len(jobs) /\ DOMAIN jobs' = DOMAIN jobs
    BY <1>3, SyncProgress, ProgressJobs
  <2>2. faults' \in 0..MaxFaults
    BY <1>3, FaultCounted DEF SyncEnds, TypeOK
  <2> QED
    BY <1>3, <2>1, <2>2 DEF SyncEnds, TypeOK, historyVars
<1>4. CASE AwaitSync(n)
  <2>1. ClientTyped'
    BY <1>1, <1>4, ContinuesTyped, FailsTyped DEF AwaitSync
  <2> QED
    BY <1>4, <2>1 DEF AwaitSync, TypeOK, ClientTyped
<1>5. CASE GetDoc(n)
  <2>1. ClientTyped'
    BY <1>1, <1>2, <1>5, ContinuesTyped, SucceedsTyped DEF GetDoc
  <2> QED
    BY <1>5, <2>1 DEF GetDoc, TypeOK, ClientTyped
<1>6. CASE ChangeDoc(n)
  <2>1. ClientTyped'
    <3>1. Doc(n).rev + 1 \in Nat
      BY <1>2
    <3> QED
      BY <1>1, <1>6, <3>1, ContinuesTyped, SucceedsTyped, FailsTyped DEF ChangeDoc
  <2>2. DocsTyped'
    BY <1>1, <1>6, RequestChangesFiles DEF ChangeDoc, TypeOK, DocsTyped
  <2> QED
    BY <1>6, <2>1, <2>2 DEF ChangeDoc, TypeOK, ClientTyped, DocsTyped
<1>7. CASE RequestFails(n)
  <2>1. ClientTyped'
    BY <1>1, <1>7, FailsTyped DEF RequestFails
  <2>2. DocsTyped'
    <3>1. jobs[n].step \in {"sync", "get", "create", "change"}
      BY <1>1, JobFields
    <3> QED
      BY <1>1, <1>7, <3>1, RequestChangesFiles DEF RequestFails, TypeOK, DocsTyped
  <2>3. lost' \subseteq Paths
    BY <1>7 DEF RequestFails, PathsOf, TypeOK
  <2>4. faults' \in 0..MaxFaults
    BY <1>7, FaultCounted DEF RequestFails, TypeOK
  <2> QED
    BY <1>7, <2>1, <2>2, <2>3, <2>4 DEF RequestFails, TypeOK, ClientTyped, DocsTyped
<1> QED
  BY <1>3, <1>4, <1>5, <1>6, <1>7 DEF Requests

\* Taking a change back keeps the types.
LEMMA RevertTyped ==
  ASSUME TypeOK, NEW n \in DOMAIN jobs, LoadEntity(n) \/ Revert(n) \/ RevertFails(n)
  PROVE  TypeOK'
<1>1. jobs[n].path \in Paths
  BY JobFields
<1>2. CASE LoadEntity(n)
  <2>1. copies' \subseteq (DOMAIN jobs) \X Files
    BY <1>1, <1>2 DEF LoadEntity, TypeOK
  <2> QED
    BY <1>2, <2>1 DEF LoadEntity, TypeOK, historyVars
<1>3. CASE Revert(n)
  <2>1. PICK c \in copies : /\ value' = [value EXCEPT ![jobs[n].path] = c[2]]
                            /\ SaveRecord(jobs[n].path[1], {c})
    BY <1>3 DEF Revert
  <2>2. value' \in [Paths -> Files]
    BY <1>1, <2>1 DEF TypeOK
  <2>3. copies' \subseteq copies /\ unsaved' \subseteq Paths
    BY <2>1, SaveTyped
  <2> QED
    BY <1>3, <2>2, <2>3 DEF Revert, TypeOK
<1>4. CASE RevertFails(n)
  <2>1. faults' \in 0..MaxFaults
    BY <1>4, FaultCounted DEF RevertFails, TypeOK
  <2> QED
    BY <1>1, <1>4, <2>1 DEF RevertFails, TypeOK
<1> QED
  BY <1>2, <1>3, <1>4

\* Every step keeps every variable in its type.
LEMMA TypeNext == TypeOK /\ [Next]_vars => TypeOK'
<1> SUFFICES ASSUME TypeOK, [Next]_vars PROVE TypeOK'
  OBVIOUS
<1>1. ASSUME NEW n \in DOMAIN jobs, LoadEntity(n) \/ Revert(n) \/ RevertFails(n) PROVE TypeOK'
  BY <1>1, RevertTyped
<1>2. ASSUME NEW r \in Records, ForeignChange(r) PROVE TypeOK'
  <2>1. DocsTyped'
    BY <1>2, RevisionKeepsFiles DEF ForeignChange
  <2>2. faults' \in 0..MaxFaults
    BY <1>2, FaultCounted DEF ForeignChange, TypeOK
  <2> QED
    BY <1>2, <2>1, <2>2 DEF ForeignChange, TypeOK, DocsTyped, historyVars
<1>3. CASE UNCHANGED vars
  BY <1>3 DEF TypeOK, vars, historyVars
<1> QED
  BY <1>1, <1>2, <1>3, UserTyped, DeleteTyped, LoadTyped, RequestsTyped DEF Next

\* Every variable has its type at first.
LEMMA TypeInit == Init => TypeOK
<1> SUFFICES ASSUME Init PROVE TypeOK
  OBVIOUS
<1>1. DocsTyped
  <2>1. ASSUME NEW r \in Records
        PROVE  /\ docs[r] \in [exists : BOOLEAN, rev : Nat, files : [Fields -> Files]]
               /\ ~docs[r].exists => \A f \in Fields : docs[r].files[f] = NoFile
    <3>1. CASE docs[r] = [exists |-> FALSE, rev |-> 0, files |-> NoFiles]
      BY <3>1, FilesTyped DEF NoFiles
    <3>2. ASSUME NEW present \in SUBSET Fields,
                 docs[r] = [exists |-> TRUE, rev |-> 1, files |-> [f \in Fields |->
                              IF f \in present THEN OldFile ELSE NoFile]]
          PROVE  docs[r] \in [exists : BOOLEAN, rev : Nat, files : [Fields -> Files]]
                 /\ docs[r].exists
      <4> DEFINE files == [f \in Fields |-> IF f \in present THEN OldFile ELSE NoFile]
      <4>1. files \in [Fields -> Files]
        BY FilesTyped
      <4> HIDE DEF files
      <4> QED
        BY <3>2, <4>1 DEF files
    <3> QED
      BY <3>1, <3>2 DEF Init
  <2>2. docs = [r \in Records |-> docs[r]]
    BY DEF Init
  <2> QED
    BY <2>1, <2>2 DEF DocsTyped
<1>2. value \in [Paths -> Files]
  <2>1. ASSUME NEW p \in Paths PROVE docs[p[1]].files[p[2]] \in Files
    BY <1>1, PathParts DEF DocsTyped
  <2> QED
    BY <2>1 DEF Init
<1>3. jobs \in Seq(Job) /\ Len(jobs) = 0
  BY DEF Init
<1>4. /\ initial \in [Paths -> Files] /\ deleted = {} /\ reverts = {} /\ copies = {}
      /\ cache \in [Paths -> 0..MaxJobs] /\ \A p \in Paths : cache[p] = 0
      /\ faults \in 0..MaxFaults
  BY <1>2, BoundsAssumption DEF Init
<1>5. HistoryTyped
  BY DEF Init, HistoryTyped
<1>6. \A p \in Paths : cache[p] <= Len(jobs)
  BY <1>3, <1>4
<1> QED
  BY <1>1, <1>2, <1>3, <1>4, <1>5, <1>6, BoundsAssumption DEF TypeOK, DocsTyped, HistoryTyped

\* Every variable keeps its type, and no more jobs are added than the bound allows.
THEOREM TypeCorrect == Spec => []TypeOK
  BY TypeInit, TypeNext, PTL DEF Spec

-----------------------------------------------------------------------------
(***************************************************************************)
(* LastSuccessCounts and AttachmentMatchesValue.  Both rest on the order   *)
(* of the queue: a job holds up all later ones, except the uploads that    *)
(* showing an image runs again beside it ("raced").                        *)
(***************************************************************************)

\* The jobs that concern a field; those that have succeeded; and those whose outcome
\* has not been reported yet.
JobsOf(p) == {n \in DOMAIN jobs : Concerns(n, p)}
Done(p) == {n \in DOMAIN jobs : Concerns(n, p) /\ jobs[n].status = "done"}
Fresh(p) == {n \in JobsOf(p) : ~jobs[n].told}

\* Settled jobs have reported, and only a deletion removes all files.
JobsReport ==
    \A n \in DOMAIN jobs :
        /\ jobs[n].status # "new"
        /\ Settled(n) => jobs[n].told
        /\ jobs[n].kind = "removeAll" => jobs[n].path[1] \in deleted

\* A job of a field holds up every later one.
InOrder ==
    \A p \in Paths \ raced : \A n \in JobsOf(p) : ~Settled(n) =>
        \A m \in DOMAIN jobs : m > n => jobs[m].status = "waiting"

\* The file is what the last of the successful jobs made of it.
FromLast(p) ==
    IF Done(p) = {} THEN FileOf(p) \notin 1..MaxJobs
    ELSE /\ Max(Done(p)) \in Done(p)
         /\ FileOf(p) = IF jobs[Max(Done(p))].kind = "upload" THEN Max(Done(p)) ELSE NoFile

\* Fields whose edits the application has reported as they went
Clean(p) ==
    /\ p[1] \notin deleted
    /\ p \notin lost \cup raced \cup rerun \cup overlapped \cup unsaved
    /\ ~(p[2] \in PhotoFields /\ p \in anonymized)

\* What a fresh job is about to make of the field, the record says already.
Announced(p, n) ==
    /\ jobs[n].kind = "upload" => value[p] = n
    /\ jobs[n].kind = "remove" => value[p] = NoFile
    /\ jobs[n].kind = "anonymize" => value[p] = initial[p]

\* What is about to be saved of the record for a job of this field; whether the record is
\* about to be loaded for one
Held(p) == {c \in copies : jobs[c[1]].path = p}
Reverting(p) == \E n \in reverts : jobs[n].path = p

\* A fresh job is the only thing under way for a field, apart from the record that its
\* anonymization is about to save without the file.
Alone(p, n) ==
    /\ Fresh(p) = {n} /\ ~Reverting(p)
    /\ Held(p) = IF jobs[n].kind = "anonymize" THEN {<<n, NoFile>>} ELSE {}

\* The component remembers the file on the server; the record names it, unless a fresh
\* job or a revert is still to come, and a revert is going to save it with that file.
Agrees(p) ==
    /\ FileOf(p) = initial[p]
    /\ \A n \in Fresh(p) : Alone(p, n) /\ Announced(p, n)
    /\ Fresh(p) = {} => \A c \in Held(p) : c[2] = initial[p] /\ jobs[c[1]].kind # "anonymize"
    /\ Fresh(p) = {} /\ ~Reverting(p) /\ Held(p) = {} => value[p] = initial[p]

\* Only a component takes a change back.
RevertsEdits == \A n \in reverts : jobs[n].kind # "anonymize"

FilesInv ==
    /\ JobsReport /\ InOrder /\ RevertsEdits
    /\ \A p \in Paths : p \notin lost \cup raced => FromLast(p)
    /\ \A p \in Paths : Clean(p) => Agrees(p)

\* Whether a job of this kind for field q changes field p
Targets(kind, q, p) == IF kind = "removeAll" THEN q[1] = p[1] ELSE q = p

\* A job stays what it is.
SameJobs ==
    \A n \in DOMAIN jobs : jobs'[n].kind = jobs[n].kind /\ jobs'[n].path = jobs[n].path

\* A new job comes last, and is a fresh job of the fields it concerns.
LEMMA AddQueue ==
  ASSUME TypeOK, JobsReport, InOrder, NEW kind \in Kinds, NEW q \in Paths, Add(kind, q),
         raced' = raced, deleted \subseteq deleted',
         kind = "removeAll" => q[1] \in deleted'
  PROVE  /\ JobsReport' /\ InOrder'
         /\ \A p \in Paths :
               /\ Done(p)' = Done(p)
               /\ IF Targets(kind, q, p)
                  THEN Fresh(p)' = Fresh(p) \cup {Len(jobs) + 1} ELSE Fresh(p)' = Fresh(p)
         /\ SameJobs
         /\ jobs'[Len(jobs) + 1].kind = kind
<1> DEFINE L == Len(jobs) + 1
<1>1. /\ jobs \in Seq(Job) /\ Len(jobs) \in Nat /\ DOMAIN jobs = 1..Len(jobs) /\ L \in Nat
  BY DEF TypeOK
<1>2. /\ jobs'[L].kind = kind /\ jobs'[L].path = q
      /\ jobs'[L].told = FALSE
      /\ jobs'[L].status \in {"waiting", "running"}
  BY AddJobs
<1>3. DOMAIN jobs' = 1..L
  <2>1. jobs' \in Seq(Job) /\ Len(jobs') = L
    BY AddJobs
  <2> QED
    BY <1>1, <2>1
<1>4. \A n \in DOMAIN jobs :
               /\ jobs'[n].kind = jobs[n].kind /\ jobs'[n].path = jobs[n].path
               /\ jobs'[n].told = jobs[n].told
               /\ \/ jobs'[n] = jobs[n]
                  \/ /\ jobs[n].status \in {"new", "failed"}
                     /\ jobs'[n].status \in {"waiting", "running"}
                     /\ \A m \in DOMAIN jobs' : m > n => jobs'[m].status = "waiting"
  BY AddJobs
<1>5. (\E n \in DOMAIN jobs : /\ ~Settled(n)
                              /\ \A m \in DOMAIN jobs : m > n => jobs[m].status = "waiting"
                              /\ jobs[n].status # "new")
         => /\ jobs'[L].status = "waiting"
            /\ \A n \in DOMAIN jobs : jobs'[n] = jobs[n]
  BY AddJobs
<1>6. JobsReport'
  <2> SUFFICES ASSUME NEW n \in 1..L
               PROVE  /\ jobs'[n].status # "new"
                      /\ Settled(n)' => jobs'[n].told
                      /\ jobs'[n].kind = "removeAll" => jobs'[n].path[1] \in deleted'
    BY <1>3 DEF JobsReport
  <2>1. CASE n = L
    BY <1>2, <2>1 DEF Settled
  <2>2. CASE n \in DOMAIN jobs
    BY <1>4, <2>2 DEF JobsReport, Settled
  <2> QED
    BY <1>1, <2>1, <2>2
<1>7. InOrder'
  <2> SUFFICES ASSUME NEW p \in Paths \ raced, NEW n \in 1..L, Concerns(n, p)', ~Settled(n)',
                      NEW m \in 1..L, m > n
               PROVE  jobs'[m].status = "waiting"
    BY <1>3 DEF InOrder, JobsOf
  <2>1. n \in DOMAIN jobs
    BY <1>1
  <2>2. CASE jobs'[n] = jobs[n]
    <3>1. ~Settled(n) /\ n \in JobsOf(p)
      BY <2>1, <2>2 DEF Settled, Concerns, JobsOf
    <3>2. /\ jobs[n].status # "new"
          /\ \A k \in DOMAIN jobs : k > n => jobs[k].status = "waiting"
      BY <2>1, <3>1 DEF JobsReport, InOrder
    <3>3. /\ jobs'[L].status = "waiting"
          /\ \A k \in DOMAIN jobs : jobs'[k] = jobs[k]
      BY <1>5, <2>1, <3>1, <3>2
    <3> QED
      BY <1>1, <3>2, <3>3
  <2>3. CASE jobs'[n] # jobs[n]
    BY <1>3, <1>4, <2>1, <2>3
  <2> QED
    BY <2>2, <2>3
<1>8. ASSUME NEW p \in Paths PROVE Done(p)' = Done(p)
  <2>1. \A n \in DOMAIN jobs : (jobs'[n].status = "done") <=> (jobs[n].status = "done")
    BY <1>4
  <2>2. \A n \in DOMAIN jobs : Concerns(n, p)' <=> Concerns(n, p)
    BY <1>4 DEF Concerns
  <2>3. ~(jobs'[L].status = "done") /\ DOMAIN jobs' = DOMAIN jobs \cup {L}
    BY <1>1, <1>2, <1>3
  <2> QED
    BY <2>1, <2>2, <2>3 DEF Done
<1>9. ASSUME NEW p \in Paths
      PROVE  IF Targets(kind, q, p)
             THEN Fresh(p)' = Fresh(p) \cup {L} ELSE Fresh(p)' = Fresh(p)
  <2>1. \A n \in DOMAIN jobs : /\ Concerns(n, p)' <=> Concerns(n, p)
                               /\ jobs'[n].told = jobs[n].told
    BY <1>4 DEF Concerns
  <2>2. ASSUME NEW l \in Nat, l = L
        PROVE  Concerns(l, p)' <=>
                  Targets(kind, q, p)
    BY <1>2, <2>2 DEF Concerns, Targets
  <2>3. DOMAIN jobs' = DOMAIN jobs \cup {L} /\ ~jobs'[L].told /\ L \notin DOMAIN jobs
    BY <1>1, <1>2, <1>3
  <2> HIDE DEF L
  <2>4. \A n : n \in Fresh(p)' <=> n \in DOMAIN jobs' /\ Concerns(n, p)' /\ ~jobs'[n].told
    BY DEF Fresh, JobsOf
  <2>5. \A n : n \in Fresh(p) <=> n \in DOMAIN jobs /\ Concerns(n, p) /\ ~jobs[n].told
    BY DEF Fresh, JobsOf
  <2>6. \A n \in DOMAIN jobs : n \in Fresh(p)' <=> n \in Fresh(p)
    BY <2>1, <2>3, <2>4, <2>5
  <2>7. L \in Fresh(p)' <=>
           Targets(kind, q, p)
    BY <1>1, <2>2, <2>3, <2>4
  <2> QED
    BY <2>3, <2>4, <2>5, <2>6, <2>7
<1> QED
  BY <1>2, <1>4, <1>6, <1>7, <1>8, <1>9 DEF SameJobs

\* A running job that settles is fresh no longer; the next one may start.
LEMMA SettleQueue ==
  ASSUME TypeOK, JobsReport, InOrder, NEW n \in DOMAIN jobs, jobs[n].status = "running",
         NEW s \in {"failed", "done"}, jobs' = Settle(n, s),
         raced' = raced, deleted' = deleted
  PROVE  /\ JobsReport' /\ InOrder'
         /\ \A p \in Paths :
               /\ Done(p)' = IF s = "done" /\ Concerns(n, p) THEN Done(p) \cup {n} ELSE Done(p)
               /\ Fresh(p)' = Fresh(p) \ {n}
               /\ p \notin raced /\ Concerns(n, p) => \A m \in Done(p) : m <= n
         /\ SameJobs
<1>1. /\ jobs \in Seq(Job) /\ Len(jobs) \in Nat /\ DOMAIN jobs = 1..Len(jobs)
  BY DEF TypeOK
<1>2. /\ DOMAIN jobs' = DOMAIN jobs
      /\ jobs'[n].status = s /\ jobs'[n].told = TRUE
      /\ \A k \in DOMAIN jobs :
               /\ jobs'[k].kind = jobs[k].kind /\ jobs'[k].path = jobs[k].path
               /\ k # n => /\ jobs'[k].told = jobs[k].told
                           /\ \/ jobs'[k] = jobs[k]
                              \/ /\ k = n + 1 /\ jobs[k].status = "waiting"
                                 /\ jobs'[k].status = "running"
  BY SettleJobs
<1>3. JobsReport'
  <2> SUFFICES ASSUME NEW k \in DOMAIN jobs
               PROVE  /\ jobs'[k].status # "new"
                      /\ Settled(k)' => jobs'[k].told
                      /\ jobs'[k].kind = "removeAll" => jobs'[k].path[1] \in deleted
    BY <1>2 DEF JobsReport
  <2> QED
    BY <1>2 DEF JobsReport, Settled
<1>4. InOrder'
  <2> SUFFICES ASSUME NEW p \in Paths \ raced, NEW k \in DOMAIN jobs, Concerns(k, p)', ~Settled(k)',
                      NEW m \in DOMAIN jobs, m > k
               PROVE  jobs'[m].status = "waiting"
    BY <1>2 DEF InOrder, JobsOf
  <2>1. k # n /\ ~Settled(k) /\ k \in JobsOf(p)
    BY <1>2 DEF Settled, Concerns, JobsOf
  <2>2. \A j \in DOMAIN jobs : j > k => jobs[j].status = "waiting"
    BY <2>1 DEF InOrder
  <2>3. n < k
    BY <1>1, <2>1, <2>2
  <2> QED
    BY <1>1, <1>2, <2>2, <2>3
<1>5. ASSUME NEW p \in Paths
      PROVE  Done(p)' = IF s = "done" /\ Concerns(n, p) THEN Done(p) \cup {n} ELSE Done(p)
  <2>1. \A k \in DOMAIN jobs : Concerns(k, p)' <=> Concerns(k, p)
    BY <1>2 DEF Concerns
  <2>2. \A k \in DOMAIN jobs :
           (jobs'[k].status = "done") <=> (jobs[k].status = "done" \/ (k = n /\ s = "done"))
    BY <1>2
  <2> QED
    BY <1>2, <2>1, <2>2 DEF Done
<1>6. ASSUME NEW p \in Paths PROVE Fresh(p)' = Fresh(p) \ {n}
  <2>1. \A k \in DOMAIN jobs : Concerns(k, p)' <=> Concerns(k, p)
    BY <1>2 DEF Concerns
  <2>2. \A k \in DOMAIN jobs : (~jobs'[k].told) <=> (~jobs[k].told /\ k # n)
    BY <1>2, JobFields
  <2> QED
    BY <1>2, <2>1, <2>2 DEF Fresh, JobsOf
<1>7. ASSUME NEW p \in Paths \ raced, Concerns(n, p), NEW m \in Done(p) PROVE m <= n
  <2>1. ~Settled(n) /\ n \in JobsOf(p)
    BY <1>7 DEF Settled, JobsOf
  <2>2. m \in DOMAIN jobs /\ jobs[m].status = "done"
    BY <1>7 DEF Done
  <2> QED
    BY <1>1, <2>1, <2>2 DEF InOrder
<1> QED
  BY <1>2, <1>3, <1>4, <1>5, <1>6, <1>7 DEF SameJobs

\* A job that goes on changes nothing of this.
LEMMA ProgressQueue ==
  ASSUME TypeOK, JobsReport, InOrder, Progress,
         raced' = raced, deleted' = deleted
  PROVE  /\ JobsReport' /\ InOrder'
         /\ \A p \in Paths : Done(p)' = Done(p) /\ Fresh(p)' = Fresh(p)
         /\ SameJobs
<1>1. /\ DOMAIN jobs' = DOMAIN jobs
      /\ \A k \in DOMAIN jobs :
               /\ jobs'[k].kind = jobs[k].kind /\ jobs'[k].path = jobs[k].path
               /\ jobs'[k].told = jobs[k].told /\ jobs'[k].status = jobs[k].status
  BY ProgressJobs
<1>2. \A k \in DOMAIN jobs : Settled(k)' <=> Settled(k)
  BY <1>1 DEF Settled
<1>3. \A p \in Paths : \A k \in DOMAIN jobs : Concerns(k, p)' <=> Concerns(k, p)
  BY <1>1 DEF Concerns
<1>4. JobsReport'
  BY <1>1, <1>2 DEF JobsReport
<1>5. InOrder'
  BY <1>1, <1>2, <1>3 DEF InOrder, JobsOf
<1>6. \A p \in Paths : Done(p)' = Done(p) /\ Fresh(p)' = Fresh(p)
  BY <1>1, <1>3 DEF Done, Fresh, JobsOf
<1> QED
  BY <1>1, <1>4, <1>5, <1>6 DEF SameJobs

\* The uploads that showing an image runs again leave the order of the other fields.
LEMMA LoadQueue ==
  ASSUME TypeOK, JobsReport, InOrder, NEW q \in Paths, LoadFile(q)
  PROVE  /\ JobsReport' /\ InOrder'
         /\ \A p \in Paths : Done(p)' = Done(p) /\ Fresh(p)' = Fresh(p)
         /\ SameJobs
<1> DEFINE c == cache[q]
<1>1. /\ jobs \in Seq(Job) /\ Len(jobs) \in Nat /\ DOMAIN jobs = 1..Len(jobs)
      /\ c \in 1..Len(jobs) /\ jobs' = Subscribe(jobs, c) /\ deleted' = deleted
  BY DEF LoadFile, TypeOK
<1>2. /\ jobs' \in Seq(Job) /\ Len(jobs') = Len(jobs)
      /\ \A k \in DOMAIN jobs :
               /\ jobs'[k].kind = jobs[k].kind /\ jobs'[k].path = jobs[k].path
               /\ jobs'[k].told = jobs[k].told
               /\ k \notin Again(jobs, c) => jobs'[k] = jobs[k]
               /\ k \in Again(jobs, c) => jobs'[k].status \in {"waiting", "running"}
  BY <1>1, SubscribeJobs
<1>3. DOMAIN jobs' = DOMAIN jobs
  BY <1>1, <1>2
<1>4. \A k \in Again(jobs, c) : k \in DOMAIN jobs /\ jobs[k].status \in {"new", "failed"}
  BY <1>1 DEF Again
<1>5. \A p \in Paths : \A k \in DOMAIN jobs : Concerns(k, p)' <=> Concerns(k, p)
  BY <1>2 DEF Concerns
<1>6. JobsReport'
  <2>1. ASSUME NEW k \in DOMAIN jobs
        PROVE  /\ jobs'[k].status # "new"
               /\ Settled(k)' => jobs'[k].told
               /\ jobs'[k].kind = "removeAll" => jobs'[k].path[1] \in deleted
    BY <1>2 DEF JobsReport, Settled
  <2> QED
    BY <1>1, <1>3, <2>1 DEF JobsReport
<1>7. InOrder'
  <2> SUFFICES ASSUME NEW p \in Paths \ raced', NEW k \in DOMAIN jobs, Concerns(k, p)', ~Settled(k)',
                      NEW m \in DOMAIN jobs, m > k
               PROVE  jobs'[m].status = "waiting"
    BY <1>3 DEF InOrder, JobsOf
  <2>1. Concerns(k, p) /\ p \notin raced
    BY <1>5 DEF LoadFile
  <2>2. jobs'[k] = jobs[k]
    <3> SUFFICES ASSUME jobs'[k] # jobs[k] PROVE FALSE
      OBVIOUS
    <3>1. p \in PathsOf(k)
      BY <2>1 DEF PathsOf
    <3> QED
      BY <3>1 DEF LoadFile
  <2>3. ~Settled(k) /\ k \in JobsOf(p)
    BY <2>1, <2>2 DEF Settled, JobsOf
  <2>4. jobs[m].status = "waiting"
    BY <2>1, <2>3 DEF InOrder
  <2> QED
    BY <1>2, <1>4, <2>4
<1>8. \A k \in DOMAIN jobs : (jobs'[k].status = "done") <=> (jobs[k].status = "done")
  BY <1>2, <1>4
<1>9. \A p \in Paths : Done(p)' = Done(p) /\ Fresh(p)' = Fresh(p)
  BY <1>2, <1>3, <1>5, <1>8 DEF Done, Fresh, JobsOf
<1> QED
  BY <1>2, <1>6, <1>7, <1>9 DEF SameJobs

-----------------------------------------------------------------------------
\* A field that no step of this kind concerns stays as it is.
LEMMA LastKept ==
  ASSUME NEW p, FromLast(p), Done(p)' = Done(p), FileOf(p)' = FileOf(p),
         \A n \in Done(p) : jobs'[n].kind = jobs[n].kind
  PROVE  FromLast(p)'
  BY DEF FromLast

\* The greatest element of a set of numbers, once there is one
LEMMA MaxIs ==
  ASSUME NEW S \in SUBSET Nat, NEW n \in S, \A m \in S : m <= n
  PROVE  Max(S) = n
<1>1. n \in S /\ \A y \in S : n >= y
  OBVIOUS
<1>2. \E x \in S : \A y \in S : x >= y
  BY <1>1
<1>3. Max(S) \in S /\ \A y \in S : Max(S) >= y
  BY <1>2, Zenon DEF Max
<1>4. \A x \in S : (\A y \in S : x >= y) => x = n
  BY <1>1
<1> QED
  BY <1>3, <1>4, Zenon

\* The last job to succeed decides.
LEMMA LastAdded ==
  ASSUME NEW p, NEW n \in Nat, Done(p) \subseteq Nat, \A m \in Done(p) : m <= n,
         Done(p)' = Done(p) \cup {n},
         FileOf(p)' = IF jobs'[n].kind = "upload" THEN n ELSE NoFile
  PROVE  FromLast(p)'
<1>1. Max(Done(p)') = n
  BY MaxIs
<1> QED
  BY <1>1 DEF FromLast

\* What is held of the records stays as it is.
LEMMA SameHeld ==
  ASSUME TypeOK, SameJobs, copies' = copies, reverts' = reverts, NEW p
  PROVE  Held(p)' = Held(p) /\ (Reverting(p)' <=> Reverting(p))
<1>1. reverts \subseteq DOMAIN jobs /\ \A c \in copies : c[1] \in DOMAIN jobs
  BY DEF TypeOK
<1> QED
  BY <1>1 DEF Held, Reverting, SameJobs

\* A record that is saved is held no longer: the fields that count held nothing but what
\* has been saved.
LEMMA SavedHeld ==
  ASSUME TypeOK, SameJobs, NEW r, NEW saved, SaveRecord(r, saved), NEW p, p \notin unsaved'
  PROVE  /\ Held(p)' = IF p[1] = r THEN {} ELSE Held(p)
         /\ p[1] = r => Held(p) \subseteq saved
<1>1. \A c \in copies : jobs'[c[1]].path = jobs[c[1]].path
  BY DEF TypeOK, SameJobs
<1>2. \A c : c \in copies' <=> c \in copies /\ jobs[c[1]].path[1] # r
  BY DEF SaveRecord
<1>3. \A c \in copies \ saved : jobs[c[1]].path[1] = r => jobs[c[1]].path \in unsaved'
  BY DEF SaveRecord
<1> QED
  BY <1>1, <1>2, <1>3 DEF Held

\* So a record that is saved from none of them was not held.
LEMMA NothingHeld ==
  ASSUME TypeOK, SameJobs, NEW r, SaveRecord(r, {}), reverts' = reverts, NEW p, p \notin unsaved'
  PROVE  Held(p)' = Held(p) /\ (Reverting(p)' <=> Reverting(p))
<1>1. Held(p)' = Held(p)
  BY SavedHeld
<1>2. reverts \subseteq DOMAIN jobs
  BY DEF TypeOK
<1> QED
  BY <1>1, <1>2 DEF Reverting, SameJobs

\* No further record is to be loaded.
LEMMA EditsKept ==
  ASSUME TypeOK, FilesInv, SameJobs, reverts' \subseteq reverts
  PROVE  RevertsEdits'
<1>1. reverts \subseteq DOMAIN jobs
  BY DEF TypeOK
<1> QED
  BY <1>1 DEF FilesInv, RevertsEdits, SameJobs

\* The application is told nothing about the field, and does nothing to it.
LEMMA AgreesKept ==
  ASSUME TypeOK, NEW p \in Paths, Agrees(p), FileOf(p)' = FileOf(p), Fresh(p)' = Fresh(p),
         initial'[p] = initial[p], value'[p] = value[p],
         Held(p)' = Held(p), Reverting(p)' <=> Reverting(p), SameJobs
  PROVE  Agrees(p)'
<1>1. /\ \A n \in Fresh(p) : jobs'[n].kind = jobs[n].kind
      /\ \A c \in Held(p) : jobs'[c[1]].kind = jobs[c[1]].kind
  BY DEF SameJobs, Fresh, JobsOf, Held, TypeOK
<1>2. \A n \in Fresh(p) : Alone(p, n)' /\ Announced(p, n)'
  BY <1>1 DEF Agrees, Alone, Announced
<1> QED
  BY <1>1, <1>2 DEF Agrees

\* Nothing that has happened to a field is forgotten.
LEMMA HistoryGrows ==
  ASSUME [Next]_vars
  PROVE  /\ deleted \subseteq deleted' /\ lost \subseteq lost' /\ raced \subseteq raced'
         /\ rerun \subseteq rerun' /\ overlapped \subseteq overlapped'
         /\ unsaved \subseteq unsaved' /\ anonymized \subseteq anonymized'
         /\ \A p \in Paths : Clean(p)' => Clean(p)
<1>1. /\ deleted \subseteq deleted' /\ lost \subseteq lost' /\ raced \subseteq raced'
      /\ rerun \subseteq rerun' /\ overlapped \subseteq overlapped'
      /\ unsaved \subseteq unsaved' /\ anonymized \subseteq anonymized'
  <2>1. ASSUME NEW p \in Paths, UploadFile(p) \/ RemoveFile(p) PROVE <1>1!:
    BY <2>1 DEF UploadFile, RemoveFile, Overlaps, SaveRecord
  <2>2. ASSUME NEW p \in Paths, AnonymizeField(p) PROVE <1>1!:
    BY <2>2 DEF AnonymizeField, Overlaps, SaveRecord
  <2>3. ASSUME NEW p \in Paths, LoadFile(p) PROVE <1>1!:
    BY <2>3 DEF LoadFile
  <2>4. ASSUME NEW r \in Records, DeleteRecord(r) \/ ForeignChange(r) PROVE <1>1!:
    BY <2>4 DEF DeleteRecord, ForeignChange, SaveRecord, historyVars
  <2>5. ASSUME NEW n \in 1..MaxJobs, Requests(n) PROVE <1>1!:
    BY <2>5 DEF Requests, SyncEnds, AwaitSync, GetDoc, ChangeDoc, Fails, Succeeds, Continues,
                SaveRecord, historyVars
  <2>6. ASSUME NEW n \in 1..MaxJobs, RequestFails(n) PROVE <1>1!:
    BY <2>6 DEF RequestFails, Fails
  <2>7. CASE UNCHANGED vars
    BY <2>7 DEF vars, historyVars
  <2>8. ASSUME NEW n \in DOMAIN jobs, LoadEntity(n) \/ Revert(n) \/ RevertFails(n) PROVE <1>1!:
    BY <2>8 DEF LoadEntity, Revert, RevertFails, SaveRecord, historyVars
  <2> QED
    BY <2>1, <2>2, <2>3, <2>4, <2>5, <2>6, <2>7, <2>8 DEF Next
<1> QED
  BY <1>1 DEF Clean

\* Nothing of a field's past is forgotten in a step, see HistoryGrows.
HistoryKept ==
    /\ lost \subseteq lost' /\ raced \subseteq raced'
    /\ \A p \in Paths : Clean(p)' => Clean(p)

\* A queue that stays as it is
LEMMA SameQueue ==
  ASSUME JobsReport, InOrder, jobs' = jobs, raced \subseteq raced', deleted \subseteq deleted'
  PROVE  /\ JobsReport' /\ InOrder'
         /\ \A p \in Paths : Done(p)' = Done(p) /\ Fresh(p)' = Fresh(p)
<1>1. \A n, p : (Concerns(n, p)' <=> Concerns(n, p)) /\ (Settled(n)' <=> Settled(n))
  BY DEF Concerns, Settled
<1>2. JobsReport'
  BY <1>1 DEF JobsReport
<1>3. InOrder'
  BY <1>1 DEF InOrder, JobsOf
<1> QED
  BY <1>1, <1>2, <1>3 DEF Done, Fresh, JobsOf

\* No job succeeds and no file changes, apart from those that no longer count.
LEMMA LastOfAllKept ==
  ASSUME FilesInv, HistoryKept,
         \A p \in Paths : Done(p)' = Done(p),
         SameJobs,
         \A p \in Paths : p \notin lost' \cup raced' => FileOf(p)' = FileOf(p)
  PROVE  \A p \in Paths : p \notin lost' \cup raced' => FromLast(p)'
<1> SUFFICES ASSUME NEW p \in Paths, p \notin lost' \cup raced' PROVE FromLast(p)'
  OBVIOUS
<1>1. FromLast(p)
  BY DEF FilesInv, HistoryKept
<1>2. \A n \in Done(p) : jobs'[n].kind = jobs[n].kind
  BY DEF Done, SameJobs
<1> QED
  BY <1>1, <1>2, LastKept

\* Fields that the step leaves alone agree as before.
LEMMA OthersAgree ==
  ASSUME TypeOK, FilesInv, HistoryKept, NEW p \in Paths, Clean(p)', SameJobs,
         FileOf(p)' = FileOf(p), Fresh(p)' = Fresh(p), initial'[p] = initial[p],
         value'[p] = value[p], Held(p)' = Held(p), Reverting(p)' <=> Reverting(p)
  PROVE  Agrees(p)'
<1>1. Agrees(p)
  BY DEF FilesInv, HistoryKept
<1> QED
  BY <1>1, AgreesKept

\* A field for which nothing is under way has no fresh job, and names its file.
LEMMA IdleAgrees ==
  ASSUME FilesInv, NEW p \in Paths, Idle(p), Clean(p)
  PROVE  /\ Fresh(p) = {} /\ ~Reverting(p) /\ Held(p) = {}
         /\ value[p] = initial[p] /\ FileOf(p) = initial[p]
<1>1. Fresh(p) = {}
  BY DEF FilesInv, JobsReport, Fresh, JobsOf, Idle
<1>2. ~Reverting(p) /\ Held(p) = {}
  BY DEF Idle, Reverting, Held
<1> QED
  BY <1>1, <1>2 DEF FilesInv, Agrees

\* A change that the user makes is announced, and the only one under way.
LEMMA EditKeeps ==
  ASSUME TypeOK, FilesInv, HistoryKept, NEW q \in Paths,
         NEW kind \in {"upload", "remove", "anonymize"}, Add(kind, q), Overlaps(q),
         UNCHANGED <<docs, deleted, initial, reverts, raced, lost>>,
         \A p \in Paths : p # q => value'[p] = value[p],
         kind = "upload" => value'[q] = Len(jobs'),
         kind = "remove" => value'[q] = NoFile,
         kind = "anonymize" => value'[q] = value[q],
         \A p \in Paths : Clean(p)' =>
            Held(p)' = IF p = q /\ kind = "anonymize" THEN Held(p) \cup {<<Len(jobs'), NoFile>>}
                       ELSE Held(p)
  PROVE  FilesInv'
<1>1. kind \in Kinds /\ JobsReport /\ InOrder
  BY DEF Kinds, FilesInv
<1>2. /\ JobsReport' /\ InOrder'
      /\ \A p \in Paths :
               /\ Done(p)' = Done(p)
               /\ IF Targets(kind, q, p) THEN Fresh(p)' = Fresh(p) \cup {Len(jobs) + 1}
                                         ELSE Fresh(p)' = Fresh(p)
      /\ SameJobs
      /\ jobs'[Len(jobs) + 1].kind = kind
  BY <1>1, AddQueue
<1>3. \A p \in Paths : FileOf(p)' = FileOf(p)
  BY DEF FileOf
<1>4. /\ Len(jobs') = Len(jobs) + 1
      /\ \A p \in Paths : Reverting(p)' <=> Reverting(p)
  <2>1. reverts' = reverts /\ reverts \subseteq DOMAIN jobs
    BY DEF TypeOK
  <2>2. \A p \in Paths : Reverting(p)' <=> Reverting(p)
    BY <1>2, <2>1 DEF Reverting, SameJobs
  <2> QED
    BY <1>1, <2>2, AddJobs
<1>5. ASSUME NEW p \in Paths, Clean(p)' PROVE Agrees(p)'
  <2>1. Clean(p)
    BY <1>5 DEF HistoryKept
  <2>2. CASE p # q
    <3>1. Fresh(p)' = Fresh(p)
      BY <1>2, <2>2 DEF Targets
    <3> QED
      BY <1>2, <1>3, <1>4, <1>5, <2>2, <3>1, OthersAgree
  <2>3. CASE p = q
    <3>1. Idle(q)
      BY <1>5, <2>3 DEF Overlaps, Clean
    <3>2. /\ Fresh(q) = {} /\ ~Reverting(q) /\ Held(q) = {}
          /\ value[q] = initial[q] /\ FileOf(q) = initial[q]
      BY <2>1, <2>3, <3>1, IdleAgrees
    <3>3. Fresh(q)' = {Len(jobs) + 1}
      BY <1>2, <3>2 DEF Targets
    <3>4. ASSUME NEW n, n = Len(jobs) + 1 PROVE Announced(q, n)' /\ Alone(q, n)'
      BY <1>2, <1>4, <1>5, <2>3, <3>2, <3>3, <3>4 DEF Announced, Alone
    <3> QED
      BY <1>3, <2>3, <3>2, <3>3, <3>4 DEF Agrees
  <2> QED
    BY <2>2, <2>3
<1>6. \A p \in Paths : p \notin lost' \cup raced' => FromLast(p)'
  BY <1>2, <1>3, LastOfAllKept
<1>7. RevertsEdits'
  BY <1>2, EditsKept
<1> QED
  BY <1>2, <1>5, <1>6, <1>7 DEF FilesInv

\* The changes that the user makes keep the invariant.
LEMMA UserKeeps ==
  ASSUME TypeOK, FilesInv, HistoryKept, NEW q \in Paths,
         UploadFile(q) \/ RemoveFile(q) \/ AnonymizeField(q)
  PROVE  FilesInv'
<1>1. q \in DOMAIN value
  BY DEF TypeOK
<1>2. ASSUME NEW kind \in {"upload", "remove", "anonymize"}, Add(kind, q)
      PROVE  SameJobs
  BY <1>2, AddJobs DEF SameJobs, Kinds
<1>3. CASE UploadFile(q)
  <2>1. /\ Add("upload", q) /\ Overlaps(q) /\ SaveRecord(q[1], {})
        /\ UNCHANGED <<docs, deleted, initial, reverts, raced, lost>>
        /\ \A p \in Paths : p # q => value'[p] = value[p]
        /\ value'[q] = Len(jobs')
    BY <1>1, <1>3 DEF UploadFile, TypeOK
  <2>2. \A p \in Paths : Clean(p)' => Held(p)' = Held(p)
    BY <1>2, <2>1, NothingHeld DEF Clean
  <2> QED
    BY <2>1, <2>2, EditKeeps
<1>4. CASE RemoveFile(q)
  <2>1. /\ Add("remove", q) /\ Overlaps(q) /\ SaveRecord(q[1], {})
        /\ UNCHANGED <<docs, deleted, initial, reverts, raced, lost>>
        /\ \A p \in Paths : p # q => value'[p] = value[p]
        /\ value'[q] = NoFile
    BY <1>1, <1>4 DEF RemoveFile, TypeOK
  <2>2. \A p \in Paths : Clean(p)' => Held(p)' = Held(p)
    BY <1>2, <2>1, NothingHeld DEF Clean
  <2> QED
    BY <2>1, <2>2, EditKeeps
<1>5. CASE AnonymizeField(q) /\ q[2] \notin PhotoFields
  <2>1. /\ Add("anonymize", q) /\ Overlaps(q)
        /\ UNCHANGED <<docs, deleted, initial, reverts, raced, lost>>
        /\ value' = value /\ copies' = copies \cup {<<Len(jobs'), NoFile>>}
    BY <1>5 DEF AnonymizeField
  <2>2. /\ SameJobs /\ jobs'[Len(jobs')].path = q
    BY <1>2, <2>1, AddJobs DEF Kinds
  <2>3. \A c \in copies : jobs'[c[1]].path = jobs[c[1]].path
    BY <2>2 DEF SameJobs, TypeOK
  <2>4. \A p \in Paths : Held(p)' = IF p = q THEN Held(p) \cup {<<Len(jobs'), NoFile>>} ELSE Held(p)
    BY <2>1, <2>2, <2>3 DEF Held
  <2> QED
    BY <2>1, <2>4, EditKeeps
<1>6. CASE AnonymizeField(q) /\ q[2] \in PhotoFields
  <2>1. /\ UNCHANGED <<docs, deleted, jobs, reverts, raced, lost>> /\ SaveRecord(q[1], {})
        /\ \A p \in Paths : p # q => value'[p] = value[p] /\ initial'[p] = initial[p]
        /\ ~Clean(q)'
    BY <1>6 DEF AnonymizeField, TypeOK, Clean
  <2>2. /\ JobsReport' /\ InOrder' /\ SameJobs
        /\ \A p \in Paths : Done(p)' = Done(p) /\ Fresh(p)' = Fresh(p)
    BY <2>1, SameQueue DEF FilesInv, SameJobs
  <2>3. \A p \in Paths : FileOf(p)' = FileOf(p)
    BY <2>1 DEF FileOf
  <2>4. ASSUME NEW p \in Paths, Clean(p)' PROVE Agrees(p)'
    <3>1. Held(p)' = Held(p) /\ (Reverting(p)' <=> Reverting(p))
      BY <2>1, <2>2, <2>4, NothingHeld DEF Clean
    <3> QED
      BY <2>1, <2>2, <2>3, <2>4, <3>1, OthersAgree
  <2>5. \A p \in Paths : p \notin lost' \cup raced' => FromLast(p)'
    BY <2>1, <2>2, <2>3, LastOfAllKept
  <2>6. RevertsEdits'
    BY <2>1, <2>2, EditsKept
  <2> QED
    BY <2>2, <2>4, <2>5, <2>6 DEF FilesInv
<1> QED
  BY <1>3, <1>4, <1>5, <1>6

\* Deleting a record keeps the invariant: its fields no longer count.
LEMMA DeleteKeeps ==
  ASSUME TypeOK, FilesInv, HistoryKept, NEW r \in Records, DeleteRecord(r)
  PROVE  FilesInv'
<1> DEFINE q == <<r, CHOOSE f \in Fields : TRUE>>
<1>1. q \in Paths /\ q[1] = r
  BY FieldsAssumption DEF Paths
<1>2. /\ Add("removeAll", q) /\ UNCHANGED <<docs, value, initial, reverts, raced, lost>>
      /\ deleted' = deleted \cup {r} /\ SaveRecord(r, {})
  BY DEF DeleteRecord
<1> HIDE DEF q
<1>3. "removeAll" \in Kinds /\ JobsReport /\ InOrder /\ q[1] \in deleted' /\ deleted \subseteq deleted'
  BY <1>1, <1>2 DEF Kinds, FilesInv
<1>4. /\ JobsReport' /\ InOrder'
      /\ \A p \in Paths :
               /\ Done(p)' = Done(p)
               /\ IF Targets("removeAll", q, p) THEN Fresh(p)' = Fresh(p) \cup {Len(jobs) + 1}
                                         ELSE Fresh(p)' = Fresh(p)
      /\ SameJobs
  BY <1>1, <1>2, <1>3, AddQueue
<1>5. \A p \in Paths : FileOf(p)' = FileOf(p)
  BY <1>2 DEF FileOf
<1>6. ASSUME NEW p \in Paths, Clean(p)' PROVE Agrees(p)'
  <2>1. Fresh(p)' = Fresh(p)
    BY <1>1, <1>2, <1>4, <1>6 DEF Targets, Clean
  <2>2. Held(p)' = Held(p) /\ (Reverting(p)' <=> Reverting(p))
    BY <1>2, <1>4, <1>6, NothingHeld DEF Clean
  <2> QED
    BY <1>2, <1>4, <1>5, <1>6, <2>1, <2>2, OthersAgree
<1>7. \A p \in Paths : p \notin lost' \cup raced' => FromLast(p)'
  BY <1>4, <1>5, LastOfAllKept
<1>8. RevertsEdits'
  BY <1>2, <1>4, EditsKept
<1> QED
  BY <1>4, <1>6, <1>7, <1>8 DEF FilesInv

\* Showing an image keeps the invariant.
LEMMA LoadKeeps ==
  ASSUME TypeOK, FilesInv, HistoryKept, NEW q \in Paths, LoadFile(q)
  PROVE  FilesInv'
<1>1. /\ JobsReport' /\ InOrder'
      /\ \A p \in Paths : Done(p)' = Done(p) /\ Fresh(p)' = Fresh(p)
      /\ SameJobs
  BY LoadQueue DEF FilesInv
<1>2. /\ UNCHANGED <<value, initial, lost>>
      /\ \A p \in Paths : FileOf(p)' = FileOf(p)
  BY DEF LoadFile, FileOf
<1>3. \A p \in Paths : Held(p)' = Held(p) /\ (Reverting(p)' <=> Reverting(p))
  BY <1>1, SameHeld DEF LoadFile
<1>4. ASSUME NEW p \in Paths, Clean(p)' PROVE Agrees(p)'
  BY <1>1, <1>2, <1>3, <1>4, OthersAgree
<1>5. \A p \in Paths : p \notin lost' \cup raced' => FromLast(p)'
  BY <1>1, <1>2, LastOfAllKept
<1>6. RevertsEdits'
  BY <1>1, EditsKept DEF LoadFile
<1> QED
  BY <1>1, <1>4, <1>5, <1>6 DEF FilesInv

\* So does a change by another client, which leaves the files alone.
LEMMA ForeignKeeps ==
  ASSUME TypeOK, FilesInv, HistoryKept, NEW r \in Records, ForeignChange(r)
  PROVE  FilesInv'
<1>1. /\ UNCHANGED <<value, deleted, jobs, initial, reverts, copies, raced, lost>>
      /\ \A p \in Paths : FileOf(p)' = FileOf(p)
  BY RevisionKeepsFiles DEF ForeignChange, historyVars
<1>2. /\ JobsReport' /\ InOrder' /\ SameJobs
      /\ \A p \in Paths : Done(p)' = Done(p) /\ Fresh(p)' = Fresh(p)
  BY <1>1, SameQueue DEF FilesInv, SameJobs
<1>3. \A p \in Paths : Held(p)' = Held(p) /\ (Reverting(p)' <=> Reverting(p))
  BY <1>1, <1>2, SameHeld
<1>4. ASSUME NEW p \in Paths, Clean(p)' PROVE Agrees(p)'
  BY <1>1, <1>2, <1>3, <1>4, OthersAgree
<1>5. \A p \in Paths : p \notin lost' \cup raced' => FromLast(p)'
  BY <1>1, <1>2, LastOfAllKept
<1>6. RevertsEdits'
  BY <1>1, <1>2, EditsKept
<1> QED
  BY <1>2, <1>4, <1>5, <1>6 DEF FilesInv

\* To take a change back, the record is loaded, and the file that the component remembers
\* is put into it ...
LEMMA LoadEntityKeeps ==
  ASSUME TypeOK, FilesInv, HistoryKept, NEW n \in DOMAIN jobs, LoadEntity(n)
  PROVE  FilesInv'
<1> DEFINE q == jobs[n].path
<1>1. /\ UNCHANGED <<docs, value, deleted, jobs, initial, raced, lost>>
      /\ n \in reverts /\ reverts' = reverts \ {n}
      /\ q[1] \notin deleted => copies' = copies \cup {<<n, initial[q]>>}
      /\ q[1] \in deleted => copies' = copies
  BY DEF LoadEntity, historyVars
<1>2. /\ JobsReport' /\ InOrder' /\ SameJobs
      /\ \A p \in Paths : Done(p)' = Done(p) /\ Fresh(p)' = Fresh(p)
  BY <1>1, SameQueue DEF FilesInv, SameJobs
<1>3. \A p \in Paths : FileOf(p)' = FileOf(p)
  BY <1>1 DEF FileOf
<1>4. jobs[n].kind # "anonymize"
  BY <1>1 DEF FilesInv, RevertsEdits
<1> HIDE DEF q
<1>5. ASSUME NEW p \in Paths, Clean(p)' PROVE Agrees(p)'
  <2>1. Agrees(p) /\ p[1] \notin deleted
    BY <1>5 DEF FilesInv, HistoryKept, Clean
  <2>2. CASE p # q
    <3>1. Held(p)' = Held(p) /\ (Reverting(p)' <=> Reverting(p))
      BY <1>1, <2>2 DEF Held, Reverting, q
    <3> QED
      BY <1>1, <1>2, <1>3, <1>5, <3>1, OthersAgree
  <2>3. CASE p = q
    <3>1. Reverting(p)
      BY <1>1, <2>3 DEF Reverting, q
    <3>2. Fresh(p)' = {} /\ Fresh(p) = {}
      BY <1>2, <2>1, <3>1 DEF Agrees, Alone
    <3>3. Held(p)' = Held(p) \cup {<<n, initial[p]>>}
      BY <1>1, <2>1, <2>3 DEF Held, q
    <3>4. \A c \in Held(p)' : c[2] = initial[p] /\ jobs[c[1]].kind # "anonymize"
      BY <1>4, <2>1, <3>2, <3>3 DEF Agrees
    <3> QED
      BY <1>1, <1>3, <2>1, <3>2, <3>3, <3>4 DEF Agrees
  <2> QED
    BY <2>2, <2>3
<1>6. \A p \in Paths : p \notin lost' \cup raced' => FromLast(p)'
  BY <1>1, <1>2, <1>3, LastOfAllKept
<1>7. RevertsEdits'
  BY <1>1, <1>2, EditsKept
<1> QED
  BY <1>2, <1>5, <1>6, <1>7 DEF FilesInv

\* ... and then saved.
LEMMA RevertKeeps ==
  ASSUME TypeOK, FilesInv, HistoryKept, NEW n \in DOMAIN jobs, Revert(n)
  PROVE  FilesInv'
<1> DEFINE q == jobs[n].path
<1>1. /\ UNCHANGED <<docs, deleted, jobs, initial, reverts, raced, lost>>
      /\ jobs[n].kind # "anonymize" /\ q \in Paths
  BY JobFields DEF Revert
<1>2. PICK c \in copies : /\ c[1] = n /\ value' = [value EXCEPT ![q] = c[2]]
                          /\ SaveRecord(q[1], {c})
  BY DEF Revert
<1>3. /\ JobsReport' /\ InOrder' /\ SameJobs
      /\ \A p \in Paths : Done(p)' = Done(p) /\ Fresh(p)' = Fresh(p)
  BY <1>1, SameQueue DEF FilesInv, SameJobs
<1>4. \A p \in Paths : FileOf(p)' = FileOf(p)
  BY <1>1 DEF FileOf
<1>5. c \in Held(q)
  BY <1>2 DEF Held
<1> HIDE DEF q
<1>6. ASSUME NEW p \in Paths, Clean(p)' PROVE Agrees(p)'
  <2>1. Agrees(p)
    BY <1>6 DEF FilesInv, HistoryKept
  <2>2. /\ Held(p)' = IF p[1] = q[1] THEN {} ELSE Held(p)
        /\ p[1] = q[1] => Held(p) \subseteq {c}
    BY <1>2, <1>3, <1>6, SavedHeld DEF Clean
  <2>3. Reverting(p)' <=> Reverting(p)
    BY <1>1 DEF Reverting
  <2>4. CASE p # q
    <3>1. c \notin Held(p)
      BY <1>5, <2>4 DEF Held
    <3>2. Held(p)' = Held(p)
      BY <2>2, <3>1
    <3>3. value'[p] = value[p]
      BY <1>2, <2>4 DEF TypeOK
    <3> QED
      BY <1>1, <1>3, <1>4, <1>6, <2>3, <3>2, <3>3, OthersAgree
  <2>5. CASE p = q
    <3>1. Fresh(p) = {}
      <4>1. ASSUME NEW m \in Fresh(p) PROVE FALSE
        <5>1. Alone(p, m)
          BY <2>1 DEF Agrees
        <5>2. c = <<m, NoFile>> /\ jobs[m].kind = "anonymize"
          BY <1>5, <2>5, <5>1 DEF Alone
        <5> QED
          BY <1>1, <1>2, <5>2
      <4> QED
        BY <4>1
    <3>2. value'[p] = c[2] /\ c[2] = initial[p]
      BY <1>1, <1>2, <1>5, <2>1, <2>5, <3>1 DEF TypeOK, Agrees
    <3>3. Held(p)' = {} /\ Fresh(p)' = {}
      BY <1>3, <2>2, <2>5, <3>1
    <3> QED
      BY <1>1, <1>4, <2>1, <3>2, <3>3 DEF Agrees
  <2> QED
    BY <2>4, <2>5
<1>7. \A p \in Paths : p \notin lost' \cup raced' => FromLast(p)'
  BY <1>1, <1>3, <1>4, LastOfAllKept
<1>8. RevertsEdits'
  BY <1>1, <1>3, EditsKept
<1> QED
  BY <1>3, <1>6, <1>7, <1>8 DEF FilesInv

\* If the record can be neither loaded nor saved, its field no longer counts.
LEMMA RevertFailsKeeps ==
  ASSUME TypeOK, FilesInv, HistoryKept, NEW n \in DOMAIN jobs, RevertFails(n)
  PROVE  FilesInv'
<1>1. /\ UNCHANGED <<docs, value, deleted, jobs, initial, raced, lost>>
      /\ reverts' = reverts \ {n} /\ copies' = {c \in copies : c[1] # n}
      /\ jobs[n].path \in unsaved'
  BY DEF RevertFails
<1>2. /\ JobsReport' /\ InOrder' /\ SameJobs
      /\ \A p \in Paths : Done(p)' = Done(p) /\ Fresh(p)' = Fresh(p)
  BY <1>1, SameQueue DEF FilesInv, SameJobs
<1>3. \A p \in Paths : FileOf(p)' = FileOf(p)
  BY <1>1 DEF FileOf
<1>4. ASSUME NEW p \in Paths, Clean(p)' PROVE Agrees(p)'
  <2>1. p # jobs[n].path
    BY <1>1, <1>4 DEF Clean
  <2>2. Held(p)' = Held(p) /\ (Reverting(p)' <=> Reverting(p))
    BY <1>1, <2>1 DEF Held, Reverting
  <2> QED
    BY <1>1, <1>2, <1>3, <1>4, <2>2, OthersAgree
<1>5. \A p \in Paths : p \notin lost' \cup raced' => FromLast(p)'
  BY <1>1, <1>2, <1>3, LastOfAllKept
<1>6. RevertsEdits'
  BY <1>1, <1>2, EditsKept
<1> QED
  BY <1>2, <1>4, <1>5, <1>6 DEF FilesInv

\* A job that fails leaves the files alone.  Its component is told, and takes the change
\* back; a removal of all files has no component left to tell.
LEMMA FailureKeeps ==
  ASSUME TypeOK, FilesInv, HistoryKept, NEW n \in DOMAIN jobs, jobs[n].status = "running",
         Fails(n), UNCHANGED <<deleted, raced>>,
         \A p \in Paths : p \notin lost' \cup raced' => FileOf(p)' = FileOf(p)
  PROVE  FilesInv'
<1>1. /\ JobsReport' /\ InOrder'
      /\ \A p \in Paths : Done(p)' = Done(p) /\ Fresh(p)' = Fresh(p) \ {n}
      /\ SameJobs
  BY SettleQueue DEF FilesInv, Fails
<1>2. value' = value /\ initial' = initial
  BY DEF Fails
<1>3. \A p \in Paths : p \notin lost' \cup raced' => FromLast(p)'
  BY <1>1, LastOfAllKept
<1>4. jobs[n].kind \in {"upload", "remove", "anonymize", "removeAll"}
  BY JobFields DEF Kinds
<1>5. reverts \subseteq DOMAIN jobs /\ \A c \in copies : c[1] \in DOMAIN jobs
  BY DEF TypeOK
<1>6. ASSUME NEW p \in Paths, Clean(p)' PROVE Agrees(p)'
  <2>1. FileOf(p)' = FileOf(p)
    BY <1>6 DEF Clean
  <2>2. Agrees(p) /\ p[1] \notin deleted
    BY <1>6 DEF FilesInv, HistoryKept, Clean
  <2>3. CASE n \notin Fresh(p)
    <3>1. Fresh(p)' = Fresh(p)
      BY <1>1, <2>3
    <3>2. Reverting(p)' <=> Reverting(p)
      BY <1>1, <1>5, <2>3 DEF Fails, Fresh, JobsOf, Concerns, Reverting, SameJobs
    <3>3. Held(p)' = Held(p)
      <4>1. ASSUME NEW c \in Held(p), c[1] = n PROVE jobs[n].kind # "anonymize"
        <5>1. CASE Fresh(p) = {}
          BY <2>2, <4>1, <5>1 DEF Agrees
        <5>2. CASE \E m : m \in Fresh(p)
          <6>1. PICK m \in Fresh(p) : Alone(p, m)
            BY <2>2, <5>2 DEF Agrees
          <6> QED
            BY <2>3, <4>1, <6>1 DEF Alone
        <5> QED
          BY <5>1, <5>2
      <4>2. \A c \in Held(p) : c \in copies'
        BY <4>1 DEF Fails, Held
      <4>3. \A c \in copies : jobs'[c[1]].path = jobs[c[1]].path
        BY <1>1, <1>5 DEF SameJobs
      <4>4. copies' \subseteq copies
        BY DEF Fails
      <4> QED
        BY <4>2, <4>3, <4>4 DEF Held
    <3> QED
      BY <1>1, <1>2, <1>6, <2>1, <3>1, <3>2, <3>3, OthersAgree
  <2>4. CASE n \in Fresh(p)
    <3>1. /\ Alone(p, n) /\ Announced(p, n) /\ FileOf(p) = initial[p]
          /\ Concerns(n, p) /\ ~jobs[n].told
      BY <2>2, <2>4 DEF Agrees, Fresh, JobsOf
    <3>2. Fresh(p)' = {}
      BY <1>1, <3>1 DEF Alone
    <3>3. jobs[n].kind # "removeAll" /\ jobs[n].path = p
      BY <2>2, <3>1 DEF Concerns, FilesInv, JobsReport
    <3>4. Reverting(p)' \/ value[p] = initial[p]
      BY <1>1, <1>4, <3>1, <3>3 DEF Fails, Announced, Reverting, SameJobs
    <3>5. Held(p)' = {}
      BY <1>1, <1>5, <3>1 DEF Alone, Fails, Held, SameJobs
    <3> QED
      BY <1>2, <2>1, <3>1, <3>2, <3>4, <3>5 DEF Agrees
  <2> QED
    BY <2>3, <2>4
<1>7. RevertsEdits'
  BY <1>1, <1>5 DEF FilesInv, Fails, RevertsEdits, SameJobs
<1> QED
  BY <1>1, <1>3, <1>6, <1>7 DEF FilesInv

\* What the component and the record say about a field once a job has succeeded.
LEMMA SuccessTold ==
  ASSUME TypeOK, NEW n \in DOMAIN jobs, NEW found \in BOOLEAN, Succeeds(n, found),
         NEW p \in Paths, p[1] \notin deleted
  PROVE  /\ ~Concerns(n, p) => initial'[p] = initial[p] /\ value'[p] = value[p]
         /\ Concerns(n, p) /\ jobs[n].told => p \in rerun'
         /\ Concerns(n, p) /\ ~jobs[n].told =>
               /\ jobs[n].kind = "upload" => initial'[p] = value[p] /\ value'[p] = value[p]
               /\ jobs[n].kind = "remove" => initial'[p] = NoFile /\ value'[p] = value[p]
               /\ jobs[n].kind = "anonymize" /\ <<n, NoFile>> \in copies =>
                     initial'[p] = NoFile /\ value'[p] = NoFile
<1> DEFINE q == jobs[n].path
<1>1. /\ q \in Paths /\ jobs[n].told \in BOOLEAN
      /\ value \in [Paths -> Files] /\ initial \in [Paths -> Files]
  BY JobFields DEF TypeOK
<1>2. CASE ~Concerns(n, p)
  <2>1. jobs[n].kind = "removeAll" \/ p # q
    BY <1>2 DEF Concerns
  <2> QED
    BY <1>1, <1>2, <2>1 DEF Succeeds
<1>3. CASE Concerns(n, p) /\ jobs[n].told
  BY <1>3 DEF Succeeds, PathsOf
<1>4. CASE Concerns(n, p) /\ ~jobs[n].told
  BY <1>1, <1>4 DEF Succeeds, Concerns
<1> QED
  BY <1>2, <1>3, <1>4

\* A record that an anonymization has been about to save is not held any longer.
LEMMA SuccessHeld ==
  ASSUME TypeOK, SameJobs, NEW n \in DOMAIN jobs, NEW found \in BOOLEAN, Succeeds(n, found),
         NEW p \in Paths, p \notin unsaved'
  PROVE  /\ Reverting(p)' <=> Reverting(p)
         /\ p # jobs[n].path => Held(p)' = Held(p)
         /\ p = jobs[n].path =>
               Held(p)' = IF jobs[n].kind = "anonymize" /\ <<n, NoFile>> \in copies THEN {}
                          ELSE Held(p)
<1>1. Reverting(p)' <=> Reverting(p)
  BY DEF Succeeds, Reverting, SameJobs, TypeOK
<1>2. CASE jobs[n].kind = "anonymize" /\ <<n, NoFile>> \in copies
  <2>1. SaveRecord(jobs[n].path[1], {<<n, NoFile>>})
    BY <1>2 DEF Succeeds
  <2>2. /\ Held(p)' = IF p[1] = jobs[n].path[1] THEN {} ELSE Held(p)
        /\ p[1] = jobs[n].path[1] => Held(p) \subseteq {<<n, NoFile>>}
    BY <2>1, SavedHeld
  <2>3. p # jobs[n].path => <<n, NoFile>> \notin Held(p)
    BY DEF Held
  <2> QED
    BY <1>1, <1>2, <2>2, <2>3
<1>3. CASE ~(jobs[n].kind = "anonymize" /\ <<n, NoFile>> \in copies)
  <2>1. copies' = copies /\ reverts' = reverts
    BY <1>3 DEF Succeeds
  <2> QED
    BY <1>3, <2>1, SameHeld
<1> QED
  BY <1>2, <1>3

\* A job that succeeds has made of its fields what the component now remembers, unless the
\* component had given it up.
LEMMA SuccessKeeps ==
  ASSUME TypeOK, FilesInv, HistoryKept, NEW n \in DOMAIN jobs, jobs[n].status = "running",
         NEW found \in BOOLEAN, Succeeds(n, found), UNCHANGED <<deleted, raced>>,
         \A p \in Paths : FileOf(p)' = IF Concerns(n, p)
                                       THEN IF jobs[n].kind = "upload" THEN n ELSE NoFile
                                       ELSE FileOf(p)
  PROVE  FilesInv'
<1>1. /\ JobsReport' /\ InOrder'
      /\ \A p \in Paths :
               /\ Done(p)' = IF Concerns(n, p) THEN Done(p) \cup {n} ELSE Done(p)
               /\ Fresh(p)' = Fresh(p) \ {n}
               /\ p \notin raced /\ Concerns(n, p) => \A m \in Done(p) : m <= n
      /\ SameJobs
  BY SettleQueue DEF FilesInv, Succeeds
<1>2. jobs[n].kind \in {"upload", "remove", "anonymize", "removeAll"} /\ n \in Nat
  BY JobFields DEF Kinds
<1>3. reverts' = reverts
  BY DEF Succeeds
<1>4. ASSUME NEW p \in Paths, p \notin lost' \cup raced' PROVE FromLast(p)'
  <2>1. CASE Concerns(n, p)
    <3>1. /\ Done(p)' = Done(p) \cup {n}
          /\ FileOf(p)' = IF jobs'[n].kind = "upload" THEN n ELSE NoFile
          /\ \A m \in Done(p) : m <= n
      BY <1>1, <1>4, <2>1 DEF SameJobs
    <3>2. Done(p) \subseteq Nat
      BY JobFields DEF Done
    <3> QED
      BY <1>2, <3>1, <3>2, LastAdded
  <2>2. CASE ~Concerns(n, p)
    <3>1. Done(p)' = Done(p) /\ FileOf(p)' = FileOf(p) /\ FromLast(p)
      BY <1>1, <1>4, <2>2 DEF FilesInv, HistoryKept
    <3>2. \A k \in Done(p) : jobs'[k].kind = jobs[k].kind
      BY <1>1 DEF Done, SameJobs
    <3> QED
      BY <3>1, <3>2, LastKept
  <2> QED
    BY <2>1, <2>2
<1>5. ASSUME NEW p \in Paths, Clean(p)' PROVE Agrees(p)'
  <2>1. Agrees(p) /\ p[1] \notin deleted /\ p \notin rerun' /\ p \notin unsaved'
    BY <1>5 DEF FilesInv, HistoryKept, Clean
  <2>2. CASE ~Concerns(n, p)
    <3>1. Fresh(p)' = Fresh(p)
      BY <1>1, <2>2 DEF Fresh, JobsOf
    <3>2. initial'[p] = initial[p] /\ value'[p] = value[p] /\ FileOf(p)' = FileOf(p)
      BY <2>1, <2>2, SuccessTold
    <3>3. p # jobs[n].path \/ jobs[n].kind = "removeAll"
      BY <2>2 DEF Concerns
    <3>4. Held(p)' = Held(p) /\ (Reverting(p)' <=> Reverting(p))
      BY <1>1, <2>1, <3>3, SuccessHeld
    <3> QED
      BY <1>1, <1>5, <3>1, <3>2, <3>4, OthersAgree
  <2>3. CASE Concerns(n, p)
    <3>1. ~jobs[n].told
      BY <2>1, <2>3, SuccessTold
    <3>2. n \in Fresh(p)
      BY <2>3, <3>1 DEF Fresh, JobsOf
    <3>3. Alone(p, n) /\ Announced(p, n)
      BY <2>1, <3>2 DEF Agrees
    <3>4. Fresh(p)' = {}
      BY <1>1, <3>3 DEF Alone
    <3>5. jobs[n].kind # "removeAll" /\ jobs[n].path = p
      BY <2>1, <2>3 DEF Concerns, FilesInv, JobsReport
    <3>6. jobs[n].kind = "anonymize" => <<n, NoFile>> \in copies
      BY <3>3 DEF Alone, Held
    <3>7. Held(p)' = {}
      BY <1>1, <2>1, <3>3, <3>5, <3>6, SuccessHeld DEF Alone
    <3>8. FileOf(p)' = initial'[p] /\ value'[p] = initial'[p]
      <4>1. /\ jobs[n].kind = "upload" => initial'[p] = value[p] /\ value'[p] = value[p]
            /\ jobs[n].kind = "remove" => initial'[p] = NoFile /\ value'[p] = value[p]
            /\ jobs[n].kind = "anonymize" => initial'[p] = NoFile /\ value'[p] = NoFile
        BY <2>1, <2>3, <3>1, <3>6, SuccessTold
      <4>2. FileOf(p)' = IF jobs[n].kind = "upload" THEN n ELSE NoFile
        BY <2>3
      <4> QED
        BY <1>2, <3>3, <3>5, <4>1, <4>2 DEF Announced
    <3> QED
      BY <3>4, <3>7, <3>8 DEF Agrees
  <2> QED
    BY <2>2, <2>3
<1>6. RevertsEdits'
  BY <1>1, <1>3, EditsKept
<1> QED
  BY <1>1, <1>4, <1>5, <1>6 DEF FilesInv

\* A job that goes on has not changed a file yet.
LEMMA ProgressKeeps ==
  ASSUME TypeOK, FilesInv, HistoryKept, Progress,
         UNCHANGED <<value, deleted, initial, reverts, copies, raced>>,
         \A p \in Paths : FileOf(p)' = FileOf(p)
  PROVE  FilesInv'
<1>1. /\ JobsReport' /\ InOrder'
      /\ \A p \in Paths : Done(p)' = Done(p) /\ Fresh(p)' = Fresh(p)
      /\ SameJobs
  BY ProgressQueue DEF FilesInv
<1>2. ASSUME NEW p \in Paths, Clean(p)' PROVE Agrees(p)'
  <2>1. Held(p)' = Held(p) /\ (Reverting(p)' <=> Reverting(p))
    BY <1>1, SameHeld
  <2> QED
    BY <1>1, <1>2, <2>1, OthersAgree
<1>3. \A p \in Paths : p \notin lost' \cup raced' => FromLast(p)'
  BY <1>1, LastOfAllKept
<1>4. RevertsEdits'
  BY <1>1, EditsKept
<1> QED
  BY <1>1, <1>2, <1>3, <1>4 DEF FilesInv

\* Nothing to remove where there is no document: a job that ends without it is right.
LEMMA NothingToRemove ==
  ASSUME TypeOK, NEW n \in DOMAIN jobs, ~Doc(n).exists, jobs[n].kind # "upload", docs' = docs,
         NEW p \in Paths
  PROVE  FileOf(p)' = IF Concerns(n, p)
                      THEN IF jobs[n].kind = "upload" THEN n ELSE NoFile
                      ELSE FileOf(p)
<1>1. FileOf(p)' = FileOf(p)
  BY DEF FileOf
<1>2. jobs[n].path \in Paths /\ jobs[n].path[1] \in Records /\ p[2] \in Fields
  BY JobFields, PathParts
<1>3. Concerns(n, p) => p[1] = jobs[n].path[1]
  BY DEF Concerns
<1>4. Concerns(n, p) => FileOf(p) = NoFile
  BY <1>2, <1>3, DocFields DEF FileOf, Doc
<1> QED
  BY <1>1, <1>4

\* The requests of a job keep the invariant.
LEMMA RequestsKeep ==
  ASSUME TypeOK, FilesInv, HistoryKept, NEW n \in 1..MaxJobs, Requests(n) \/ RequestFails(n)
  PROVE  FilesInv'
<1>1. n \in DOMAIN jobs
  BY DEF Requests, SyncEnds, AwaitSync, GetDoc, ChangeDoc, RequestFails, Running
<1>2. Doc(n).rev \in Nat /\ Doc(n).rev + 1 \in Nat /\ 0 \in Nat
  BY <1>1, JobFields, PathParts, DocFields DEF Doc
<1>3. docs' = docs => \A p \in Paths : FileOf(p)' = FileOf(p)
  BY DEF FileOf
<1>4. ASSUME NEW step \in {"get", "create", "change"}, NEW rev \in Nat, Continues(n, step, rev)
      PROVE  Progress /\ UNCHANGED <<value, initial, reverts, copies>>
  BY <1>1, <1>4 DEF Continues, Progress
<1>5. CASE SyncEnds(n)
  <2>1. Progress
    BY <1>5, SyncProgress
  <2>2. UNCHANGED <<docs, value, deleted, initial, reverts, copies, raced>>
    BY <1>5 DEF SyncEnds, historyVars
  <2> QED
    BY <1>1, <1>3, <2>1, <2>2, ProgressKeeps
<1>6. CASE AwaitSync(n)
  <2>1. /\ jobs[n].status = "running" /\ UNCHANGED <<docs, deleted, raced>>
        /\ Continues(n, "get", 0) \/ Fails(n)
    BY <1>6 DEF AwaitSync, Running
  <2>2. CASE Continues(n, "get", 0)
    BY <1>1, <1>2, <1>3, <1>4, <2>1, <2>2, ProgressKeeps
  <2>3. CASE Fails(n)
    BY <1>1, <1>3, <2>1, <2>3, FailureKeeps
  <2> QED
    BY <2>1, <2>2, <2>3
<1>7. CASE GetDoc(n)
  <2>1. /\ jobs[n].status = "running" /\ UNCHANGED <<docs, deleted, raced>>
        /\ \/ Continues(n, "change", Doc(n).rev)
           \/ Continues(n, "create", 0)
           \/ ~Doc(n).exists /\ jobs[n].kind # "upload" /\ Succeeds(n, FALSE)
    BY <1>7 DEF GetDoc, Running
  <2>2. CASE Continues(n, "change", Doc(n).rev) \/ Continues(n, "create", 0)
    BY <1>1, <1>2, <1>3, <1>4, <2>1, <2>2, ProgressKeeps
  <2>3. CASE ~Doc(n).exists /\ jobs[n].kind # "upload" /\ Succeeds(n, FALSE)
    BY <1>1, <2>1, <2>3, NothingToRemove, SuccessKeeps
  <2> QED
    BY <2>1, <2>2, <2>3
<1>8. CASE ChangeDoc(n) /\ Accepts(n)
  <2>1. /\ jobs[n].status = "running" /\ UNCHANGED <<deleted, raced>>
        /\ jobs[n].step \in {"create", "change"}
        /\ docs' = [docs EXCEPT ![jobs[n].path[1]] = Changed(n)]
        /\ IF jobs[n].step = "create" THEN Continues(n, "change", Doc(n).rev + 1)
                                      ELSE Succeeds(n, TRUE)
    BY <1>8 DEF ChangeDoc, Running
  <2>2. \A p \in Paths :
               FileOf(p)' = IF jobs[n].step = "change" /\ Concerns(n, p)
                            THEN IF jobs[n].kind = "upload" THEN n ELSE NoFile
                            ELSE FileOf(p)
    BY <1>1, <1>8, <2>1, RequestChangesFiles
  <2>3. CASE jobs[n].step = "create"
    BY <1>1, <1>2, <1>4, <2>1, <2>2, <2>3, ProgressKeeps
  <2>4. CASE jobs[n].step = "change"
    BY <1>1, <2>1, <2>2, <2>4, SuccessKeeps
  <2> QED
    BY <2>1, <2>3, <2>4
<1>9. CASE ChangeDoc(n) /\ ~Accepts(n)
  <2>1. /\ jobs[n].status = "running" /\ UNCHANGED <<docs, deleted, raced>>
        /\ \/ ~Doc(n).exists /\ jobs[n].kind # "upload" /\ Succeeds(n, FALSE)
           \/ Fails(n)
    BY <1>9 DEF ChangeDoc, Running
  <2>2. CASE ~Doc(n).exists /\ jobs[n].kind # "upload" /\ Succeeds(n, FALSE)
    BY <1>1, <2>1, <2>2, NothingToRemove, SuccessKeeps
  <2>3. CASE Fails(n)
    BY <1>1, <1>3, <2>1, <2>3, FailureKeeps
  <2> QED
    BY <2>1, <2>2, <2>3
<1>10. CASE RequestFails(n)
  <2>1. /\ jobs[n].status = "running" /\ UNCHANGED <<deleted, raced>> /\ Fails(n)
        /\ jobs[n].step # "sync"
        /\ \/ docs' = docs
           \/ /\ jobs[n].step # "get" /\ Accepts(n)
              /\ docs' = [docs EXCEPT ![jobs[n].path[1]] = Changed(n)]
              /\ lost' = IF jobs[n].step = "change" THEN lost \cup PathsOf(n) ELSE lost
    BY <1>10 DEF RequestFails, Running
  <2>2. ASSUME NEW p \in Paths, p \notin lost' \cup raced' PROVE FileOf(p)' = FileOf(p)
    <3>1. CASE docs' = docs
      BY <1>3, <3>1
    <3>2. CASE /\ jobs[n].step # "get" /\ Accepts(n)
               /\ docs' = [docs EXCEPT ![jobs[n].path[1]] = Changed(n)]
               /\ lost' = IF jobs[n].step = "change" THEN lost \cup PathsOf(n) ELSE lost
      <4>1. jobs[n].step \in {"create", "change"}
        BY <1>1, <2>1, <3>2, JobFields
      <4>2. FileOf(p)' = IF jobs[n].step = "change" /\ Concerns(n, p)
                            THEN IF jobs[n].kind = "upload" THEN n ELSE NoFile
                            ELSE FileOf(p)
        BY <1>1, <3>2, <4>1, RequestChangesFiles
      <4>3. ~(jobs[n].step = "change" /\ Concerns(n, p))
        BY <2>2, <3>2 DEF PathsOf
      <4> QED
        BY <4>2, <4>3
    <3> QED
      BY <2>1, <3>1, <3>2
  <2> QED
    BY <1>1, <2>1, <2>2, FailureKeeps
<1> QED
  BY <1>5, <1>6, <1>7, <1>8, <1>9, <1>10 DEF Requests

\* Every step keeps the invariant.
LEMMA FilesNext == TypeOK /\ FilesInv /\ [Next]_vars => FilesInv'
<1> SUFFICES ASSUME TypeOK, FilesInv, [Next]_vars PROVE FilesInv'
  OBVIOUS
<1>1. HistoryKept
  BY HistoryGrows DEF HistoryKept
<1>2. ASSUME NEW p \in Paths,
             UploadFile(p) \/ RemoveFile(p) \/ AnonymizeField(p) \/ LoadFile(p)
      PROVE  FilesInv'
  BY <1>1, <1>2, UserKeeps, LoadKeeps
<1>3. ASSUME NEW r \in Records, DeleteRecord(r) \/ ForeignChange(r) PROVE FilesInv'
  BY <1>1, <1>3, DeleteKeeps, ForeignKeeps
<1>4. ASSUME NEW n \in 1..MaxJobs, Requests(n) \/ RequestFails(n) PROVE FilesInv'
  BY <1>1, <1>4, RequestsKeep
<1>5. CASE UNCHANGED vars
  <2>1. /\ UNCHANGED <<docs, value, deleted, jobs, initial, reverts, copies, raced, lost>>
    BY <1>5 DEF vars, historyVars
  <2>2. /\ JobsReport' /\ InOrder' /\ SameJobs
        /\ \A p \in Paths : Done(p)' = Done(p) /\ Fresh(p)' = Fresh(p)
    BY <2>1, SameQueue DEF FilesInv, SameJobs
  <2>3. \A p \in Paths : FileOf(p)' = FileOf(p)
    BY <2>1 DEF FileOf
  <2>4. \A p \in Paths : Held(p)' = Held(p) /\ (Reverting(p)' <=> Reverting(p))
    BY <2>1, <2>2, SameHeld
  <2>5. ASSUME NEW p \in Paths, Clean(p)' PROVE Agrees(p)'
    BY <1>1, <2>1, <2>2, <2>3, <2>4, <2>5, OthersAgree
  <2>6. \A p \in Paths : p \notin lost' \cup raced' => FromLast(p)'
    BY <1>1, <2>1, <2>2, <2>3, LastOfAllKept
  <2>7. RevertsEdits'
    BY <2>1, <2>2, EditsKept
  <2> QED
    BY <2>2, <2>5, <2>6, <2>7 DEF FilesInv
<1>6. ASSUME NEW n \in DOMAIN jobs, LoadEntity(n) \/ Revert(n) \/ RevertFails(n) PROVE FilesInv'
  BY <1>1, <1>6, LoadEntityKeeps, RevertKeeps, RevertFailsKeeps
<1> QED
  BY <1>2, <1>3, <1>4, <1>5, <1>6 DEF Next

\* At first there are no jobs, and every record names the file there is.
LEMMA FilesInit == Init => FilesInv
<1> SUFFICES ASSUME Init PROVE FilesInv
  OBVIOUS
<1>1. /\ jobs = <<>> /\ DOMAIN jobs = {} /\ reverts = {} /\ copies = {} /\ initial = value
      /\ \A p \in Paths : value[p] = FileOf(p)
  BY DEF Init, FileOf
<1>2. \A p \in Paths : JobsOf(p) = {} /\ Done(p) = {} /\ Fresh(p) = {}
  BY <1>1 DEF JobsOf, Done, Fresh
<1>3. JobsReport /\ InOrder /\ RevertsEdits
  BY <1>1, <1>2 DEF JobsReport, InOrder, RevertsEdits
<1>4. \A p \in Paths : Agrees(p)
  BY <1>1, <1>2 DEF Agrees, Held
<1>5. ASSUME NEW p \in Paths PROVE FromLast(p)
  <2>1. FileOf(p) \in {NoFile, OldFile}
    <3>1. p[1] \in Records /\ p[2] \in Fields
      BY PathParts
    <3> QED
      BY <3>1 DEF Init, FileOf, NoFiles
  <2> QED
    BY <1>2, <2>1, FilesTyped DEF FromLast
<1> QED
  BY <1>3, <1>4, <1>5 DEF FilesInv

\* FilesInv holds in every reachable state.
LEMMA FilesInvariant == Spec => []FilesInv
<1>1. Init => FilesInv
  BY FilesInit
<1>2. TypeOK /\ FilesInv /\ [Next]_vars => FilesInv'
  BY FilesNext
<1> QED
  BY <1>1, <1>2, TypeCorrect, PTL DEF Spec

\* AttachmentMatchesValue holds in every reachable state: once nothing is under way for a
\* field, the record names the file that is on the server.
THEOREM AttachmentsCorrect == Spec => []AttachmentMatchesValue
<1>1. FilesInv => AttachmentMatchesValue
  <2> SUFFICES ASSUME FilesInv, NEW p \in Paths, p[1] \notin deleted, Idle(p),
                      p \notin lost \cup raced \cup rerun \cup overlapped \cup unsaved,
                      p[2] \in PhotoFields => p \notin anonymized
               PROVE  FileOf(p) = value[p]
    BY DEF AttachmentMatchesValue
  <2>1. Clean(p)
    BY DEF Clean
  <2> QED
    BY <2>1, IdleAgrees
<1> QED
  BY <1>1, FilesInvariant, PTL

\* LastSuccessCounts holds in every reachable state: what the last of a field's successful
\* jobs made of its file has not been undone by an earlier one that ran again.
THEOREM LastSuccessCorrect == Spec => []LastSuccessCounts
<1>1. FilesInv => LastSuccessCounts
  <2> SUFFICES ASSUME FilesInv, NEW p \in Paths, p \notin lost \cup raced
               PROVE  IF Done(p) = {} THEN FileOf(p) \notin 1..MaxJobs
                      ELSE FileOf(p) = IF jobs[Max(Done(p))].kind = "upload"
                                       THEN Max(Done(p)) ELSE NoFile
    BY DEF LastSuccessCounts, Done
  <2> QED
    BY DEF FilesInv, FromLast
<1> QED
  BY <1>1, FilesInvariant, PTL
=============================================================================
