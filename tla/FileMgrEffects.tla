--------------------------- MODULE FileMgrEffects ---------------------------
(***************************************************************************)
(* Lemmas: what the statements and the actions of FileMgr do to each row,  *)
(* job, handler and worker, without EXCEPT.  The proofs of the invariants  *)
(* use these instead of the definitions of the actions.                    *)
(***************************************************************************)
EXTENDS FileMgrTypes

(* Which ids there are, as far as the proofs need it. *)
IdFacts ==
    /\ Uploads \subseteq Files /\ DerivedIds \subseteq Files
    /\ \A f \in Uploads : f \notin DerivedIds
    /\ \A f \in Files : Derive[f] \subseteq DerivedIds
    /\ \A f, g \in Files : f # g => Derive[f] \cap Derive[g] = {}
    /\ NoFile \notin Files

\* Uploaded and derived ids are apart, files differ from NoFile, and no two files share
\* a derived file.
LEMMA Ids == IdFacts
  BY IdsAssumption DEF IdFacts, Files

(* Which handlers carry an upload, and which a file at all. *)
Carries ==
    \A r \in Reqs :
        /\ rq[r].pc \in UploadSteps => rq[r].op = "upload"
        /\ rq[r].op = "upload" => File(r) \in Uploads
        /\ rq[r].pc # "idle" => File(r) \in Files
        /\ rq[r].pc \in PermaSteps \cup {"softSet", "patchMeta"} => rq[r].op # "upload"
        /\ rq[r].pc = "idle" => rq[r].op # "upload"

\* The file of a handler that is not idle is a file; an upload's is an uploaded one.
LEMMA HandlersCarry == TypeInv => Carries
  <1> SUFFICES ASSUME TypeInv, NEW r \in Reqs
               PROVE  /\ rq[r].pc \in UploadSteps => rq[r].op = "upload"
                      /\ rq[r].op = "upload" => File(r) \in Uploads
                      /\ rq[r].pc # "idle" => File(r) \in Files
                      /\ rq[r].pc \in PermaSteps \cup {"softSet", "patchMeta"}
                            => rq[r].op # "upload"
                      /\ rq[r].pc = "idle" => rq[r].op # "upload"
    BY DEF Carries
  <1>1. HandlerOK(rq[r])
    BY DEF TypeInv, Shape
  <1> QED
    BY <1>1 DEF HandlerOK, Idle, UploadSteps, EnqueueSteps, PermaSteps, File, Files

WorkersCarry ==
    \A w \in Workers :
        /\ wk[w].pc \in NoJobSteps => JobFile(w) = NoFile
        /\ wk[w].pc \notin NoJobSteps => JobFile(w) \in Files

\* A worker past its claim carries a file.
LEMMA WorkersDo == TypeInv => WorkersCarry
  BY DEF TypeInv, Shape, WorkerOK, WorkersCarry, JobFile

Statuses ==
    \A f \in Files : /\ file[f].status \in {"none", "UPLOADING", "PUBLISHED"}
                     /\ file[f].excluded \in BOOLEAN

\* The statuses of rows and jobs, as membership facts the provers can use.
LEMMA RowStatuses == TypeInv => Statuses
  BY DEF TypeInv, TypeOK, DataTypeOK, RowStatus, Statuses

Counts == \A f \in Files : audit[f].soft \in Nat /\ audit[f].perma \in Nat

\* The audit counters are natural numbers.
LEMMA AuditCounts == TypeInv => Counts
  BY DEF TypeInv, TypeOK, ApiTypeOK, Counts

-----------------------------------------------------------------------------
(* What each statement does to each row, job, handler and worker. *)

LEMMA GotoEffect ==
  ASSUME TypeInv, NEW r \in Reqs, NEW s, Goto(r, s)
  PROVE  /\ rq'[r].pc = s /\ rq'[r].op = rq[r].op /\ rq'[r].f = rq[r].f
         /\ \A q \in Reqs : q # r => rq'[q] = rq[q]
  BY DEF TypeInv, TypeOK, ApiTypeOK, Goto

\* Answer idles one handler and records the outcome of an upload.
LEMMA AnswerEffect ==
  ASSUME TypeInv, NEW r \in Reqs, NEW result, Answer(r, result)
  PROVE  /\ rq'[r].pc = "idle" /\ rq'[r].op = "none"
         /\ \A q \in Reqs : q # r => rq'[q] = rq[q]
         /\ \A f \in Files :
               up'[f] = IF rq[r].op = "upload" /\ f = File(r) THEN result ELSE up[f]
  BY DEF TypeInv, TypeOK, ApiTypeOK, Answer, Idle

\* Begin fills one idle slot.
LEMMA BeginEffect ==
  ASSUME TypeInv, NEW r \in Reqs, NEW op, NEW s, NEW f, Begin(r, op, s, f)
  PROVE  /\ rq[r].pc = "idle"
         /\ rq'[r].pc = s /\ rq'[r].op = op /\ rq'[r].f = f
         /\ \A q \in Reqs : q # r => rq'[q] = rq[q]
  BY DEF TypeInv, TypeOK, ApiTypeOK, Begin, At

\* Go changes one worker, and of it only the step.
LEMMA GoEffect ==
  ASSUME TypeInv, NEW w \in Workers, NEW s, Go(w, s)
  PROVE  /\ wk'[w].pc = s /\ wk'[w].f = wk[w].f /\ wk'[w].todo = wk[w].todo
         /\ \A v \in Workers : v # w => wk'[v] = wk[v]
  BY DEF TypeInv, TypeOK, PoolTypeOK, Go

\* Replacing one worker leaves the others as they were.
LEMMA WorkerEffect ==
  ASSUME TypeInv, NEW w \in Workers, NEW k, wk' = [wk EXCEPT ![w] = k]
  PROVE  wk'[w] = k /\ \A v \in Workers : v # w => wk'[v] = wk[v]
  BY DEF TypeInv, TypeOK, PoolTypeOK

(* The row of f becomes (st, ex), the others stay. *)
RowBecomes(f, st, ex) ==
    /\ file'[f].status = st /\ file'[f].excluded = ex
    /\ \A g \in Files : g # f => file'[g] = file[g]

JobBecomes(f, st, n) ==
    /\ job'[f].status = st /\ job'[f].attempts = n
    /\ \A g \in Files : g # f => job'[g] = job[g]

\* InsertFile adds one UPLOADING row and draws its id.
LEMMA InsertEffect ==
  ASSUME DataTypeOK, NEW f \in Files, InsertFile(f)
  PROVE  /\ storage /\ RowBecomes(f, "UPLOADING", FALSE) /\ born' = born \cup {f}
         /\ UNCHANGED <<storage, media, job, locked, blob>>
  BY DEF DataTypeOK, InsertFile, RowBecomes

\* UpdateFilePathsAndStatus changes the status of one existing row.
LEMMA PublishEffect ==
  ASSUME DataTypeOK, NEW f \in Files, PublishFile(f)
  PROVE  /\ RowBecomes(f, IF Exists(f) THEN "PUBLISHED" ELSE file[f].status, file[f].excluded)
         /\ UNCHANGED <<storage, born, media, job, locked, blob>>
  BY DEF DataTypeOK, PublishFile, RowBecomes

\* SetFileExcluded moves one live row to the trash.
LEMMA ExcludeEffect ==
  ASSUME DataTypeOK, NEW f \in Files, ExcludeFile(f)
  PROVE  /\ Loads(f, FALSE) /\ RowBecomes(f, file[f].status, TRUE)
         /\ UNCHANGED <<storage, born, media, job, locked, blob>>
  BY DEF DataTypeOK, ExcludeFile, RowBecomes

\* Deleting a row takes its media row and its job along and leaves the other files alone.
LEMMA DeleteRowEffect ==
  ASSUME DataTypeOK, NEW f \in Files, DeleteFileRow(f)
  PROVE  /\ f \notin locked /\ RowBecomes(f, "none", FALSE) /\ JobBecomes(f, "none", 0)
         /\ media' = media \ {f}
         /\ UNCHANGED <<storage, born, locked, blob>>
  BY DEF DataTypeOK, DeleteFileRow, RowBecomes, JobBecomes, NoRow, NoJob

DeleteStorageDone ==
    /\ storage /\ storage' = FALSE /\ locked = {} /\ media' = {}
    /\ \A f \in Files : /\ file'[f].status = "none" /\ file'[f].excluded = FALSE
                        /\ job'[f].status = "none" /\ job'[f].attempts = 0
    /\ UNCHANGED <<born, locked, blob, flaw, rq, up, audit>>

\* Deleting the storage takes every row, media row and job along.
LEMMA DeleteStorageEffect ==
  ASSUME DeleteStorage
  PROVE  DeleteStorageDone
  BY DEF DeleteStorage, DeleteStorageRow, NoRow, NoJob, DeleteStorageDone, apiVars

\* EnqueueMediaProcessing adds one pending job or changes nothing.
LEMMA EnqueueEffect ==
  ASSUME DataTypeOK, NEW f \in Files, EnqueueMediaProcessing(f)
  PROVE  /\ UNCHANGED <<storage, file, born, media, locked, blob>>
         /\ \/ Exists(f) /\ ~HasJob(f) /\ JobBecomes(f, "pending", 0)
            \/ (~Exists(f) \/ HasJob(f)) /\ UNCHANGED job
  BY DEF DataTypeOK, EnqueueMediaProcessing, JobBecomes, tables

\* ClaimMediaJob turns one pending job into a processing one, on its first attempt.
LEMMA ClaimEffect ==
  ASSUME DataTypeOK, NEW f \in Files, ClaimMediaJob(f)
  PROVE  /\ job[f].status = "pending" /\ JobBecomes(f, "processing", job[f].attempts + 1)
         /\ UNCHANGED <<storage, file, born, media, locked, blob>>
  BY DEF DataTypeOK, ClaimMediaJob, Pending, JobBecomes

\* CompleteMediaJob and FailMediaJob change the status of one job, when it is still there.
LEMMA SettleEffect ==
  ASSUME DataTypeOK, NEW f \in Files, NEW result, SettleMediaJob(f, result)
  PROVE  /\ JobBecomes(f, IF HasJob(f) THEN result ELSE job[f].status, job[f].attempts)
         /\ UNCHANGED <<storage, file, born, media, locked, blob>>
  BY DEF DataTypeOK, SettleMediaJob, JobBecomes

\* Committing the media transaction adds the media row and the rows of the derived files.
LEMMA CommitEffect ==
  ASSUME DataTypeOK, NEW f \in Files, CommitMediaTx(f)
  PROVE  /\ media' = media \cup {f} /\ born' = born \cup Derive[f] /\ locked' = locked \ {f}
         /\ \A g \in Files :
               IF g \in Derive[f]
               THEN file'[g].status = "PUBLISHED" /\ file'[g].excluded = FALSE
               ELSE file'[g] = file[g]
         /\ UNCHANGED <<storage, job, blob>>
  BY DEF CommitMediaTx

-----------------------------------------------------------------------------
(* What each action does, in the same terms. *)

Moves(r, s) ==
    /\ rq'[r].pc = s /\ rq'[r].op = rq[r].op /\ rq'[r].f = rq[r].f
    /\ \A q \in Reqs : q # r => rq'[q] = rq[q]
    /\ UNCHANGED up

Ends(r, result) ==
    /\ rq'[r].pc = "idle" /\ rq'[r].op = "none"
    /\ \A q \in Reqs : q # r => rq'[q] = rq[q]
    /\ \A f \in Files :
          up'[f] = IF rq[r].op = "upload" /\ f = File(r) THEN result ELSE up[f]

Adds(f, p) == flaw' = flaw \cup {<<f, p>>}

\* A handler that moves changes no other slot, and ends nobody's upload.
LEMMA MovesEnds ==
  ASSUME TypeInv, NEW r \in Reqs
  PROVE  /\ \A s : Goto(r, s) /\ UNCHANGED up => Moves(r, s)
         /\ \A x : Answer(r, x) => Ends(r, x)
  BY GotoEffect, AnswerEffect DEF Moves, Ends

UploadStartDone(r, f) ==
    /\ rq[r].pc = "idle" /\ up[f] = "unused" /\ UNCHANGED <<tables, flaw, audit>>
    /\ rq'[r].pc = "insert" /\ rq'[r].op = "upload" /\ rq'[r].f = f
    /\ \A q \in Reqs : q # r => rq'[q] = rq[q]
    /\ \A g \in Files : up'[g] = IF g = f THEN "open" ELSE up[g]

\* The step UploadStart has the effect UploadStartDone.
LEMMA UploadStartDoes ==
  ASSUME TypeInv, NEW r \in Reqs, NEW f \in Uploads, UploadStart(r, f)
  PROVE  UploadStartDone(r, f)
  <1> USE DEF UploadStartDone
  <1>1. Begin(r, "upload", "insert", f) /\ up[f] = "unused" /\ up' = [up EXCEPT ![f] = "open"]
        /\ UNCHANGED <<tables, flaw, audit>>
    BY DEF UploadStart
  <1>2. \A g \in Files : up'[g] = IF g = f THEN "open" ELSE up[g]
    BY <1>1 DEF TypeInv, TypeOK, ApiTypeOK
  <1> QED
    BY <1>1, <1>2, BeginEffect

OtherStartDone(r, f) ==
    /\ rq[r].pc = "idle" /\ Exists(f) /\ UNCHANGED <<tables, flaw, up, audit>>
    /\ rq'[r].op # "upload" /\ rq'[r].f = f
    /\ \/ rq'[r].pc \in {"patchMeta", "softSet"}
       \/ rq'[r].pc = "permaStorage" /\ ~Loads(f, FALSE)
    /\ \A q \in Reqs : q # r => rq'[q] = rq[q]

\* Patches, trashes and purges begin without touching a table.
LEMMA OtherStartDoes ==
  ASSUME TypeInv, NEW r \in Reqs, NEW f \in Files,
         PatchStart(r, f) \/ SoftStart(r, f) \/ PermaStart(r, f)
  PROVE  OtherStartDone(r, f)
  <1> USE DEF OtherStartDone
  <1>1. CASE PatchStart(r, f)
    BY <1>1, BeginEffect DEF PatchStart, Loads
  <1>2. CASE SoftStart(r, f)
    BY <1>2, BeginEffect DEF SoftStart, Loads
  <1>3. CASE PermaStart(r, f)
    BY <1>3, BeginEffect DEF PermaStart, Loads
  <1> QED
    BY <1>1, <1>2, <1>3

UploadInsertDone(r) ==
    /\ At(r, "insert") /\ rq[r].op = "upload" /\ File(r) \in Uploads \cap Files
    /\ UNCHANGED <<storage, media, job, locked, blob, audit>>
    /\ \/ /\ storage /\ RowBecomes(File(r), "UPLOADING", FALSE)
          /\ born' = born \cup {File(r)}
          /\ \/ Moves(r, "put") /\ UNCHANGED flaw
             \/ Ends(r, "failed") /\ Adds(File(r), "insertReply")
       \/ Ends(r, "failed") /\ UNCHANGED <<file, born, flaw>>

\* The step UploadInsert has the effect UploadInsertDone.
LEMMA UploadInsertDoes ==
  ASSUME TypeInv, NEW r \in Reqs, UploadInsert(r)
  PROVE  UploadInsertDone(r)
  <1> USE DEF UploadInsertDone
  <1>1. At(r, "insert") /\ rq[r].op = "upload" /\ File(r) \in Uploads \cap Files /\ DataTypeOK
    BY StepShape DEF UploadInsert, At, Steps, UploadSteps, TypeInv, TypeOK
  <1>2. CASE InsertFile(File(r)) /\ Goto(r, "put") /\ UNCHANGED <<up, flaw, audit>>
    BY <1>1, <1>2, MovesEnds, InsertEffect DEF Files
  <1>3. CASE InsertFile(File(r)) /\ Answer(r, "failed") /\ Flaw(File(r), "insertReply")
             /\ UNCHANGED audit
    BY <1>1, <1>3, MovesEnds, InsertEffect DEF Files, Flaw, Adds
  <1>4. CASE Answer(r, "failed") /\ UNCHANGED <<tables, flaw, audit>>
    BY <1>1, <1>4, MovesEnds DEF tables
  <1> QED
    BY <1>2, <1>3, <1>4 DEF UploadInsert

UploadPutDone(r) ==
    /\ At(r, "put") /\ rq[r].op = "upload" /\ File(r) \in Uploads \cap Files
    /\ UNCHANGED <<storage, file, born, media, job, locked, flaw, audit>>
    /\ \/ Moves(r, "publish") /\ blob' = blob \cup {File(r)}
       \/ Moves(r, "rbBlob") /\ (blob' = blob \cup {File(r)} \/ UNCHANGED blob)

\* The step UploadPut has the effect UploadPutDone.
LEMMA UploadPutDoes ==
  ASSUME TypeInv, NEW r \in Reqs, UploadPut(r)
  PROVE  UploadPutDone(r)
  <1> USE DEF UploadPutDone
  <1>1. At(r, "put") /\ rq[r].op = "upload" /\ File(r) \in Uploads \cap Files
    BY StepShape DEF UploadPut, At, Steps, UploadSteps
  <1> QED
    BY <1>1, MovesEnds DEF UploadPut, PutObject, tables

UploadPublishDone(r) ==
    /\ At(r, "publish") /\ rq[r].op = "upload" /\ File(r) \in Uploads \cap Files
    /\ UNCHANGED <<storage, born, media, job, locked, blob, audit>>
    /\ \/ /\ RowBecomes(File(r), IF Exists(File(r)) THEN "PUBLISHED" ELSE "none",
                        file[File(r)].excluded)
          /\ \/ Moves(r, "reload") /\ UNCHANGED flaw
             \/ Moves(r, "rbBlob") /\ Adds(File(r), "publishReply")
       \/ Moves(r, "rbBlob") /\ UNCHANGED <<file, flaw>>

\* The step UploadPublish has the effect UploadPublishDone.
LEMMA UploadPublishDoes ==
  ASSUME TypeInv, NEW r \in Reqs, UploadPublish(r)
  PROVE  UploadPublishDone(r)
  <1> USE DEF UploadPublishDone
  <1>1. At(r, "publish") /\ rq[r].op = "upload" /\ File(r) \in Uploads \cap Files /\ DataTypeOK
    BY StepShape DEF UploadPublish, At, Steps, UploadSteps, TypeInv, TypeOK
  <1>2. CASE PublishFile(File(r))
             /\ UNCHANGED <<up, audit>>
             /\ \/ Goto(r, "reload") /\ UNCHANGED flaw
                \/ Goto(r, "rbBlob") /\ Flaw(File(r), "publishReply")
    <2>1. /\ RowBecomes(File(r), IF Exists(File(r)) THEN "PUBLISHED" ELSE "none",
                        file[File(r)].excluded)
          /\ UNCHANGED <<storage, born, media, job, locked, blob>>
      BY <1>1, <1>2, PublishEffect DEF Files, Exists
    <2> QED
      BY <1>1, <1>2, <2>1, MovesEnds DEF Flaw, Adds
  <1>3. CASE UNCHANGED <<tables, flaw, up, audit>> /\ Goto(r, "rbBlob")
    BY <1>1, <1>3, MovesEnds DEF tables
  <1> QED
    BY <1>2, <1>3 DEF UploadPublish

RollbackBlobDone(r) ==
    /\ At(r, "rbBlob") /\ rq[r].op = "upload" /\ File(r) \in Uploads \cap Files
    /\ UNCHANGED <<storage, file, born, media, job, locked, audit>>
    /\ Moves(r, "rbRow")
    /\ \/ blob' = blob \ {File(r)} /\ UNCHANGED flaw
       \/ UNCHANGED blob /\ Adds(File(r), "rbBlob")

\* The step RollbackBlob has the effect RollbackBlobDone.
LEMMA RollbackBlobDoes ==
  ASSUME TypeInv, NEW r \in Reqs, RollbackBlob(r)
  PROVE  RollbackBlobDone(r)
  <1> USE DEF RollbackBlobDone
  <1>1. At(r, "rbBlob") /\ rq[r].op = "upload" /\ File(r) \in Uploads \cap Files
    BY StepShape DEF RollbackBlob, At, Steps, UploadSteps
  <1> QED
    BY <1>1, MovesEnds DEF RollbackBlob, DeleteObject, tables, Flaw, Adds

(* The row of f and what refers to it are deleted. *)
Deletes(f) ==
    /\ f \notin locked /\ RowBecomes(f, "none", FALSE) /\ JobBecomes(f, "none", 0)
    /\ media' = media \ {f}

RollbackRowDone(r) ==
    /\ At(r, "rbRow") /\ rq[r].op = "upload" /\ File(r) \in Uploads \cap Files
    /\ UNCHANGED <<storage, born, locked, blob, audit>>
    /\ Ends(r, "failed")
    /\ \/ file[File(r)].status = "UPLOADING" /\ Deletes(File(r)) /\ UNCHANGED flaw
       \/ /\ file[File(r)].status # "UPLOADING"
          /\ UNCHANGED <<file, job, media, flaw>>
       \/ UNCHANGED <<file, job, media>> /\ Adds(File(r), "rbRow")

\* The step RollbackRow has the effect RollbackRowDone.
LEMMA RollbackRowDoes ==
  ASSUME TypeInv, NEW r \in Reqs, RollbackRow(r)
  PROVE  RollbackRowDone(r)
  <1> USE DEF RollbackRowDone
  <1>1. At(r, "rbRow") /\ rq[r].op = "upload" /\ File(r) \in Uploads \cap Files /\ DataTypeOK
    BY StepShape DEF RollbackRow, At, Steps, UploadSteps, TypeInv, TypeOK
  <1>2. Ends(r, "failed") /\ UNCHANGED audit
    BY MovesEnds DEF RollbackRow
  <1>3. CASE DeleteFailedUploadingFile(File(r)) /\ UNCHANGED flaw
    <2>1. CASE file[File(r)].status = "UPLOADING"
      BY <1>1, <1>2, <1>3, <2>1, DeleteRowEffect DEF DeleteFailedUploadingFile, Deletes, Files
    <2>2. CASE file[File(r)].status # "UPLOADING"
      BY <1>1, <1>2, <1>3, <2>2 DEF DeleteFailedUploadingFile, tables
    <2> QED
      BY <2>1, <2>2
  <1>4. CASE UNCHANGED tables /\ Flaw(File(r), "rbRow")
    BY <1>1, <1>2, <1>4 DEF tables, Flaw, Adds
  <1> QED
    BY <1>3, <1>4 DEF RollbackRow

ReloadDone(r) ==
    /\ At(r, "reload") /\ File(r) \in Files /\ UNCHANGED <<tables, audit>>
    /\ rq[r].op = "upload" => File(r) \in Uploads \cap Files
    /\ \/ /\ Loads(File(r), FALSE) /\ file[File(r)].status = "PUBLISHED"
          /\ Kind[File(r)] # "NONE" /\ Moves(r, "exists") /\ UNCHANGED flaw
       \/ /\ Loads(File(r), FALSE)
          /\ file[File(r)].status # "PUBLISHED" \/ Kind[File(r)] = "NONE"
          /\ Ends(r, "created") /\ UNCHANGED flaw
       \/ Loads(File(r), FALSE) /\ Ends(r, "created") /\ Adds(File(r), "enqueue")
       \/ Ends(r, "createdNull") /\ UNCHANGED flaw

\* The step Reload has the effect ReloadDone.
LEMMA ReloadDoes ==
  ASSUME TypeInv, NEW r \in Reqs, Reload(r)
  PROVE  ReloadDone(r)
  <1> USE DEF ReloadDone
  <1>1. At(r, "reload") /\ File(r) \in Files
        /\ (rq[r].op = "upload" => File(r) \in Uploads \cap Files)
    BY StepShape DEF Reload, At, Steps
  <1> QED
    BY <1>1, MovesEnds DEF Reload, ShouldEnqueue, Flaw, Adds

MediaExistsDone(r) ==
    /\ At(r, "exists") /\ File(r) \in Files /\ UNCHANGED <<tables, audit>>
    /\ rq[r].op = "upload" => File(r) \in Uploads \cap Files
    /\ \/ Moves(r, "enqueue") /\ UNCHANGED flaw
       \/ Ends(r, "created") /\ File(r) \in media /\ UNCHANGED flaw
       \/ Ends(r, "created") /\ Adds(File(r), "enqueue")

\* The step MediaExists has the effect MediaExistsDone.
LEMMA MediaExistsDoes ==
  ASSUME TypeInv, NEW r \in Reqs, MediaExists(r)
  PROVE  MediaExistsDone(r)
  <1> USE DEF MediaExistsDone
  <1>1. At(r, "exists") /\ File(r) \in Files
        /\ (rq[r].op = "upload" => File(r) \in Uploads \cap Files)
    BY StepShape DEF MediaExists, At, Steps
  <1> QED
    BY <1>1, MovesEnds DEF MediaExists, Flaw, Adds

EnqueueDone(r) ==
    /\ At(r, "enqueue") /\ File(r) \in Files
    /\ UNCHANGED <<storage, file, born, media, locked, blob, audit>>
    /\ rq[r].op = "upload" => File(r) \in Uploads \cap Files
    /\ Ends(r, "created")
    /\ \/ /\ Exists(File(r)) /\ ~HasJob(File(r)) /\ JobBecomes(File(r), "pending", 0)
          /\ UNCHANGED flaw
       \/ (~Exists(File(r)) \/ HasJob(File(r))) /\ UNCHANGED <<job, flaw>>
       \/ UNCHANGED job /\ Adds(File(r), "enqueue")

\* The step Enqueue has the effect EnqueueDone.
LEMMA EnqueueDoes ==
  ASSUME TypeInv, NEW r \in Reqs, Enqueue(r)
  PROVE  EnqueueDone(r)
  <1> USE DEF EnqueueDone
  <1>1. /\ At(r, "enqueue") /\ File(r) \in Files /\ DataTypeOK
        /\ rq[r].op = "upload" => File(r) \in Uploads \cap Files
    BY StepShape DEF Enqueue, At, Steps, TypeInv, TypeOK
  <1>2. Ends(r, "created") /\ UNCHANGED audit
    BY MovesEnds DEF Enqueue
  <1>3. CASE EnqueueMediaProcessing(File(r)) /\ UNCHANGED flaw
    BY <1>1, <1>2, <1>3, EnqueueEffect
  <1>4. CASE UNCHANGED tables /\ Flaw(File(r), "enqueue")
    BY <1>1, <1>2, <1>4 DEF tables, Flaw, Adds
  <1> QED
    BY <1>3, <1>4 DEF Enqueue

PatchMetaDone(r) ==
    /\ At(r, "patchMeta") /\ rq[r].op = "patch"
    /\ UNCHANGED <<tables, flaw, audit, up>>
    /\ Moves(r, "reload") \/ Ends(r, "failed")

\* The step PatchMeta has the effect PatchMetaDone.
LEMMA PatchMetaDoes ==
  ASSUME TypeInv, NEW r \in Reqs, PatchMeta(r)
  PROVE  PatchMetaDone(r)
  <1> USE DEF PatchMetaDone
  <1>1. At(r, "patchMeta") /\ rq[r].op = "patch"
    BY StepShape DEF PatchMeta, At, Steps
  <1>2. UNCHANGED up
    BY <1>1 DEF PatchMeta, Answer
  <1> QED
    BY <1>1, <1>2, MovesEnds DEF PatchMeta

(* An audit line is added for f. *)
Audits(f, m, n) ==
    /\ audit'[f].soft = audit[f].soft + m /\ audit'[f].perma = audit[f].perma + n
    /\ \A g \in Files : g # f => audit'[g] = audit[g]

\* An audit line is counted for one file.
LEMMA AuditEffect ==
  ASSUME TypeInv, NEW f \in Files
  PROVE  /\ audit' = [audit EXCEPT ![f].soft = @ + 1] => Audits(f, 1, 0)
         /\ audit' = [audit EXCEPT ![f].perma = @ + 1] => Audits(f, 0, 1)
  BY DEF TypeInv, TypeOK, ApiTypeOK, Audits

SoftSetDone(r) ==
    /\ At(r, "softSet") /\ rq[r].op # "upload" /\ File(r) \in Files
    /\ UNCHANGED <<storage, born, media, job, locked, blob, flaw, up>>
    /\ Ends(r, "none")
    /\ \/ /\ Loads(File(r), FALSE) /\ RowBecomes(File(r), file[File(r)].status, TRUE)
          /\ \/ Audits(File(r), 1, 0)
             \/ UNCHANGED audit
       \/ UNCHANGED <<file, audit>>

\* The step SoftSet has the effect SoftSetDone.
LEMMA SoftSetDoes ==
  ASSUME TypeInv, NEW r \in Reqs, SoftSet(r)
  PROVE  SoftSetDone(r)
  <1> USE DEF SoftSetDone
  <1>1. At(r, "softSet") /\ rq[r].op # "upload" /\ File(r) \in Files /\ DataTypeOK
    BY StepShape DEF SoftSet, At, Steps, TypeInv, TypeOK
  <1>2. Ends(r, "none") /\ UNCHANGED <<up, flaw>>
    BY <1>1, MovesEnds DEF SoftSet, Answer
  <1>3. CASE ExcludeFile(File(r)) /\ ( \/ audit' = [audit EXCEPT ![File(r)].soft = @ + 1]
                                       \/ UNCHANGED audit )
    BY <1>1, <1>2, <1>3, ExcludeEffect, AuditEffect
  <1>4. CASE UNCHANGED <<tables, audit>>
    BY <1>1, <1>2, <1>4 DEF tables
  <1> QED
    BY <1>3, <1>4 DEF SoftSet

PermaStorageDone(r) ==
    /\ At(r, "permaStorage") /\ rq[r].op # "upload" /\ File(r) \in Files
    /\ UNCHANGED <<tables, audit, up>>
    /\ \/ Moves(r, "permaBlob") /\ UNCHANGED flaw
       \/ Moves(r, "permaRow") /\ Adds(File(r), "permaBlob")
       \/ Ends(r, "none") /\ UNCHANGED flaw

\* The step PermaStorage has the effect PermaStorageDone.
LEMMA PermaStorageDoes ==
  ASSUME TypeInv, NEW r \in Reqs, PermaStorage(r)
  PROVE  PermaStorageDone(r)
  <1> USE DEF PermaStorageDone
  <1>1. At(r, "permaStorage") /\ rq[r].op # "upload" /\ File(r) \in Files
    BY StepShape DEF PermaStorage, At, Steps, PermaSteps
  <1>2. UNCHANGED up
    BY <1>1 DEF PermaStorage, Answer
  <1> QED
    BY <1>1, <1>2, MovesEnds DEF PermaStorage, Flaw, Adds

PermaBlobDone(r) ==
    /\ At(r, "permaBlob") /\ rq[r].op # "upload" /\ File(r) \in Files
    /\ UNCHANGED <<storage, file, born, media, job, locked, audit>>
    /\ Moves(r, "permaRow")
    /\ \/ blob' = blob \ {File(r)} /\ UNCHANGED flaw
       \/ UNCHANGED blob /\ Adds(File(r), "permaBlob")

\* The step PermaBlob has the effect PermaBlobDone.
LEMMA PermaBlobDoes ==
  ASSUME TypeInv, NEW r \in Reqs, PermaBlob(r)
  PROVE  PermaBlobDone(r)
  <1> USE DEF PermaBlobDone
  <1>1. At(r, "permaBlob") /\ rq[r].op # "upload" /\ File(r) \in Files
    BY StepShape DEF PermaBlob, At, Steps, PermaSteps
  <1> QED
    BY <1>1, MovesEnds DEF PermaBlob, DeleteObject, tables, Flaw, Adds

PermaRowDone(r) ==
    /\ At(r, "permaRow") /\ rq[r].op # "upload" /\ File(r) \in Files
    /\ UNCHANGED <<storage, born, locked, blob, flaw, up>>
    /\ Ends(r, "none")
    /\ \/ /\ Loads(File(r), TRUE) /\ Deletes(File(r))
          /\ \/ Audits(File(r), 0, 1)
             \/ UNCHANGED audit
       \/ UNCHANGED <<file, job, media, audit>>

\* The step PermaRow has the effect PermaRowDone.
LEMMA PermaRowDoes ==
  ASSUME TypeInv, NEW r \in Reqs, PermaRow(r)
  PROVE  PermaRowDone(r)
  <1> USE DEF PermaRowDone
  <1>1. At(r, "permaRow") /\ rq[r].op # "upload" /\ File(r) \in Files /\ DataTypeOK
    BY StepShape DEF PermaRow, At, Steps, PermaSteps, TypeInv, TypeOK
  <1>2. Ends(r, "none") /\ UNCHANGED <<up, flaw>>
    BY <1>1, MovesEnds DEF PermaRow, Answer
  <1>3. CASE PermaDeleteFile(File(r)) /\ ( \/ audit' = [audit EXCEPT ![File(r)].perma = @ + 1]
                                           \/ UNCHANGED audit )
    BY <1>1, <1>2, <1>3, DeleteRowEffect, AuditEffect DEF PermaDeleteFile, Deletes
  <1>4. CASE UNCHANGED <<tables, audit>>
    BY <1>1, <1>2, <1>4 DEF tables
  <1> QED
    BY <1>3, <1>4 DEF PermaRow

RequestCrashDone(r) ==
    /\ Ends(r, "crashed") /\ UNCHANGED <<tables, audit, flaw>>
    /\ rq[r].op = "upload" => File(r) \in Uploads \cap Files

\* The step RequestCrash has the effect RequestCrashDone.
LEMMA RequestCrashDoes ==
  ASSUME TypeInv, NEW r \in Reqs, RequestCrash(r)
  PROVE  RequestCrashDone(r)
  BY MovesEnds, StepShape DEF RequestCrash, Steps, At, RequestCrashDone

(* Workers move between their loop, the claim and the exit: no job is held. *)
IdlingDone ==
    /\ UNCHANGED <<tables, flaw>>
    /\ \A v \in Workers : \/ wk'[v] = wk[v]
                          \/ wk'[v].pc \in NoJobSteps /\ wk'[v].f = NoFile

\* The steps of the pool that hold no job before or after have the effect IdlingDone.
LEMMA IdlingDoes ==
  ASSUME TypeInv, \/ \E w \in Workers : WorkerExit(w) \/ WorkerPoll(w) \/ WorkerStart(w)
                  \/ Stop \/ Restart
  PROVE  IdlingDone
  <1> USE DEF IdlingDone
  <1>1. ASSUME NEW w \in Workers, WorkerExit(w) \/ WorkerPoll(w) \/ WorkerStart(w)
        PROVE  \A v \in Workers : \/ wk'[v] = wk[v]
                                  \/ wk'[v].pc \in NoJobSteps /\ wk'[v].f = NoFile
    <2>1. CASE WorkerPoll(w)
      <3>1. wk[w].f = NoFile
        BY <2>1 DEF WorkerPoll, Is, TypeInv, Shape, WorkerOK, NoJobSteps
      <3> QED
        BY <2>1, <3>1, GoEffect DEF WorkerPoll, NoJobSteps
    <2>2. CASE WorkerExit(w)
      BY <2>2, WorkerEffect DEF WorkerExit, Exited, NoJobSteps
    <2>3. CASE WorkerStart(w)
      BY <2>3, WorkerEffect DEF WorkerStart, AtLoop, NoJobSteps
    <2> QED
      BY <1>1, <2>1, <2>2, <2>3
  <1>2. CASE Restart
    BY <1>2 DEF Restart, AtLoop, NoJobSteps
  <1>3. CASE Stop
    BY <1>3 DEF Stop
  <1>4. UNCHANGED <<tables, flaw>>
    BY DEF WorkerExit, WorkerPoll, WorkerStart, Stop, Restart
  <1> QED
    BY <1>1, <1>2, <1>3, <1>4

ClaimDone(w) ==
    \E f \in Files :
       /\ wk[w].pc = "claim"
       /\ job[f].status = "pending" /\ JobBecomes(f, "processing", job[f].attempts + 1)
       /\ wk'[w].pc = "exists" /\ wk'[w].f = f
       /\ \A v \in Workers : v # w => wk'[v] = wk[v]
       /\ UNCHANGED <<storage, file, born, media, locked, blob, flaw>>

\* The step Claim has the effect ClaimDone.
LEMMA ClaimDoes ==
  ASSUME TypeInv, NEW w \in Workers, Claim(w)
  PROVE  ClaimDone(w)
  <1> USE DEF ClaimDone
  <1>1. PICK f \in Files : /\ ClaimMediaJob(f)
                           /\ wk' = [wk EXCEPT ![w] = [pc |-> "exists", f |-> f, todo |-> {}]]
    BY DEF Claim
  <1>2. DataTypeOK /\ wk[w].pc = "claim" /\ UNCHANGED flaw
    BY DEF TypeInv, TypeOK, Claim, Is
  <1>3. /\ wk'[w] = [pc |-> "exists", f |-> f, todo |-> {}]
        /\ \A v \in Workers : v # w => wk'[v] = wk[v]
    BY <1>1, WorkerEffect
  <1>4. /\ job[f].status = "pending" /\ JobBecomes(f, "processing", job[f].attempts + 1)
        /\ UNCHANGED <<storage, file, born, media, locked, blob>>
    BY <1>1, <1>2, ClaimEffect
  <1> QED
    BY <1>2, <1>3, <1>4

(* The worker is back at the head of its loop. *)
Loops(w) ==
    /\ wk'[w].pc = "loop" /\ wk'[w].f = NoFile
    /\ \A v \in Workers : v # w => wk'[v] = wk[v]

\* A worker back at its loop holds no file.
LEMMA LoopEffect ==
  ASSUME TypeInv, NEW w \in Workers, wk' = [wk EXCEPT ![w] = AtLoop]
  PROVE  Loops(w)
  <1>1. wk'[w] = AtLoop /\ \A v \in Workers : v # w => wk'[v] = wk[v]
    BY WorkerEffect
  <1> QED
    BY <1>1 DEF AtLoop, Loops

ClaimNothingDone(w) ==
    /\ Loops(w) /\ UNCHANGED <<storage, file, born, media, locked, blob>>
    /\ \/ UNCHANGED <<job, flaw>>
       \/ \E f \in Files : /\ job[f].status = "pending"
                           /\ JobBecomes(f, "processing", job[f].attempts + 1)
                           /\ Adds(f, "stranded")

\* The step ClaimNothing has the effect ClaimNothingDone.
LEMMA ClaimNothingDoes ==
  ASSUME TypeInv, NEW w \in Workers, ClaimNothing(w)
  PROVE  ClaimNothingDone(w)
  <1> USE DEF ClaimNothingDone
  <1>1. Loops(w) /\ DataTypeOK
    <2>1. wk' = [wk EXCEPT ![w] = AtLoop]
      BY DEF ClaimNothing
    <2> QED
      BY <2>1, LoopEffect DEF TypeInv, TypeOK
  <1>2. CASE UNCHANGED <<tables, flaw>>
    BY <1>1, <1>2 DEF tables
  <1>3. ASSUME NEW f \in Files, ClaimMediaJob(f), Flaw(f, "stranded")
        PROVE  /\ job[f].status = "pending"
               /\ JobBecomes(f, "processing", job[f].attempts + 1) /\ Adds(f, "stranded")
               /\ UNCHANGED <<storage, file, born, media, locked, blob>>
    BY <1>1, <1>3, ClaimEffect DEF Flaw, Adds
  <1> QED
    BY <1>1, <1>2, <1>3 DEF ClaimNothing

(* Worker w goes to step s with its job. *)
Goes(w, s) ==
    /\ wk'[w].pc = s /\ wk'[w].f = wk[w].f /\ wk'[w].todo = wk[w].todo
    /\ \A v \in Workers : v # w => wk'[v] = wk[v]

LookDone(w) ==
    /\ JobFile(w) \in Files
    /\ wk[w].pc \in WorkerSteps \ (NoJobSteps \cup {"complete", "fail", "commit"})
    /\ UNCHANGED tables
    /\ \/ /\ UNCHANGED flaw
          /\ wk[w].pc # "derive" /\ \E s \in {"load", "storage", "open", "tx", "fail"} : Goes(w, s)
       \/ /\ UNCHANGED flaw
          /\ wk[w].pc # "derive" /\ Goes(w, "complete")
          /\ \/ JobFile(w) \in media
             \/ file[JobFile(w)].status # "PUBLISHED"
             \/ Kind[JobFile(w)] = "NONE"
       \/ wk[w].pc # "derive" /\ Goes(w, "complete") /\ Adds(JobFile(w), "untyped")
       \/ wk[w].pc = "derive" /\ wk[w].todo = {} /\ Goes(w, "commit") /\ UNCHANGED flaw

\* The reads of Process move the worker on and change nothing else.
LEMMA LookDoes ==
  ASSUME TypeInv, NEW w \in Workers,
         \/ ProcessExists(w) \/ ProcessLoad(w) \/ ProcessStorage(w)
         \/ ProcessOpen(w) \/ ProcessDerived(w)
  PROVE  LookDone(w)
  <1> USE DEF LookDone
  <1> USE DEF Is, NoJobSteps, WorkerSteps
  <1>1. \A s : Go(w, s) => Goes(w, s)
    BY GoEffect DEF Goes
  <1>2. wk[w].pc \notin NoJobSteps => JobFile(w) \in Files
    BY WorkerShape
  <1>3. CASE ProcessExists(w) BY <1>1, <1>2, <1>3 DEF ProcessExists
  <1>4. CASE ProcessLoad(w) BY <1>1, <1>2, <1>4 DEF ProcessLoad
  <1>5. CASE ProcessStorage(w)
    <2>1. wk[w].pc = "storage" /\ JobFile(w) \in Files /\ UNCHANGED tables
      BY <1>2, <1>5 DEF ProcessStorage
    <2>2. CASE Go(w, "complete") /\ Flaw(JobFile(w), "untyped")
      BY <1>1, <2>1, <2>2 DEF Flaw, Adds
    <2>3. CASE \/ \E s \in {"open", "tx", "fail"} : Go(w, s) /\ UNCHANGED flaw
               \/ Kind[JobFile(w)] = "NONE" /\ Go(w, "complete") /\ UNCHANGED flaw
      BY <1>1, <2>1, <2>3
    <2> QED
      BY <1>5, <2>2, <2>3 DEF ProcessStorage
  <1>6. CASE ProcessOpen(w) BY <1>1, <1>2, <1>6 DEF ProcessOpen
  <1>7. CASE ProcessDerived(w) BY <1>1, <1>2, <1>7 DEF ProcessDerived
  <1> QED
    BY <1>3, <1>4, <1>5, <1>6, <1>7

TxDone(w) ==
    /\ JobFile(w) \in Files /\ wk[w].pc = "tx"
    /\ UNCHANGED <<storage, file, born, media, job, blob, flaw>>
    /\ \/ /\ Exists(JobFile(w)) /\ locked' = locked \cup {JobFile(w)}
          /\ wk'[w].pc = "derive" /\ wk'[w].f = wk[w].f
          /\ wk'[w].todo = Derive[JobFile(w)]
          /\ \A v \in Workers : v # w => wk'[v] = wk[v]
       \/ UNCHANGED locked /\ Goes(w, "fail")

\* The step Tx has the effect TxDone.
LEMMA TxDoes ==
  ASSUME TypeInv, NEW w \in Workers, ProcessTx(w)
  PROVE  TxDone(w)
  <1> USE DEF TxDone
  <1>1. JobFile(w) \in Files /\ wk[w].pc = "tx" /\ UNCHANGED flaw
    BY WorkerShape DEF ProcessTx, Is, NoJobSteps
  <1>2. CASE /\ InsertStorageMediaTx(JobFile(w))
             /\ wk' = [wk EXCEPT ![w].pc = "derive", ![w].todo = Derive[JobFile(w)]]
    <2>1. /\ wk'[w].pc = "derive" /\ wk'[w].f = wk[w].f /\ wk'[w].todo = Derive[JobFile(w)]
          /\ \A v \in Workers : v # w => wk'[v] = wk[v]
      BY <1>2 DEF TypeInv, TypeOK, PoolTypeOK
    <2> QED
      BY <1>1, <1>2, <2>1 DEF InsertStorageMediaTx
  <1>3. CASE UNCHANGED tables /\ Go(w, "fail")
    BY <1>1, <1>3, GoEffect DEF tables, Goes
  <1> QED
    BY <1>2, <1>3 DEF ProcessTx

DeriveDone(w, d) ==
    /\ JobFile(w) \in Files /\ wk[w].pc = "derive" /\ blob' = blob \cup {d}
    /\ UNCHANGED <<storage, file, born, media, job, locked, flaw>>
    /\ wk'[w].pc = "derive" /\ wk'[w].f = wk[w].f /\ wk'[w].todo = wk[w].todo \ {d}
    /\ \A v \in Workers : v # w => wk'[v] = wk[v]

\* The step Derive has the effect DeriveDone.
LEMMA DeriveDoes ==
  ASSUME TypeInv, NEW w \in Workers, NEW d \in DerivedIds, ProcessDerive(w, d)
  PROVE  DeriveDone(w, d)
  <1> USE DEF DeriveDone
  <1>1. JobFile(w) \in Files /\ wk[w].pc = "derive"
    BY WorkerShape DEF ProcessDerive, Is, NoJobSteps
  <1>2. /\ wk'[w].pc = wk[w].pc /\ wk'[w].f = wk[w].f /\ wk'[w].todo = wk[w].todo \ {d}
        /\ \A v \in Workers : v # w => wk'[v] = wk[v]
    BY DEF ProcessDerive, TypeInv, TypeOK, PoolTypeOK
  <1> QED
    BY <1>1, <1>2 DEF ProcessDerive, PutObject

AbortDone(w) ==
    /\ JobFile(w) \in Files /\ InTx(w) /\ locked' = locked \ {JobFile(w)}
    /\ UNCHANGED <<storage, file, born, media, job, blob, flaw>>
    /\ wk'[w].pc = "fail" /\ wk'[w].f = wk[w].f
    /\ \A v \in Workers : v # w => wk'[v] = wk[v]

\* The step Abort has the effect AbortDone.
LEMMA AbortDoes ==
  ASSUME TypeInv, NEW w \in Workers, ProcessAbort(w)
  PROVE  AbortDone(w)
  <1> USE DEF AbortDone
  <1>1. JobFile(w) \in Files /\ InTx(w)
    BY WorkerShape DEF ProcessAbort, InTx, NoJobSteps
  <1>2. /\ wk'[w].pc = "fail" /\ wk'[w].f = wk[w].f
        /\ \A v \in Workers : v # w => wk'[v] = wk[v]
    BY DEF ProcessAbort, TypeInv, TypeOK, PoolTypeOK
  <1> QED
    BY <1>1, <1>2 DEF ProcessAbort, RollbackMediaTx

CommitDone(w) ==
    LET f == JobFile(w) IN
    /\ f \in Files /\ wk[w].pc = "commit"
    /\ media' = media \cup {f} /\ born' = born \cup Derive[f] /\ locked' = locked \ {f}
    /\ \A g \in Files :
          IF g \in Derive[f]
          THEN file'[g].status = "PUBLISHED" /\ file'[g].excluded = FALSE
          ELSE file'[g] = file[g]
    /\ UNCHANGED <<storage, job, blob, flaw>>
    /\ Goes(w, "complete") \/ Goes(w, "fail")

\* The step Commit has the effect CommitDone.
LEMMA CommitDoes ==
  ASSUME TypeInv, NEW w \in Workers, ProcessCommit(w)
  PROVE  CommitDone(w)
  <1> USE DEF CommitDone
  <1>1. JobFile(w) \in Files /\ wk[w].pc = "commit" /\ DataTypeOK
    BY WorkerShape DEF ProcessCommit, Is, NoJobSteps, TypeInv, TypeOK
  <1>2. Goes(w, "complete") \/ Goes(w, "fail")
    BY GoEffect DEF ProcessCommit, Goes
  <1> QED
    BY <1>1, <1>2, CommitEffect DEF ProcessCommit

SettleDone(w) ==
    /\ JobFile(w) \in Files /\ wk[w].pc \in {"complete", "fail"} /\ Loops(w)
    /\ UNCHANGED <<storage, file, born, media, locked, blob>>
    /\ \/ /\ UNCHANGED flaw
          /\ JobBecomes(JobFile(w),
                IF HasJob(JobFile(w))
                THEN IF wk[w].pc = "complete" THEN "done" ELSE "failed"
                ELSE "none", job[JobFile(w)].attempts)
       \/ UNCHANGED job /\ Adds(JobFile(w), "stranded")

\* The step Settle has the effect SettleDone.
LEMMA SettleDoes ==
  ASSUME TypeInv, NEW w \in Workers, Settle(w)
  PROVE  SettleDone(w)
  <1> USE DEF SettleDone
  <1>1. JobFile(w) \in Files /\ wk[w].pc \in {"complete", "fail"} /\ Loops(w) /\ DataTypeOK
    <2>1. wk' = [wk EXCEPT ![w] = AtLoop]
      BY DEF Settle
    <2> QED
      BY <2>1, WorkerShape, LoopEffect DEF Settle, NoJobSteps, TypeInv, TypeOK
  <1>2. CASE /\ SettleMediaJob(JobFile(w), IF Is(w, "complete") THEN "done" ELSE "failed")
             /\ UNCHANGED flaw
    BY <1>1, <1>2, SettleEffect DEF Is, HasJob
  <1>3. CASE UNCHANGED tables /\ Flaw(JobFile(w), "stranded")
    BY <1>1, <1>3 DEF tables, Flaw, Adds
  <1> QED
    BY <1>2, <1>3 DEF Settle

WorkerCrashDone(w) ==
    /\ UNCHANGED <<storage, file, born, media, job, blob>> /\ flaw \subseteq flaw'
    /\ wk'[w].pc = "exit" /\ wk'[w].f = NoFile
    /\ \A v \in Workers : v # w => wk'[v] = wk[v]
    /\ \/ UNCHANGED locked
       \/ wk[w].pc \notin NoJobSteps /\ locked' = locked \ {JobFile(w)}

\* The step WorkerCrash has the effect WorkerCrashDone.
LEMMA WorkerCrashDoes ==
  ASSUME TypeInv, NEW w \in Workers, WorkerCrash(w)
  PROVE  WorkerCrashDone(w)
  <1> USE DEF WorkerCrashDone
  <1>1. /\ wk'[w].pc = "exit" /\ wk'[w].f = NoFile
        /\ \A v \in Workers : v # w => wk'[v] = wk[v]
    <2>1. wk' = [wk EXCEPT ![w] = Exited]
      BY DEF WorkerCrash
    <2>2. wk'[w] = Exited /\ \A v \in Workers : v # w => wk'[v] = wk[v]
      BY <2>1, WorkerEffect
    <2> QED
      BY <2>2 DEF Exited
  <1>2. flaw \subseteq flaw'
    BY DEF WorkerCrash
  <1>3. CASE InTx(w)
    BY <1>1, <1>2, <1>3 DEF WorkerCrash, RollbackMediaTx, InTx, NoJobSteps
  <1>4. CASE ~InTx(w)
    BY <1>1, <1>2, <1>4 DEF WorkerCrash, tables
  <1> QED
    BY <1>3, <1>4

-----------------------------------------------------------------------------
(* A step of the service is one of these. *)

RequestDone(r) ==
    \/ UploadInsertDone(r) \/ UploadPutDone(r) \/ UploadPublishDone(r)
    \/ RollbackBlobDone(r) \/ RollbackRowDone(r)
    \/ ReloadDone(r) \/ MediaExistsDone(r) \/ EnqueueDone(r)
    \/ PatchMetaDone(r) \/ SoftSetDone(r)
    \/ PermaStorageDone(r) \/ PermaBlobDone(r) \/ PermaRowDone(r) \/ RequestCrashDone(r)

WorkerDone(w) ==
    \/ ClaimDone(w) \/ ClaimNothingDone(w) \/ LookDone(w) \/ TxDone(w)
    \/ AbortDone(w) \/ CommitDone(w) \/ SettleDone(w) \/ WorkerCrashDone(w)

NextDone ==
    \/ /\ UNCHANGED wk
       /\ \/ \E r \in Reqs : RequestDone(r)
          \/ \E r \in Reqs, f \in Uploads : UploadStartDone(r, f)
          \/ \E r \in Reqs, f \in Files : OtherStartDone(r, f)
          \/ DeleteStorageDone
    \/ /\ UNCHANGED apiVars
       /\ \/ \E w \in Workers : WorkerDone(w)
          \/ \E w \in Workers, d \in DerivedIds : DeriveDone(w, d)
          \/ IdlingDone

\* Every step of the service has one of the effects above: the safety proofs start from here.
LEMMA NextDoes == TypeInv /\ [Next]_vars => NextDone
<1> SUFFICES ASSUME TypeInv, [Next]_vars PROVE NextDone
  OBVIOUS
<1>1. ASSUME NEW r \in Reqs, RequestStep(r) \/ RequestCrash(r) PROVE RequestDone(r)
  BY <1>1, UploadInsertDoes, UploadPutDoes, UploadPublishDoes, RollbackBlobDoes,
     RollbackRowDoes, ReloadDoes, MediaExistsDoes, EnqueueDoes, PatchMetaDoes, SoftSetDoes,
     PermaStorageDoes, PermaBlobDoes, PermaRowDoes, RequestCrashDoes
  DEF RequestStep, RequestDone
<1>2. CASE ApiNext /\ UNCHANGED poolVars
  BY <1>1, <1>2, UploadStartDoes, OtherStartDoes, DeleteStorageEffect
  DEF ApiNext, NextDone, poolVars
<1>3. ASSUME NEW w \in Workers, WorkerStep(w) \/ WorkerCrash(w) \/ WorkerStart(w)
      PROVE  \/ WorkerDone(w) \/ IdlingDone
             \/ \E d \in DerivedIds : DeriveDone(w, d)
  BY <1>3, IdlingDoes, ClaimDoes, ClaimNothingDoes, LookDoes, TxDoes, DeriveDoes, AbortDoes,
     CommitDoes, SettleDoes, WorkerCrashDoes
  DEF WorkerStep, WorkerDone
<1>4. CASE PoolNext /\ UNCHANGED apiVars
  BY <1>3, <1>4, IdlingDoes DEF PoolNext, NextDone
<1>5. CASE UNCHANGED vars
  BY <1>5 DEF vars, poolVars, IdlingDone, NextDone
<1> QED
  BY <1>2, <1>4, <1>5 DEF Next
=============================================================================
