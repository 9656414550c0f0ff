------------------------------ MODULE FileApi ------------------------------
(***************************************************************************)
(* The HTTP handlers that change files: uploadMultipart and uploadFromURL  *)
(* (one control skeleton), patchFile, deleteFile, permaDelete and          *)
(* deleteStorage.  A handler is a sequence of steps, each one database     *)
(* statement or object-store call; handlers of different requests          *)
(* interleave freely.  The caller has passed the handler's access checks.  *)
(*                                                                         *)
(* A call may fail: it is refused and nothing changes (the request context *)
(* is cancelled when the client goes away, and every later call with it),  *)
(* or it is applied and only its reply is lost.                            *)
(***************************************************************************)
EXTENDS DataLayer

CONSTANT Reqs    \* request slots: handlers in flight at once

VARIABLES
    rq,     \* the handler in each slot: operation, next step, file
    up,     \* what became of the upload of each id
    audit   \* number of audit lines per file: soft and perma deletions

apiVars == <<rq, up, audit>>

Ops == {"none", "upload", "patch", "soft", "perma"}

Steps == {"idle", "insert", "put", "publish", "rbBlob", "rbRow",
          "reload", "exists", "enqueue", "patchMeta", "softSet",
          "permaStorage", "permaBlob", "permaRow"}

Outcomes == {"unused", "open", "created", "createdNull", "failed", "crashed"}

Idle == [op |-> "none", pc |-> "idle", f |-> NoFile]

ApiTypeOK ==
    /\ rq \in [Reqs -> [op : Ops, pc : Steps, f : Files \cup {NoFile}]]
    /\ up \in [Files -> Outcomes]
    /\ audit \in [Files -> [soft : Nat, perma : Nat]]

ApiInit ==
    /\ rq = [r \in Reqs |-> Idle]
    /\ up = [f \in Files |-> "unused"]
    /\ audit = [f \in Files |-> [soft |-> 0, perma |-> 0]]

At(r, step) == rq[r].pc = step
File(r) == rq[r].f

Begin(r, op, step, f) ==
    /\ At(r, "idle")
    /\ rq' = [rq EXCEPT ![r] = [op |-> op, pc |-> step, f |-> f]]

Goto(r, step) == rq' = [rq EXCEPT ![r].pc = step]

(* The handler answers; an upload's answer is remembered as "result". *)
Answer(r, result) ==
    /\ rq' = [rq EXCEPT ![r] = Idle]
    /\ up' = IF rq[r].op = "upload" THEN [up EXCEPT ![File(r)] = result] ELSE up

-----------------------------------------------------------------------------
(* Uploads. *)

(* GetStorage succeeds and the handler draws a new id. *)
UploadStart(r, f) ==
    /\ storage
    /\ up[f] = "unused"
    /\ Begin(r, "upload", "insert", f)
    /\ up' = [up EXCEPT ![f] = "open"]
    /\ UNCHANGED <<tables, audit, flaw>>

(* InsertFile with status UPLOADING; an error is answered without cleanup. *)
UploadInsert(r) ==
    /\ At(r, "insert")
    /\ \/ InsertFile(File(r)) /\ Goto(r, "put") /\ UNCHANGED <<up, flaw>>
       \/ InsertFile(File(r)) /\ Answer(r, "failed") /\ Flaw(File(r), "insertReply")
       \/ Answer(r, "failed") /\ UNCHANGED <<tables, flaw>>
    /\ UNCHANGED audit

(* Mutant: an error of be.Put is answered without the rollback. *)
UploadPut_NoRollback(r) ==
    /\ At(r, "put")
    /\ \/ PutObject(File(r)) /\ Goto(r, "publish") /\ UNCHANGED up
       \/ UNCHANGED tables /\ Answer(r, "failed")
    /\ UNCHANGED <<audit, flaw>>

(* The fetch of the source URL, ForStorage and be.Put: an error of any of  *)
(* them starts the rollback, and a failed Put may leave an object behind.  *)
UploadPut(r) ==
    /\ At(r, "put")
    /\ \/ PutObject(File(r)) /\ Goto(r, "publish")
       \/ PutObject(File(r)) /\ Goto(r, "rbBlob")
       \/ UNCHANGED tables /\ Goto(r, "rbBlob")
    /\ UNCHANGED <<up, audit, flaw>>

UploadPublish(r) ==
    /\ At(r, "publish")
    /\ \/ PublishFile(File(r)) /\ Goto(r, "reload") /\ UNCHANGED flaw
       \/ PublishFile(File(r)) /\ Goto(r, "rbBlob") /\ Flaw(File(r), "publishReply")
       \/ UNCHANGED tables /\ Goto(r, "rbBlob") /\ UNCHANGED flaw
    /\ UNCHANGED <<up, audit>>

(* Mutant: the rollback forgets the object. *)
RollbackBlob_KeepsObject(r) ==
    /\ At(r, "rbBlob")
    /\ Goto(r, "rbRow")
    /\ UNCHANGED <<tables, flaw, up, audit>>

(* rollbackUploadingFile: both calls are made, the error of each ignored. *)
RollbackBlob(r) ==
    /\ At(r, "rbBlob")
    /\ Goto(r, "rbRow")
    /\ \/ DeleteObject(File(r)) /\ UNCHANGED flaw
       \/ UNCHANGED tables /\ Flaw(File(r), "rbBlob")
    /\ UNCHANGED <<up, audit>>

RollbackRow(r) ==
    /\ At(r, "rbRow")
    /\ Answer(r, "failed")
    /\ \/ DeleteFailedUploadingFile(File(r)) /\ UNCHANGED flaw
       \/ UNCHANGED tables /\ Flaw(File(r), "rbRow")
    /\ UNCHANGED audit

-----------------------------------------------------------------------------
(* The tail of uploads and patches: GetFile, then maybeEnqueueMedia. *)

(* Mutant: images are left out of the categories. *)
ShouldEnqueue_NoImages(f) ==
    file[f].status = "PUBLISHED" /\ Kind[f] \in {"VIDEO", "DOCUMENT"}

(* maybeEnqueueMedia goes on: a published file, read with its mime type, of *)
(* a media category.                                                        *)
ShouldEnqueue(f) == file[f].status = "PUBLISHED" /\ Kind[f] # "NONE"

(* GetFile(excluded = false); without a row the answer's body is null.      *)
(* enrichFile drops the error of its mime SELECT: a file read without its   *)
(* type has no media category, and maybeEnqueueMedia returns at once; so it *)
(* does if uploadMultipart could not read the type of the name's extension. *)
Reload(r) ==
    /\ At(r, "reload")
    /\ \/ /\ Loads(File(r), FALSE)
          /\ IF ShouldEnqueue(File(r))
             THEN Goto(r, "exists") /\ UNCHANGED up ELSE Answer(r, "created")
          /\ UNCHANGED flaw
       \/ Loads(File(r), FALSE) /\ Answer(r, "created") /\ Flaw(File(r), "enqueue")
       \/ Answer(r, "createdNull") /\ UNCHANGED flaw
    /\ UNCHANGED <<tables, audit>>

(* StorageMediaExistsForFile *)
MediaExists(r) ==
    /\ At(r, "exists")
    /\ \/ File(r) \notin media /\ Goto(r, "enqueue") /\ UNCHANGED <<up, flaw>>
       \/ File(r) \in media /\ Answer(r, "created") /\ UNCHANGED flaw
       \/ Answer(r, "created") /\ Flaw(File(r), "enqueue")
    /\ UNCHANGED <<tables, audit>>

Enqueue(r) ==
    /\ At(r, "enqueue")
    /\ Answer(r, "created")
    /\ \/ EnqueueMediaProcessing(File(r)) /\ UNCHANGED flaw
       \/ UNCHANGED tables /\ Flaw(File(r), "enqueue")
    /\ UNCHANGED audit

PatchStart(r, f) ==
    /\ Loads(f, FALSE)
    /\ Begin(r, "patch", "patchMeta", f)
    /\ UNCHANGED <<tables, up, audit, flaw>>

(* UpdateFileMeta writes columns the other handlers do not look at; it     *)
(* fails when the row is gone or excluded by now.                          *)
PatchMeta(r) ==
    /\ At(r, "patchMeta")
    /\ \/ Loads(File(r), FALSE) /\ Goto(r, "reload") /\ UNCHANGED up
       \/ Answer(r, "failed")
    /\ UNCHANGED <<tables, audit, flaw>>

-----------------------------------------------------------------------------
(* Deletions. *)

SoftStart(r, f) ==
    /\ Loads(f, FALSE)
    /\ Begin(r, "soft", "softSet", f)
    /\ UNCHANGED <<tables, up, audit, flaw>>

(* SetFileExcluded; the audit line follows a successful call only. *)
SoftSet(r) ==
    /\ At(r, "softSet")
    /\ Answer(r, "none")
    /\ \/ ExcludeFile(File(r)) /\ audit' = [audit EXCEPT ![File(r)].soft = @ + 1]
       \/ ExcludeFile(File(r)) /\ UNCHANGED audit
       \/ UNCHANGED <<tables, audit>>
    /\ UNCHANGED flaw

(* Mutant: permaDelete reads the row from the live files. *)
PermaStart_Live(r, f) ==
    /\ Loads(f, FALSE)
    /\ Begin(r, "perma", "permaStorage", f)
    /\ UNCHANGED <<tables, up, audit, flaw>>

PermaStart(r, f) ==
    /\ Loads(f, TRUE)
    /\ Begin(r, "perma", "permaStorage", f)
    /\ UNCHANGED <<tables, up, audit, flaw>>

(* GetStorage, then ForStorage, whose error only skips the object. *)
PermaStorage(r) ==
    /\ At(r, "permaStorage")
    /\ \/ storage /\ Goto(r, "permaBlob") /\ UNCHANGED <<up, flaw>>
       \/ storage /\ Goto(r, "permaRow") /\ UNCHANGED up /\ Flaw(File(r), "permaBlob")
       \/ Answer(r, "none") /\ UNCHANGED flaw
    /\ UNCHANGED <<tables, audit>>

(* Mutant: only the row is purged. *)
PermaBlob_KeepsObject(r) ==
    /\ At(r, "permaBlob")
    /\ Goto(r, "permaRow")
    /\ UNCHANGED <<tables, flaw, up, audit>>

(* be.Delete, its error ignored. *)
PermaBlob(r) ==
    /\ At(r, "permaBlob")
    /\ Goto(r, "permaRow")
    /\ \/ DeleteObject(File(r)) /\ UNCHANGED flaw
       \/ UNCHANGED tables /\ Flaw(File(r), "permaBlob")
    /\ UNCHANGED <<up, audit>>

PermaRow(r) ==
    /\ At(r, "permaRow")
    /\ Answer(r, "none")
    /\ \/ PermaDeleteFile(File(r)) /\ audit' = [audit EXCEPT ![File(r)].perma = @ + 1]
       \/ PermaDeleteFile(File(r)) /\ UNCHANGED audit
       \/ UNCHANGED <<tables, audit>>
    /\ UNCHANGED flaw

DeleteStorage ==
    /\ DeleteStorageRow
    /\ UNCHANGED <<apiVars, flaw>>

(* The process dies with the request in flight. *)
RequestCrash(r) ==
    /\ ~At(r, "idle")
    /\ Answer(r, "crashed")
    /\ UNCHANGED <<tables, audit, flaw>>

-----------------------------------------------------------------------------
(* The steps of a request that has begun, crashes apart. *)
RequestStep(r) ==
    \/ UploadInsert(r) \/ UploadPut(r) \/ UploadPublish(r)
    \/ RollbackBlob(r) \/ RollbackRow(r)
    \/ Reload(r) \/ MediaExists(r) \/ Enqueue(r)
    \/ PatchMeta(r) \/ SoftSet(r)
    \/ PermaStorage(r) \/ PermaBlob(r) \/ PermaRow(r)

ApiNext ==
    \/ \E r \in Reqs : RequestStep(r) \/ RequestCrash(r)
    \/ \E r \in Reqs, f \in Uploads : UploadStart(r, f)
    \/ \E r \in Reqs, f \in Files : PatchStart(r, f) \/ SoftStart(r, f) \/ PermaStart(r, f)
    \/ DeleteStorage
=============================================================================
