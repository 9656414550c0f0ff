----------------------------- MODULE DataLayer -----------------------------
(***************************************************************************)
(* The PostgreSQL tables behind the file manager and the object store, and *)
(* the SQL statements of internal/data that change them: one operator per  *)
(* statement, each one atomic.  One storage is modelled: no statement of   *)
(* the service relates the rows of two storages.                           *)
(*                                                                         *)
(* A row is identified by its uuid.  Uploads are the ids uuid.New() hands  *)
(* to upload requests, DerivedIds the ids it hands to thumbnails and       *)
(* resized images; an id is never drawn twice.                             *)
(***************************************************************************)
EXTENDS Naturals, FiniteSets

CONSTANTS
    Uploads,      \* ids of uploaded files
    DerivedIds,   \* ids of files the media worker derives from images
    Kind,         \* MediaCategory of each file read with its mime type
    Derive,       \* ids of the thumbnails and resized images of each file
    NoFile,       \* an id of no file
    MaxFlaws      \* bound on the failures recorded in a behaviour

Files == Uploads \cup DerivedIds

Kinds == {"IMAGE", "VIDEO", "DOCUMENT", "NONE"}

ASSUME IdsAssumption ==
    /\ Uploads \cap DerivedIds = {}
    /\ NoFile \notin Files
    /\ Kind \in [Files -> Kinds]
    /\ Derive \in [Files -> SUBSET DerivedIds]
    /\ \A f, g \in Files : f # g => Derive[f] \cap Derive[g] = {}
    /\ MaxFlaws \in Nat

VARIABLES
    storage,   \* the core_storage row exists
    file,      \* core_storagefile: status and excluded of each row
    born,      \* history: ids ever inserted into core_storagefile
    media,     \* core_storagemedia: files that have a media row
    job,       \* media_processing_jobs, by storage_file_id (UNIQUE)
    clock,     \* NOW() of the job inserts, counted in inserts
    locked,    \* file rows an open transaction holds FOR KEY SHARE
    blob,      \* real_paths that have an object in the backend
    flaw       \* history: <<file, point>> where a failure went unreported

tables == <<storage, file, born, media, job, clock, locked, blob>>

RowStatus == {"none", "UPLOADING", "PUBLISHED"}
JobStatus == {"none", "pending", "processing", "done", "failed"}

(* Calls whose failure the code ignores or answers without cleanup.  "flaw" *)
(* remembers them, so that properties can say what holds without them.      *)
Points == {"insertReply", "publishReply", "rbBlob", "rbRow", "enqueue",
           "permaBlob", "stranded", "untyped"}

Flaw(f, point) ==
    /\ <<f, point>> \notin flaw => Cardinality(flaw) < MaxFlaws
    /\ flaw' = flaw \cup {<<f, point>>}

NoRow == [status |-> "none", excluded |-> FALSE]
NoJob == [status |-> "none", attempts |-> 0, created_at |-> 0]

Exists(f) == file[f].status # "none"

(* GetFile and loadFileRow with excluded = ex find the row. *)
Loads(f, ex) == Exists(f) /\ file[f].excluded = ex

HasJob(f) == job[f].status # "none"

DataTypeOK ==
    /\ storage \in BOOLEAN
    /\ file \in [Files -> [status : RowStatus, excluded : BOOLEAN]]
    /\ born \in SUBSET Files
    /\ media \in SUBSET Files
    /\ job \in [Files -> [status : JobStatus, attempts : Nat, created_at : Nat]]
    /\ clock \in Nat
    /\ locked \in SUBSET Files
    /\ blob \in SUBSET Files
    /\ flaw \in SUBSET (Files \X Points)

DataInit ==
    /\ storage = TRUE
    /\ file = [f \in Files |-> NoRow]
    /\ born = {}
    /\ media = {}
    /\ job = [f \in Files |-> NoJob]
    /\ clock = 0
    /\ locked = {}
    /\ blob = {}
    /\ flaw = {}

-----------------------------------------------------------------------------
(* Statements on core_storagefile. *)

(* InsertFile of an upload: the foreign key needs the storage row. *)
InsertFile(f) ==
    /\ storage
    /\ file' = [file EXCEPT ![f] = [status |-> "UPLOADING", excluded |-> FALSE]]
    /\ born' = born \cup {f}
    /\ UNCHANGED <<storage, media, job, clock, locked, blob>>

(* UpdateFilePathsAndStatus(PUBLISHED): an absent row is not an error. *)
PublishFile(f) ==
    /\ file' = [file EXCEPT ![f].status = IF Exists(f) THEN "PUBLISHED" ELSE @]
    /\ UNCHANGED <<storage, born, media, job, clock, locked, blob>>

(* SetFileExcluded(true) on the row WHERE excluded = false. *)
ExcludeFile(f) ==
    /\ Loads(f, FALSE)
    /\ file' = [file EXCEPT ![f].excluded = TRUE]
    /\ UNCHANGED <<storage, born, media, job, clock, locked, blob>>

(* DELETE of one file row; the job and the media row go with it (ON DELETE  *)
(* CASCADE).  It waits for a transaction that holds the row FOR KEY SHARE.  *)
DeleteFileRow(f) ==
    /\ f \notin locked
    /\ file' = [file EXCEPT ![f] = NoRow]
    /\ media' = media \ {f}
    /\ job' = [job EXCEPT ![f] = NoJob]
    /\ UNCHANGED <<storage, born, clock, locked, blob>>

(* Mutant: the rollback removes the row whatever its status. *)
DeleteFailedUploadingFile_AnyStatus(f) == DeleteFileRow(f)

(* DeleteFailedUploadingFile: DELETE ... AND status = 'UPLOADING'. *)
DeleteFailedUploadingFile(f) ==
    IF file[f].status = "UPLOADING" THEN DeleteFileRow(f) ELSE UNCHANGED tables

(* Mutant: RowsAffected is not looked at, an absent row is a success. *)
PermaDeleteFile_NoRowIsFine(f) ==
    IF Loads(f, TRUE) THEN DeleteFileRow(f) ELSE UNCHANGED tables

(* PermaDeleteFile: DELETE ... AND excluded = true; no row is an error. *)
PermaDeleteFile(f) == Loads(f, TRUE) /\ DeleteFileRow(f)

(* DeleteStorage: the row and, by cascade, every row that refers to it. The *)
(* objects stay in the backend.                                             *)
DeleteStorageRow ==
    /\ storage
    /\ locked = {}
    /\ storage' = FALSE
    /\ file' = [f \in Files |-> NoRow]
    /\ media' = {}
    /\ job' = [f \in Files |-> NoJob]
    /\ UNCHANGED <<born, clock, locked, blob>>

-----------------------------------------------------------------------------
(* Statements on media_processing_jobs. *)

(* Mutant: the insert names a status the claim does not look for. *)
EnqueueMediaProcessing_Misspelt(f) ==
    IF Exists(f) /\ ~HasJob(f)
    THEN /\ job' = [job EXCEPT ![f] =
                [status |-> "queued", attempts |-> 0, created_at |-> clock]]
         /\ clock' = clock + 1
         /\ UNCHANGED <<storage, file, born, media, locked, blob>>
    ELSE UNCHANGED tables

(* EnqueueMediaProcessing: ON CONFLICT (storage_file_id) DO NOTHING; the    *)
(* insert of a job for an absent file breaks a foreign key.                 *)
EnqueueMediaProcessing(f) ==
    IF Exists(f) /\ ~HasJob(f)
    THEN /\ job' = [job EXCEPT ![f] =
                [status |-> "pending", attempts |-> 0, created_at |-> clock]]
         /\ clock' = clock + 1
         /\ UNCHANGED <<storage, file, born, media, locked, blob>>
    ELSE UNCHANGED tables

Pending == {f \in Files : job[f].status = "pending"}

(* Mutant: a job that is 'processing' is taken for an abandoned one. *)
ClaimMediaJob_Again(f) ==
    /\ job[f].status \in {"pending", "processing"}
    /\ job' = [job EXCEPT ![f].status = "processing", ![f].attempts = @ + 1]
    /\ UNCHANGED <<storage, file, born, media, clock, locked, blob>>

(* ClaimMediaJob: the oldest pending job; the statement commits at once, so *)
(* SKIP LOCKED skips only what another claim is taking in that instant.     *)
ClaimMediaJob(f) ==
    /\ f \in Pending
    /\ \A g \in Pending : job[f].created_at <= job[g].created_at
    /\ job' = [job EXCEPT ![f].status = "processing", ![f].attempts = @ + 1]
    /\ UNCHANGED <<storage, file, born, media, clock, locked, blob>>

(* CompleteMediaJob and FailMediaJob: UPDATE ... WHERE id, no other guard.  *)
SettleMediaJob(f, result) ==
    /\ job' = [job EXCEPT ![f].status = IF HasJob(f) THEN result ELSE @]
    /\ UNCHANGED <<storage, file, born, media, clock, locked, blob>>

-----------------------------------------------------------------------------
(* The worker's transaction. *)

(* InsertStorageMediaTx: UNIQUE (storage_file_id), and the foreign key locks *)
(* the file row until the transaction ends.                                  *)
InsertStorageMediaTx(f) ==
    /\ Exists(f)
    /\ f \notin media \cup locked
    /\ locked' = locked \cup {f}
    /\ UNCHANGED <<storage, file, born, media, job, clock, blob>>

(* tx.Commit: the media row and the rows of the derived files appear.      *)
CommitMediaTx(f) ==
    /\ media' = media \cup {f}
    /\ file' = [g \in Files |->
          IF g \in Derive[f]
          THEN [status |-> "PUBLISHED", excluded |-> FALSE] ELSE file[g]]
    /\ born' = born \cup Derive[f]
    /\ locked' = locked \ {f}
    /\ UNCHANGED <<storage, job, clock, blob>>

(* tx.Rollback: nothing of the transaction remains in the database. *)
RollbackMediaTx(f) ==
    /\ locked' = locked \ {f}
    /\ UNCHANGED <<storage, file, born, media, job, clock, blob>>

-----------------------------------------------------------------------------
(* Calls of the object store's backend. *)

PutObject(f) ==
    /\ blob' = blob \cup {f}
    /\ UNCHANGED <<storage, file, born, media, job, clock, locked>>

DeleteObject(f) ==
    /\ blob' = blob \ {f}
    /\ UNCHANGED <<storage, file, born, media, job, clock, locked>>
=============================================================================
