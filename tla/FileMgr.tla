------------------------------ MODULE FileMgr ------------------------------
(***************************************************************************)
(* The service: the file handlers and the media workers over the shared    *)
(* tables and object store.  Handlers enqueue the jobs the workers claim,  *)
(* and delete the files the workers are processing.                        *)
(***************************************************************************)
EXTENDS FileApi, MediaPool

vars == <<tables, apiVars, poolVars, flaw>>

Init == DataInit /\ ApiInit /\ PoolInit

Next ==
    \/ ApiNext /\ UNCHANGED poolVars
    \/ PoolNext /\ UNCHANGED apiVars

Spec == Init /\ [][Next]_vars

(* A request's goroutine and a worker's goroutine run until they block: a   *)
(* step that stays possible is taken.  A pool that keeps polling for a job   *)
(* is answered with one at last: the database does not refuse every claim.   *)
(* Nothing else is assumed of clients, crashes or failures.                  *)
Fairness ==
    /\ \A r \in Reqs : WF_vars(RequestStep(r) /\ UNCHANGED poolVars)
    /\ \A w \in Workers :
          /\ WF_vars(WorkerStep(w) /\ UNCHANGED apiVars)
          /\ SF_vars(Claim(w) /\ UNCHANGED apiVars)
          /\ WF_vars(WorkerStart(w) /\ UNCHANGED apiVars)
    /\ WF_vars(Restart /\ UNCHANGED apiVars)

FairSpec == Spec /\ Fairness

TypeOK == DataTypeOK /\ ApiTypeOK /\ PoolTypeOK

-----------------------------------------------------------------------------
(* Safety. *)

(* An upload answered 201 with its file keeps its promise: until the file is *)
(* trashed, its row is PUBLISHED and its bytes are in the backend, whatever  *)
(* fails and whoever deletes concurrently (uploadMultipart, permaDelete).    *)
CreatedIsStored ==
    \A f \in Uploads :
        up[f] = "created" /\ Loads(f, FALSE)
            => file[f].status = "PUBLISHED" /\ f \in blob

(* rollbackUploadingFile: an upload that failed leaves no row and no object, *)
(* unless a cleanup call failed too, or the database applied a statement     *)
(* whose reply was lost.                                                     *)
FailedUploadLeavesNothing ==
    \A f \in Uploads :
        /\ up[f] = "failed"
        /\ \A p \in {"insertReply", "publishReply", "rbBlob", "rbRow"} : <<f, p>> \notin flaw
        => ~Exists(f) /\ f \notin blob

(* deleteFile and permaDelete racing each other: each deletion is audited at *)
(* most once per file, a trashed file never comes back to the live listing,  *)
(* and a purged one never comes back at all.                                 *)
DeletionsAreFinal ==
    \A f \in Files :
        /\ audit[f].soft <= 1 /\ audit[f].perma <= 1
        /\ audit[f].soft = 1 => ~Loads(f, FALSE)
        /\ audit[f].perma = 1 => ~Exists(f)

(* permaDelete removes the object of a completed upload before its row: in a *)
(* storage that still exists, no row is gone with its object left behind,    *)
(* unless the backend refused the deletion.                                  *)
PurgedLeavesNoObject ==
    \A f \in Uploads :
        up[f] = "created" /\ storage /\ ~Exists(f)
            => f \notin blob \/ <<f, "permaBlob">> \in flaw

(* maybeEnqueueMedia: a media file whose upload was answered 201 has a job   *)
(* as long as it has a row, unless a call on the way to the queue failed:    *)
(* the mime SELECT of GetFile, the look for its media, or the insert.        *)
CreatedIsQueued ==
    \A f \in Uploads :
        up[f] = "created" /\ Exists(f) /\ Kind[f] # "NONE"
            => HasJob(f) \/ <<f, "enqueue">> \in flaw

(* ClaimMediaJob: two workers never hold the same job, a job is claimed at   *)
(* most once, and the job a worker holds is 'processing' unless its file is  *)
(* gone.                                                                     *)
NoDoubleProcessing ==
    /\ \A v, w \in Workers : v # w /\ JobFile(v) # NoFile => JobFile(v) # JobFile(w)
    /\ \A f \in Files : job[f].attempts <= 1
    /\ \A w \in Workers :
          JobFile(w) # NoFile =>
              job[JobFile(w)].status = "processing" \/ ~Exists(JobFile(w))

(* Process: a job marked 'done' has its media row, also when files are       *)
(* trashed, purged or patched meanwhile, unless the SELECT of the file's     *)
(* mime type failed, whose dropped error makes Process return nil.           *)
DoneHasMedia ==
    \A f \in Files :
        job[f].status = "done" => f \in media \/ <<f, "untyped">> \in flaw

(* processImage puts every derived object before it commits: the derived     *)
(* files of an image appear together with its media row, and a derived file  *)
(* in the live listing has its bytes.                                        *)
DerivedAreStored ==
    /\ \A f \in media : Derive[f] \subseteq born
    /\ \A d \in DerivedIds : Loads(d, FALSE) => d \in blob

-----------------------------------------------------------------------------
(* Liveness. *)

(* The row of an upload does not stay UPLOADING: it is published or removed, *)
(* unless the process died or the cleanup failed.                            *)
UploadingIsTransient ==
    \A f \in Uploads :
        file[f].status = "UPLOADING"
            ~> \/ file[f].status # "UPLOADING"
               \/ up[f] = "crashed"
               \/ flaw \cap {<<f, "insertReply">>, <<f, "rbRow">>} # {}

(* Every pending job is claimed (or goes with its file), however many jobs,  *)
(* crashes and restarts there are before it.                                 *)
PendingIsClaimed ==
    \A f \in Files : job[f].status = "pending" ~> job[f].status # "pending"

(* Pool.loop settles the job it claimed, panics included, unless its process *)
(* dies or the final update fails.                                           *)
ClaimedIsSettled ==
    \A f \in Files :
        job[f].status = "processing"
            ~> job[f].status # "processing" \/ <<f, "stranded">> \in flaw

(* Pool.Stop returns: after the channel is closed every worker exits, also   *)
(* with jobs still pending.                                                  *)
StopReturns == stopping ~> \A w \in Workers : Is(w, "exit")

-----------------------------------------------------------------------------
(* Refinement: the rows of core_storagefile implement FileLife. *)

Stage(f) ==
    IF Exists(f)
    THEN IF file[f].excluded THEN "trash"
         ELSE IF file[f].status = "UPLOADING" THEN "uploading" ELSE "live"
    ELSE IF f \in born THEN "gone" ELSE "new"

FL == INSTANCE FileLife WITH
         Ids <- Files, life <- [f \in Files |-> Stage(f)], open <- storage

(* No interleaving of uploads, rollbacks, deletions, crashes and media       *)
(* transactions takes a file a step back: rollback never removes a published *)
(* row, publication never brings a trashed or purged file back, a purge      *)
(* removes only what is in the trash.                                        *)
ImplementsFileLife == FL!LifeSpec

-----------------------------------------------------------------------------
(* What comments of the code say, and the code does not do. *)

(* rollbackUploadingFile "removes the UPLOADING database row": when it has   *)
(* run to its end, the row is not UPLOADING any more.                        *)
RollbackRemovesRow ==
    [][\A r \in Reqs :
          At(r, "rbRow") /\ rq'[r] = Idle /\ up'[File(r)] = "failed"
              => file'[File(r)].status # "UPLOADING"]_vars

(* The "durable queue" brings every enqueued job to an end. *)
QueueIsDurable ==
    \A f \in Files :
        job[f].status = "pending" ~> job[f].status \in {"done", "failed", "none"}
=============================================================================
