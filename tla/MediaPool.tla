----------------------------- MODULE MediaPool -----------------------------
(***************************************************************************)
(* The media workers: the loop of media_worker.Pool and the pipeline of    *)
(* media_processor.Processor it runs for every claimed job, one step per   *)
(* database or object-store call.  Workers may belong to one process or to *)
(* several replicas; a process that dies takes its workers with it, one    *)
(* WorkerCrash each.                                                       *)
(***************************************************************************)
EXTENDS DataLayer

CONSTANTS
    Workers,      \* worker goroutines, of all replicas
    MaxRestarts   \* bound on crashes and orderly stops in a behaviour

ASSUME RestartsAssumption == MaxRestarts \in Nat

VARIABLES
    wk,        \* each worker: next step, file of its job, derived files to do
    stopping,  \* p.stop is closed and Stop is waiting for the workers
    restarts   \* crashes and stops so far

poolVars == <<wk, stopping, restarts>>

WorkerSteps == {"exit", "loop", "claim", "exists", "load", "storage", "open", "tx",
                "derive", "commit", "complete", "fail"}

AtLoop == [pc |-> "loop", f |-> NoFile, todo |-> {}]
Exited == [pc |-> "exit", f |-> NoFile, todo |-> {}]

PoolTypeOK ==
    /\ wk \in [Workers -> [pc : WorkerSteps, f : Files \cup {NoFile},
                           todo : SUBSET DerivedIds]]
    /\ stopping \in BOOLEAN
    /\ restarts \in 0..MaxRestarts

(* Start: every worker enters its loop. *)
PoolInit ==
    /\ wk = [w \in Workers |-> AtLoop]
    /\ stopping = FALSE
    /\ restarts = 0

Is(w, step) == wk[w].pc = step
JobFile(w) == wk[w].f
Go(w, step) == wk' = [wk EXCEPT ![w].pc = step]

(* The worker has begun the transaction of processImage/Video/Document. *)
InTx(w) == wk[w].pc \in {"derive", "commit"}

-----------------------------------------------------------------------------
(* The loop of one worker. *)

(* <-p.stop, seen at the loop's head or while waiting for the tick. *)
WorkerExit(w) ==
    /\ Is(w, "loop") /\ stopping
    /\ wk' = [wk EXCEPT ![w] = Exited]
    /\ UNCHANGED <<tables, stopping, restarts, flaw>>

(* Mutant: the loop's head does not look at the stop channel. *)
WorkerPoll_Deaf(w) ==
    /\ Is(w, "loop")
    /\ Go(w, "claim")
    /\ UNCHANGED <<tables, stopping, restarts, flaw>>

(* The channel is open: the worker goes on to claim, even if Stop closes it *)
(* meanwhile.                                                               *)
WorkerPoll(w) ==
    /\ Is(w, "loop") /\ ~stopping
    /\ Go(w, "claim")
    /\ UNCHANGED <<tables, stopping, restarts, flaw>>

(* ClaimMediaJob returns a job. *)
Claim(w) ==
    /\ Is(w, "claim")
    /\ \E f \in Files :
          /\ ClaimMediaJob(f)
          /\ wk' = [wk EXCEPT ![w] = [pc |-> "exists", f |-> f, todo |-> {}]]
    /\ UNCHANGED <<stopping, restarts, flaw>>

(* The queue is empty, or the claim fails; its reply alone may be lost.  The *)
(* worker waits for the tick.                                                *)
ClaimNothing(w) ==
    /\ Is(w, "claim")
    /\ wk' = [wk EXCEPT ![w] = AtLoop]
    /\ \/ UNCHANGED <<tables, flaw>>
       \/ \E f \in Files : ClaimMediaJob(f) /\ Flaw(f, "stranded")
    /\ UNCHANGED <<stopping, restarts>>

(* StorageMediaExistsForFile: a job whose media exists is done already. *)
ProcessExists(w) ==
    /\ Is(w, "exists")
    /\ \/ JobFile(w) \in media /\ Go(w, "complete")
       \/ JobFile(w) \notin media /\ Go(w, "load")
       \/ Go(w, "fail")
    /\ UNCHANGED <<tables, stopping, restarts, flaw>>

(* Mutant: an error of Process skips FailMediaJob. *)
ProcessLoad_Forgets(w) ==
    /\ Is(w, "load")
    /\ \/ Loads(JobFile(w), FALSE) /\ Go(w, "storage")
       \/ wk' = [wk EXCEPT ![w] = AtLoop]
    /\ UNCHANGED <<tables, stopping, restarts, flaw>>

(* GetFileForWorker(excluded = false), then the status guard. *)
ProcessLoad(w) ==
    /\ Is(w, "load")
    /\ \/ /\ Loads(JobFile(w), FALSE)
          /\ IF file[JobFile(w)].status = "PUBLISHED"
             THEN Go(w, "storage") ELSE Go(w, "complete")
       \/ Go(w, "fail")
    /\ UNCHANGED <<tables, stopping, restarts, flaw>>

(* GetStorage and the switch over MediaCategory.  Its default branch, which *)
(* returns nil, is for a file of no category and for one that ProcessLoad   *)
(* read without its type: enrichFile drops the error of the mime SELECT.    *)
ProcessStorage(w) ==
    /\ Is(w, "storage")
    /\ \/ /\ storage
          /\ \/ Kind[JobFile(w)] \in {"IMAGE", "VIDEO"} /\ Go(w, "open")
             \/ Kind[JobFile(w)] = "DOCUMENT" /\ Go(w, "tx")
             \/ Kind[JobFile(w)] = "NONE" /\ Go(w, "complete")
          /\ UNCHANGED flaw
       \/ storage /\ Go(w, "complete") /\ Flaw(JobFile(w), "untyped")
       \/ Go(w, "fail") /\ UNCHANGED flaw
    /\ UNCHANGED <<tables, stopping, restarts>>

(* be.Open, reading and decoding.  A video is opened only when ffprobe is   *)
(* configured and its size allows it.                                       *)
ProcessOpen(w) ==
    /\ Is(w, "open")
    /\ \/ (JobFile(w) \in blob \/ Kind[JobFile(w)] = "VIDEO") /\ Go(w, "tx")
       \/ Go(w, "fail")
    /\ UNCHANGED <<tables, stopping, restarts, flaw>>

(* BeginTx, the media row and the row of its kind. *)
ProcessTx(w) ==
    /\ Is(w, "tx")
    /\ \/ /\ InsertStorageMediaTx(JobFile(w))
          /\ wk' = [wk EXCEPT ![w].pc = "derive", ![w].todo = Derive[JobFile(w)]]
       \/ UNCHANGED tables /\ Go(w, "fail")
    /\ UNCHANGED <<stopping, restarts, flaw>>

(* One derived file: its row in the transaction, its object in the backend. *)
ProcessDerive(w, d) ==
    /\ Is(w, "derive")
    /\ d \in wk[w].todo
    /\ PutObject(d)
    /\ wk' = [wk EXCEPT ![w].todo = @ \ {d}]
    /\ UNCHANGED <<stopping, restarts, flaw>>

(* A derived row or object, or the resizer configuration, is refused: the   *)
(* deferred tx.Rollback removes rows, never objects.                        *)
ProcessAbort(w) ==
    /\ InTx(w)
    /\ RollbackMediaTx(JobFile(w))
    /\ wk' = [wk EXCEPT ![w].pc = "fail", ![w].todo = {}]
    /\ UNCHANGED <<stopping, restarts, flaw>>

(* Mutant: the transaction commits before the derived objects are written. *)
ProcessDerived_Early(w) ==
    /\ Is(w, "derive")
    /\ Go(w, "commit")
    /\ UNCHANGED <<tables, stopping, restarts, flaw>>

ProcessDerived(w) ==
    /\ Is(w, "derive")
    /\ wk[w].todo = {}
    /\ Go(w, "commit")
    /\ UNCHANGED <<tables, stopping, restarts, flaw>>

(* tx.Commit; with its reply lost the job fails although the media is there. *)
ProcessCommit(w) ==
    /\ Is(w, "commit")
    /\ CommitMediaTx(JobFile(w))
    /\ Go(w, "complete") \/ Go(w, "fail")
    /\ UNCHANGED <<stopping, restarts, flaw>>

(* Mutant: the error of Process is dropped and the job completed. *)
Settle_AlwaysDone(w) ==
    /\ wk[w].pc \in {"complete", "fail"}
    /\ SettleMediaJob(JobFile(w), "done")
    /\ wk' = [wk EXCEPT ![w] = AtLoop]
    /\ UNCHANGED <<stopping, restarts, flaw>>

(* CompleteMediaJob or FailMediaJob; its error is ignored. *)
Settle(w) ==
    /\ wk[w].pc \in {"complete", "fail"}
    /\ \/ /\ SettleMediaJob(JobFile(w), IF Is(w, "complete") THEN "done" ELSE "failed")
          /\ UNCHANGED flaw
       \/ UNCHANGED tables /\ Flaw(JobFile(w), "stranded")
    /\ wk' = [wk EXCEPT ![w] = AtLoop]
    /\ UNCHANGED <<stopping, restarts>>

-----------------------------------------------------------------------------
(* The pool. *)

(* Pool.Stop closes the channel and waits for the workers. *)
Stop ==
    /\ ~stopping
    /\ restarts < MaxRestarts
    /\ restarts' = restarts + 1
    /\ stopping' = TRUE
    /\ UNCHANGED <<tables, wk, flaw>>

(* Mutant: the new pool keeps the closed stop channel. *)
Restart_ClosedChannel ==
    /\ stopping
    /\ \A w \in Workers : Is(w, "exit")
    /\ wk' = [w \in Workers |-> AtLoop]
    /\ UNCHANGED <<tables, stopping, restarts, flaw>>

(* wg.Wait returns, and a new process starts its pool. *)
Restart ==
    /\ stopping
    /\ \A w \in Workers : Is(w, "exit")
    /\ stopping' = FALSE
    /\ wk' = [w \in Workers |-> AtLoop]
    /\ UNCHANGED <<tables, restarts, flaw>>

(* The worker's process dies; the database rolls its transaction back. *)
WorkerCrash(w) ==
    /\ ~Is(w, "exit")
    /\ restarts < MaxRestarts
    /\ restarts' = restarts + 1
    /\ wk' = [wk EXCEPT ![w] = Exited]
    /\ IF InTx(w) THEN RollbackMediaTx(JobFile(w)) ELSE UNCHANGED tables
    /\ IF JobFile(w) = NoFile THEN UNCHANGED flaw
       ELSE flaw' = flaw \cup {<<JobFile(w), "stranded">>}
    /\ UNCHANGED stopping

(* The process that died comes back. *)
WorkerStart(w) ==
    /\ Is(w, "exit") /\ ~stopping
    /\ wk' = [wk EXCEPT ![w] = AtLoop]
    /\ UNCHANGED <<tables, stopping, restarts, flaw>>

WorkerStep(w) ==
    \/ WorkerExit(w) \/ WorkerPoll(w) \/ Claim(w) \/ ClaimNothing(w)
    \/ ProcessExists(w) \/ ProcessLoad(w) \/ ProcessStorage(w) \/ ProcessOpen(w)
    \/ ProcessTx(w) \/ (\E d \in DerivedIds : ProcessDerive(w, d))
    \/ ProcessAbort(w) \/ ProcessDerived(w) \/ ProcessCommit(w) \/ Settle(w)

PoolNext ==
    \/ \E w \in Workers : WorkerStep(w) \/ WorkerCrash(w) \/ WorkerStart(w)
    \/ Stop \/ Restart
=============================================================================
