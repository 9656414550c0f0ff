---------------------------- MODULE FileMgrSafety ----------------------------
(***************************************************************************)
(* The invariants of FileMgr, proved for any number of files, requests,    *)
(* workers, failures and crashes.  Each conjunct of IInv has a lemma with  *)
(* one step per action that touches what it speaks of.  From them, that    *)
(* FileMgr implements FileLife.                                            *)
(***************************************************************************)
EXTENDS FileMgrEffects

(* Rows are inserted with the storage, and take what refers to them along. *)
LEMMA RowsStep == IInv /\ NextDone => RowsInv'
<1> SUFFICES ASSUME IInv, NextDone PROVE RowsInv'
  OBVIOUS
<1>0. TypeInv /\ HandlerInv /\ RowsInv /\ IdFacts /\ Statuses /\ HeldInv
  BY Ids, RowStatuses DEF IInv
<1>1. ASSUME NEW r \in Reqs, UploadInsertDone(r), UNCHANGED wk
       PROVE  RowsInv'
  <2>1. File(r) \notin born /\ File(r) \notin blob
    BY <1>0, <1>1 DEF HandlerInv, UploadInsertDone, At
  <2> QED
    BY <1>0, <1>1, <2>1 DEF UploadInsertDone, RowBecomes, Moves, Ends, Adds, At, File,
                            RowsInv, IdFacts, Exists, HasJob
<1>2. ASSUME NEW r \in Reqs, UploadPublishDone(r), UNCHANGED wk
       PROVE  RowsInv'
  BY <1>0, <1>2 DEF UploadPublishDone, RowBecomes, Moves, Adds, Exists, At, File, RowsInv,
                    IdFacts, HasJob
<1>3. ASSUME NEW r \in Reqs, RollbackRowDone(r), UNCHANGED wk
       PROVE  RowsInv'
  BY <1>0, <1>3 DEF RollbackRowDone, Ends, Adds, Deletes, RowBecomes, JobBecomes, At, File,
                    RowsInv, IdFacts, Exists, HasJob
<1>4. ASSUME NEW r \in Reqs, EnqueueDone(r), UNCHANGED wk
       PROVE  RowsInv'
  <2>1. file[File(r)].status # "UPLOADING" /\ Kind[File(r)] # "NONE"
    BY <1>0, <1>4 DEF HandlerInv, EnqueueDone, At
  <2> QED
    BY <1>0, <1>4, <2>1 DEF EnqueueDone, JobBecomes, Ends, Adds, Exists, HasJob, At, File,
                            RowsInv, Statuses, IdFacts
<1>5. ASSUME NEW r \in Reqs, SoftSetDone(r), UNCHANGED wk
       PROVE  RowsInv'
  BY <1>0, <1>5 DEF SoftSetDone, RowBecomes, Audits, Ends, Loads, At, File, RowsInv, IdFacts,
                    Exists, HasJob
<1>6. ASSUME NEW r \in Reqs, PermaRowDone(r), UNCHANGED wk
       PROVE  RowsInv'
  BY <1>0, <1>6 DEF PermaRowDone, Audits, Ends, Deletes, RowBecomes, JobBecomes, Loads, At,
                    File, RowsInv, IdFacts, Exists, HasJob
<1>7. ASSUME DeleteStorageDone, UNCHANGED wk
       PROVE  RowsInv'
  BY <1>0, <1>7 DEF DeleteStorageDone, RowsInv, IdFacts, Exists, HasJob
<1>8. ASSUME NEW w \in Workers, ClaimDone(w), UNCHANGED apiVars
       PROVE  RowsInv'
  BY <1>0, <1>8 DEF ClaimDone, JobBecomes, RowsInv, IdFacts, Exists, HasJob, apiVars
<1>9. ASSUME NEW w \in Workers, ClaimNothingDone(w), UNCHANGED apiVars
       PROVE  RowsInv'
  BY <1>0, <1>9 DEF ClaimNothingDone, JobBecomes, Adds, Loops, RowsInv, IdFacts, Exists,
                    HasJob, apiVars
<1>10. ASSUME NEW w \in Workers, CommitDone(w), UNCHANGED apiVars
       PROVE  RowsInv'
  <2>1. Exists(JobFile(w))
    BY <1>0, <1>10 DEF HeldInv, CommitDone, InTx, NoJobSteps
  <2> QED
    BY <1>0, <1>10, <2>1 DEF CommitDone, Goes, JobFile, RowsInv, IdFacts, Exists, HasJob,
                             apiVars
<1>11. ASSUME NEW w \in Workers, SettleDone(w), UNCHANGED apiVars
       PROVE  RowsInv'
  BY <1>0, <1>11 DEF SettleDone, JobBecomes, Adds, Loops, HasJob, JobFile, RowsInv, IdFacts,
                     Exists, apiVars
<1>12. ASSUME UNCHANGED <<file, born, storage, job, media>> PROVE RowsInv'
  BY <1>0, <1>12 DEF RowsInv, Exists, HasJob
<1>13. ASSUME NEW r \in Reqs, UNCHANGED wk,
              \/ UploadPutDone(r) \/ RollbackBlobDone(r) \/ ReloadDone(r)
              \/ MediaExistsDone(r) \/ PatchMetaDone(r) \/ PermaStorageDone(r)
              \/ PermaBlobDone(r) \/ RequestCrashDone(r)
       PROVE  RowsInv'
  BY <1>12, <1>13 DEF UploadPutDone, RollbackBlobDone, ReloadDone, MediaExistsDone,
                      PatchMetaDone, PermaStorageDone, PermaBlobDone, RequestCrashDone,
                      tables, Moves, apiVars
<1>14. ASSUME NEW w \in Workers, UNCHANGED apiVars,
              \/ LookDone(w) \/ TxDone(w) \/ AbortDone(w)
              \/ WorkerCrashDone(w)
       PROVE  RowsInv'
  BY <1>12, <1>14 DEF LookDone, TxDone, AbortDone, WorkerCrashDone, tables, Moves, apiVars
<1> QED
  BY <1>1, <1>2, <1>3, <1>4, <1>5, <1>6, <1>7, <1>8, <1>9, <1>10, <1>11, <1>12, <1>13, <1>14
  DEF NextDone, RequestDone, WorkerDone, tables, apiVars, UploadStartDone, OtherStartDone,
      IdlingDone, DeriveDone

(* No other handler has the id of an upload. *)
LEMMA OwnStep == IInv /\ NextDone => OwnInv'
<1> SUFFICES ASSUME IInv, NextDone PROVE OwnInv'
  OBVIOUS
<1>0. TypeInv /\ OwnInv /\ Carries /\ IdFacts
  BY HandlersCarry, Ids DEF IInv
<1>1. ASSUME NEW r \in Reqs, NEW f \in Uploads, UploadStartDone(r, f), UNCHANGED wk
       PROVE  OwnInv'
  BY <1>0, <1>1 DEF UploadStartDone, tables, OwnInv, Carries, IdFacts, File
<1>2. ASSUME NEW r \in Reqs, NEW f \in Files, OtherStartDone(r, f), UNCHANGED wk
       PROVE  OwnInv'
  BY <1>0, <1>2 DEF OtherStartDone, Exists, Loads, tables, OwnInv, Carries, IdFacts, File
<1>3. ASSUME NEW r \in Reqs, UploadInsertDone(r), UNCHANGED wk
       PROVE  OwnInv'
  BY <1>0, <1>3 DEF UploadInsertDone, RowBecomes, Moves, Ends, Adds, At, File, OwnInv,
                    Carries, IdFacts
<1>4. ASSUME NEW r \in Reqs, UploadPutDone(r), UNCHANGED wk
       PROVE  OwnInv'
  BY <1>0, <1>4 DEF UploadPutDone, Moves, At, File, OwnInv, Carries, IdFacts
<1>5. ASSUME NEW r \in Reqs, UploadPublishDone(r), UNCHANGED wk
       PROVE  OwnInv'
  BY <1>0, <1>5 DEF UploadPublishDone, RowBecomes, Moves, Adds, Exists, At, File, OwnInv,
                    Carries, IdFacts
<1>6. ASSUME NEW r \in Reqs, RollbackBlobDone(r), UNCHANGED wk
       PROVE  OwnInv'
  BY <1>0, <1>6 DEF RollbackBlobDone, Moves, Adds, At, File, OwnInv, Carries, IdFacts
<1>7. ASSUME NEW r \in Reqs, RollbackRowDone(r), UNCHANGED wk
       PROVE  OwnInv'
  BY <1>0, <1>7 DEF RollbackRowDone, Ends, Adds, Deletes, RowBecomes, JobBecomes, At, File,
                    OwnInv, Carries, IdFacts
<1>8. ASSUME NEW r \in Reqs, ReloadDone(r), UNCHANGED wk
       PROVE  OwnInv'
  BY <1>0, <1>8
  DEF ReloadDone, Moves, Ends, Adds, Loads, At, File, tables, OwnInv, Carries, IdFacts
<1>9. ASSUME NEW r \in Reqs, MediaExistsDone(r), UNCHANGED wk
       PROVE  OwnInv'
  BY <1>0, <1>9 DEF MediaExistsDone, Moves, Ends, Adds, At, File, tables, OwnInv, Carries,
                    IdFacts
<1>10. ASSUME NEW r \in Reqs, EnqueueDone(r), UNCHANGED wk
       PROVE  OwnInv'
  BY <1>0, <1>10 DEF EnqueueDone, JobBecomes, Ends, Adds, Exists, HasJob, At, File, OwnInv,
                     Carries, IdFacts
<1>11. ASSUME NEW r \in Reqs, PatchMetaDone(r), UNCHANGED wk
       PROVE  OwnInv'
  BY <1>0, <1>11 DEF PatchMetaDone, Moves, Ends, At, tables, File, OwnInv, Carries, IdFacts
<1>12. ASSUME NEW r \in Reqs, SoftSetDone(r), UNCHANGED wk
       PROVE  OwnInv'
  BY <1>0, <1>12 DEF SoftSetDone, RowBecomes, Audits, Ends, Loads, At, File, OwnInv, Carries,
                     IdFacts
<1>13. ASSUME NEW r \in Reqs, PermaStorageDone(r), UNCHANGED wk
       PROVE  OwnInv'
  BY <1>0, <1>13 DEF PermaStorageDone, Moves, Ends, Adds, At, File, tables, OwnInv, Carries,
                     IdFacts
<1>14. ASSUME NEW r \in Reqs, PermaBlobDone(r), UNCHANGED wk
       PROVE  OwnInv'
  BY <1>0, <1>14 DEF PermaBlobDone, Moves, Adds, At, File, OwnInv, Carries, IdFacts
<1>15. ASSUME NEW r \in Reqs, PermaRowDone(r), UNCHANGED wk
       PROVE  OwnInv'
  BY <1>0, <1>15 DEF PermaRowDone, Audits, Ends, Deletes, RowBecomes, JobBecomes, Loads, At,
                     File, OwnInv, Carries, IdFacts
<1>16. ASSUME NEW r \in Reqs, RequestCrashDone(r), UNCHANGED wk
       PROVE  OwnInv'
  BY <1>0, <1>16 DEF RequestCrashDone, Ends, File, tables, OwnInv, Carries, IdFacts
<1>17. ASSUME NEW w \in Workers, NEW d \in DerivedIds, DeriveDone(w, d), UNCHANGED apiVars
       PROVE  OwnInv'
  BY <1>0, <1>17 DEF DeriveDone, JobFile, OwnInv, Carries, IdFacts, File, apiVars
<1>18. ASSUME NEW w \in Workers, CommitDone(w), UNCHANGED apiVars
       PROVE  OwnInv'
  BY <1>0, <1>18 DEF CommitDone, Goes, JobFile, OwnInv, Carries, IdFacts, File, apiVars
<1>19. ASSUME UNCHANGED <<rq, up, born, blob>> PROVE OwnInv'
  BY <1>0, <1>19 DEF OwnInv, File
<1>20. ASSUME NEW w \in Workers, UNCHANGED apiVars,
              \/ ClaimDone(w) \/ ClaimNothingDone(w) \/ LookDone(w)
              \/ TxDone(w) \/ AbortDone(w) \/ SettleDone(w)
              \/ WorkerCrashDone(w)
       PROVE  OwnInv'
  BY <1>19, <1>20 DEF ClaimDone, ClaimNothingDone, LookDone, TxDone, AbortDone, SettleDone,
                      WorkerCrashDone, tables, Moves, apiVars
<1> QED
  BY <1>1, <1>2, <1>3, <1>4, <1>5, <1>6, <1>7, <1>8, <1>9, <1>10, <1>11, <1>12, <1>13, <1>14,
     <1>15, <1>16, <1>17, <1>18, <1>19, <1>20
  DEF NextDone, RequestDone, WorkerDone, tables, apiVars, DeleteStorageDone, IdlingDone

(* What a handler knows stays true while others act on the same file. *)
LEMMA HandlerStep == IInv /\ NextDone => HandlerInv'
<1> SUFFICES ASSUME IInv, NextDone PROVE HandlerInv'
  OBVIOUS
<1>0. TypeInv /\ HandlerInv /\ OwnInv /\ Carries /\ IdFacts /\ RowsInv /\ FreshInv
  BY HandlersCarry, Ids DEF IInv
<1>1. ASSUME NEW r \in Reqs, NEW f \in Uploads, UploadStartDone(r, f), UNCHANGED wk
       PROVE  HandlerInv'
  BY <1>0, <1>1 DEF UploadStartDone, tables, HandlerInv, OwnInv, Carries, IdFacts, File, At,
                    Exists, Loads, Stored, Flawed, UploadSteps, EnqueueSteps, PermaSteps
<1>2. ASSUME NEW r \in Reqs, NEW f \in Files, OtherStartDone(r, f), UNCHANGED wk
       PROVE  HandlerInv'
  BY <1>0, <1>2 DEF OtherStartDone, Exists, Loads, tables, HandlerInv, RowsInv, Carries,
                    IdFacts, File, At, Stored, Flawed, UploadSteps, EnqueueSteps, PermaSteps
<1>3. ASSUME NEW r \in Reqs, UploadInsertDone(r), UNCHANGED wk
       PROVE  HandlerInv'
  BY <1>0, <1>3 DEF UploadInsertDone, RowBecomes, Moves, Ends, Adds, At, File, HandlerInv,
                    OwnInv, Carries, IdFacts, Exists, Loads, Stored, Flawed, UploadSteps,
                    EnqueueSteps, PermaSteps
<1>4. ASSUME NEW r \in Reqs, UploadPutDone(r), UNCHANGED wk
       PROVE  HandlerInv'
  BY <1>0, <1>4 DEF UploadPutDone, Moves, At, File, HandlerInv, OwnInv, Carries, IdFacts,
                    Exists, Loads, Stored, Flawed, UploadSteps, EnqueueSteps, PermaSteps
<1>5. ASSUME NEW r \in Reqs, UploadPublishDone(r), UNCHANGED wk
       PROVE  HandlerInv'
  BY <1>0, <1>5 DEF UploadPublishDone, RowBecomes, Moves, Adds, Exists, At, File, HandlerInv,
                    OwnInv, Carries, IdFacts, Loads, Stored, Flawed, UploadSteps,
                    EnqueueSteps, PermaSteps
<1>6. ASSUME NEW r \in Reqs, RollbackBlobDone(r), UNCHANGED wk
       PROVE  HandlerInv'
  BY <1>0, <1>6 DEF RollbackBlobDone, Moves, Adds, At, File, HandlerInv, OwnInv, Carries,
                    IdFacts, Exists, Loads, Stored, Flawed, UploadSteps, EnqueueSteps,
                    PermaSteps
<1>7. ASSUME NEW r \in Reqs, RollbackRowDone(r), UNCHANGED wk
       PROVE  HandlerInv'
  BY <1>0, <1>7 DEF RollbackRowDone, Ends, Adds, Deletes, RowBecomes, JobBecomes, At, File,
                    HandlerInv, Carries, IdFacts, Exists, Loads, Stored, Flawed, UploadSteps,
                    EnqueueSteps, PermaSteps
<1>8. ASSUME NEW r \in Reqs, ReloadDone(r), UNCHANGED wk
       PROVE  HandlerInv'
  BY <1>0, <1>8 DEF ReloadDone, Moves, Ends, Adds, Loads, At, File, tables, HandlerInv, Carries,
                    IdFacts, Exists, Stored, Flawed, UploadSteps, EnqueueSteps, PermaSteps
<1>9. ASSUME NEW r \in Reqs, MediaExistsDone(r), UNCHANGED wk
       PROVE  HandlerInv'
  BY <1>0, <1>9 DEF MediaExistsDone, Moves, Ends, Adds, At, File, tables, HandlerInv, Carries,
                    IdFacts, Exists, Loads, Stored, Flawed, UploadSteps, EnqueueSteps,
                    PermaSteps
<1>10. ASSUME NEW r \in Reqs, EnqueueDone(r), UNCHANGED wk
       PROVE  HandlerInv'
  BY <1>0, <1>10 DEF EnqueueDone, JobBecomes, Ends, Adds, Exists, HasJob, At, File,
                     HandlerInv, Carries, IdFacts, Loads, Stored, Flawed, UploadSteps,
                     EnqueueSteps, PermaSteps
<1>11. ASSUME NEW r \in Reqs, PatchMetaDone(r), UNCHANGED wk
       PROVE  HandlerInv'
  BY <1>0, <1>11 DEF PatchMetaDone, Moves, Ends, At, tables, File, HandlerInv, Carries,
                     IdFacts, Exists, Loads, Stored, Flawed, UploadSteps, EnqueueSteps,
                     PermaSteps
<1>12. ASSUME NEW r \in Reqs, SoftSetDone(r), UNCHANGED wk
       PROVE  HandlerInv'
  BY <1>0, <1>12 DEF SoftSetDone, RowBecomes, Audits, Ends, Loads, At, File, HandlerInv,
                     Carries, IdFacts, Exists, Stored, Flawed, UploadSteps, EnqueueSteps,
                     PermaSteps
<1>13. ASSUME NEW r \in Reqs, PermaStorageDone(r), UNCHANGED wk
       PROVE  HandlerInv'
  BY <1>0, <1>13 DEF PermaStorageDone, Moves, Ends, Adds, At, File, tables, HandlerInv,
                     Carries, IdFacts, Exists, Loads, Stored, Flawed, UploadSteps,
                     EnqueueSteps, PermaSteps
<1>14. ASSUME NEW r \in Reqs, PermaBlobDone(r), UNCHANGED wk
       PROVE  HandlerInv'
  BY <1>0, <1>14 DEF PermaBlobDone, Moves, Adds, At, File, HandlerInv, Carries, IdFacts,
                     Exists, Loads, Stored, Flawed, UploadSteps, EnqueueSteps, PermaSteps
<1>15. ASSUME NEW r \in Reqs, PermaRowDone(r), UNCHANGED wk
       PROVE  HandlerInv'
  BY <1>0, <1>15 DEF PermaRowDone, Audits, Ends, Deletes, RowBecomes, JobBecomes, Loads, At,
                     File, HandlerInv, Carries, IdFacts, Exists, Stored, Flawed, UploadSteps,
                     EnqueueSteps, PermaSteps
<1>16. ASSUME NEW r \in Reqs, RequestCrashDone(r), UNCHANGED wk
       PROVE  HandlerInv'
  BY <1>0, <1>16 DEF RequestCrashDone, Ends, File, tables, HandlerInv, Carries, IdFacts, At,
                     Exists, Loads, Stored, Flawed, UploadSteps, EnqueueSteps, PermaSteps
<1>17. ASSUME DeleteStorageDone, UNCHANGED wk
       PROVE  HandlerInv'
  BY <1>0, <1>17 DEF DeleteStorageDone, HandlerInv, Carries, IdFacts, File, At, Exists, Loads,
                     Stored, Flawed, UploadSteps, EnqueueSteps, PermaSteps
<1>18. ASSUME NEW w \in Workers, ClaimNothingDone(w), UNCHANGED apiVars
       PROVE  HandlerInv'
  BY <1>0, <1>18 DEF ClaimNothingDone, JobBecomes, Adds, Loops, HandlerInv, Carries, IdFacts,
                     File, At, Exists, Loads, Stored, Flawed, UploadSteps, EnqueueSteps,
                     PermaSteps, apiVars
<1>19. ASSUME NEW w \in Workers, NEW d \in DerivedIds, DeriveDone(w, d), UNCHANGED apiVars
       PROVE  HandlerInv'
  BY <1>0, <1>19 DEF DeriveDone, JobFile, HandlerInv, Carries, IdFacts, File, At, Exists,
                     Loads, Stored, Flawed, UploadSteps, EnqueueSteps, PermaSteps, apiVars
<1>20. ASSUME NEW w \in Workers, CommitDone(w), UNCHANGED apiVars
       PROVE  HandlerInv'
  <2>1. Derive[JobFile(w)] \cap born = {}
    BY <1>0, <1>20 DEF FreshInv, CommitDone, NoJobSteps
  <2> QED
    BY <1>0, <1>20, <2>1 DEF CommitDone, Goes, JobFile, HandlerInv, RowsInv, Carries,
                             IdFacts, File, At, Exists, Loads, Stored, Flawed, UploadSteps,
                             EnqueueSteps, PermaSteps, apiVars
<1>21. ASSUME NEW w \in Workers, SettleDone(w), UNCHANGED apiVars
       PROVE  HandlerInv'
  BY <1>0, <1>21 DEF SettleDone, JobBecomes, Adds, Loops, HasJob, JobFile, HandlerInv,
                     Carries, IdFacts, File, At, Exists, Loads, Stored, Flawed, UploadSteps,
                     EnqueueSteps, PermaSteps, apiVars
<1>22. ASSUME NEW w \in Workers, WorkerCrashDone(w), UNCHANGED apiVars
       PROVE  HandlerInv'
  BY <1>0, <1>22 DEF WorkerCrashDone, JobFile, NoJobSteps, HandlerInv, Carries, IdFacts, File,
                     At, Exists, Loads, Stored, Flawed, UploadSteps, EnqueueSteps, PermaSteps,
                     apiVars
<1>23. ASSUME UNCHANGED <<rq, born, blob, file>>, flaw \subseteq flaw' PROVE HandlerInv'
  BY <1>0, <1>23 DEF HandlerInv, File, At, Exists, Loads, Stored, Flawed
<1>24. ASSUME NEW w \in Workers, UNCHANGED apiVars,
              \/ ClaimDone(w) \/ LookDone(w) \/ TxDone(w) \/ AbortDone(w)
       PROVE  HandlerInv'
  BY <1>23, <1>24 DEF ClaimDone, LookDone, Adds, TxDone, AbortDone, tables, Moves, apiVars
<1> QED
  BY <1>1, <1>2, <1>3, <1>4, <1>5, <1>6, <1>7, <1>8, <1>9, <1>10, <1>11, <1>12, <1>13, <1>14,
     <1>15, <1>16, <1>17, <1>18, <1>19, <1>20, <1>21, <1>22, <1>23, <1>24
  DEF NextDone, RequestDone, WorkerDone, tables, apiVars, IdlingDone

(* The promise of 201 survives every step. *)
LEMMA CreatedStep == IInv /\ NextDone => CreatedInv'
<1> SUFFICES ASSUME IInv, NextDone PROVE CreatedInv'
  OBVIOUS
<1>0. TypeInv /\ CreatedInv /\ Carries /\ IdFacts /\ OwnInv /\ HandlerInv
  BY HandlersCarry, Ids DEF IInv
<1>1. ASSUME NEW r \in Reqs, NEW f \in Uploads, UploadStartDone(r, f), UNCHANGED wk
       PROVE  CreatedInv'
  BY <1>0, <1>1 DEF UploadStartDone, tables, CreatedInv, Carries, IdFacts, File, At, Exists,
                    Loads, Stored, EnqueueSteps
<1>2. ASSUME NEW r \in Reqs, UploadInsertDone(r), UNCHANGED wk
       PROVE  CreatedInv'
  BY <1>0, <1>2 DEF UploadInsertDone, RowBecomes, Moves, Ends, Adds, At, File, CreatedInv,
                    OwnInv, Carries, IdFacts, Exists, Loads, Stored, EnqueueSteps
<1>3. ASSUME NEW r \in Reqs, UploadPutDone(r), UNCHANGED wk
       PROVE  CreatedInv'
  BY <1>0, <1>3 DEF UploadPutDone, Moves, At, File, CreatedInv, OwnInv, Carries, IdFacts,
                    Exists, Loads, Stored, EnqueueSteps
<1>4. ASSUME NEW r \in Reqs, UploadPublishDone(r), UNCHANGED wk
       PROVE  CreatedInv'
  BY <1>0, <1>4 DEF UploadPublishDone, RowBecomes, Moves, Adds, Exists, At, File, CreatedInv,
                    OwnInv, Carries, IdFacts, Loads, Stored, EnqueueSteps
<1>5. ASSUME NEW r \in Reqs, RollbackBlobDone(r), UNCHANGED wk
       PROVE  CreatedInv'
  BY <1>0, <1>5 DEF RollbackBlobDone, Moves, Adds, At, File, CreatedInv, OwnInv, Carries,
                    IdFacts, Exists, Loads, Stored, EnqueueSteps
<1>6. ASSUME NEW r \in Reqs, RollbackRowDone(r), UNCHANGED wk
       PROVE  CreatedInv'
  BY <1>0, <1>6 DEF RollbackRowDone, Ends, Adds, Deletes, RowBecomes, JobBecomes, At, File,
                    CreatedInv, Carries, IdFacts, Exists, Loads, Stored, EnqueueSteps
<1>7. ASSUME NEW r \in Reqs, ReloadDone(r), UNCHANGED wk
       PROVE  CreatedInv'
  BY <1>0, <1>7
  DEF ReloadDone, Moves, Ends, Adds, Loads, At, File, tables, CreatedInv, HandlerInv,
                    Carries, IdFacts, Exists, Stored, EnqueueSteps
<1>8. ASSUME NEW r \in Reqs, MediaExistsDone(r), UNCHANGED wk
       PROVE  CreatedInv'
  BY <1>0, <1>8 DEF MediaExistsDone, Moves, Ends, Adds, At, File, tables, CreatedInv,
                    HandlerInv, Carries, IdFacts, Exists, Loads, Stored, EnqueueSteps
<1>9. ASSUME NEW r \in Reqs, EnqueueDone(r), UNCHANGED wk
       PROVE  CreatedInv'
  <2>1. rq[r].op = "upload" => Stored(File(r)) /\ file[File(r)].status # "UPLOADING"
    BY <1>0, <1>9 DEF HandlerInv, EnqueueDone, At, EnqueueSteps
  <2> QED
    BY <1>0, <1>9, <2>1 DEF EnqueueDone, JobBecomes, Ends, Adds, Exists, HasJob, At, File,
                            CreatedInv, Carries, IdFacts, Loads, Stored, EnqueueSteps
<1>10. ASSUME NEW r \in Reqs, SoftSetDone(r), UNCHANGED wk
       PROVE  CreatedInv'
  BY <1>0, <1>10 DEF SoftSetDone, RowBecomes, Audits, Ends, Loads, At, File, CreatedInv,
                     Carries, IdFacts, Exists, Stored, EnqueueSteps
<1>11. ASSUME NEW r \in Reqs, PermaBlobDone(r), UNCHANGED wk
       PROVE  CreatedInv'
  <2>1. File(r) \in born /\ ~Loads(File(r), FALSE)
    BY <1>0, <1>11 DEF HandlerInv, PermaBlobDone, At, PermaSteps
  <2> QED
    BY <1>0, <1>11, <2>1 DEF PermaBlobDone, Moves, Adds, At, File, CreatedInv, Carries,
                             IdFacts, Exists, Loads, Stored, EnqueueSteps
<1>12. ASSUME NEW r \in Reqs, PermaRowDone(r), UNCHANGED wk
       PROVE  CreatedInv'
  BY <1>0, <1>12 DEF PermaRowDone, Audits, Ends, Deletes, RowBecomes, JobBecomes, Loads, At,
                     File, CreatedInv, Carries, IdFacts, Exists, Stored, EnqueueSteps
<1>13. ASSUME NEW r \in Reqs, RequestCrashDone(r), UNCHANGED wk
       PROVE  CreatedInv'
  BY <1>0, <1>13 DEF RequestCrashDone, Ends, File, tables, CreatedInv, Carries, IdFacts, At,
                     Exists, Loads, Stored, EnqueueSteps
<1>14. ASSUME DeleteStorageDone, UNCHANGED wk
       PROVE  CreatedInv'
  BY <1>0, <1>14 DEF DeleteStorageDone, CreatedInv, Carries, IdFacts, File, At, Exists, Loads,
                     Stored, EnqueueSteps
<1>15. ASSUME NEW w \in Workers, NEW d \in DerivedIds, DeriveDone(w, d), UNCHANGED apiVars
       PROVE  CreatedInv'
  BY <1>0, <1>15 DEF DeriveDone, JobFile, CreatedInv, Carries, IdFacts, File, At, Exists,
                     Loads, Stored, EnqueueSteps, apiVars
<1>16. ASSUME NEW w \in Workers, CommitDone(w), UNCHANGED apiVars
       PROVE  CreatedInv'
  BY <1>0, <1>16 DEF CommitDone, Goes, JobFile, CreatedInv, Carries, IdFacts, File, At,
                     Exists, Loads, Stored, EnqueueSteps, apiVars
<1>17. ASSUME UNCHANGED <<up, file, blob>> PROVE CreatedInv'
  BY <1>0, <1>17 DEF CreatedInv, File, At, Exists, Loads, Stored
<1>18. ASSUME NEW r \in Reqs, UNCHANGED wk,
              \/ PatchMetaDone(r) \/ PermaStorageDone(r)
       PROVE  CreatedInv'
  BY <1>17, <1>18 DEF PatchMetaDone, PermaStorageDone, tables, Moves, apiVars
<1>19. ASSUME NEW w \in Workers, UNCHANGED apiVars,
              \/ ClaimDone(w) \/ ClaimNothingDone(w) \/ LookDone(w)
              \/ TxDone(w) \/ AbortDone(w) \/ SettleDone(w)
              \/ WorkerCrashDone(w)
       PROVE  CreatedInv'
  BY <1>17, <1>19 DEF ClaimDone, ClaimNothingDone, LookDone, TxDone, AbortDone, SettleDone,
                      WorkerCrashDone, tables, Moves, apiVars
<1> QED
  BY <1>1, <1>2, <1>3, <1>4, <1>5, <1>6, <1>7, <1>8, <1>9, <1>10, <1>11, <1>12, <1>13, <1>14,
     <1>15, <1>16, <1>17, <1>18, <1>19
  DEF NextDone, RequestDone, WorkerDone, tables, apiVars, OtherStartDone, IdlingDone

(* Between publication and answer the job is queued. *)
LEMMA JobbedStep == IInv /\ NextDone => JobbedInv'
<1> SUFFICES ASSUME IInv, NextDone PROVE JobbedInv'
  OBVIOUS
<1>0. TypeInv /\ JobbedInv /\ Carries /\ IdFacts /\ OwnInv /\ HandlerInv /\ Statuses /\
      JobInv
  BY HandlersCarry, Ids, RowStatuses DEF IInv
<1>1. ASSUME NEW r \in Reqs, NEW f \in Uploads, UploadStartDone(r, f), UNCHANGED wk
       PROVE  JobbedInv'
  BY <1>0, <1>1 DEF UploadStartDone, tables, JobbedInv, Carries, IdFacts, File, At, Exists,
                    HasJob, Flawed, EnqueueSteps
<1>2. ASSUME NEW r \in Reqs, UploadInsertDone(r), UNCHANGED wk
       PROVE  JobbedInv'
  BY <1>0, <1>2 DEF UploadInsertDone, RowBecomes, Moves, Ends, Adds, At, File, JobbedInv,
                    OwnInv, Carries, IdFacts, Exists, HasJob, Flawed, EnqueueSteps
<1>3. ASSUME NEW r \in Reqs, UploadPublishDone(r), UNCHANGED wk
       PROVE  JobbedInv'
  BY <1>0, <1>3 DEF UploadPublishDone, RowBecomes, Moves, Adds, Exists, At, File, JobbedInv,
                    OwnInv, Carries, IdFacts, HasJob, Flawed, EnqueueSteps
<1>4. ASSUME NEW r \in Reqs, RollbackBlobDone(r), UNCHANGED wk
       PROVE  JobbedInv'
  BY <1>0, <1>4 DEF RollbackBlobDone, Moves, Adds, At, File, JobbedInv, Carries, IdFacts,
                    Exists, HasJob, Flawed, EnqueueSteps
<1>5. ASSUME NEW r \in Reqs, RollbackRowDone(r), UNCHANGED wk
       PROVE  JobbedInv'
  BY <1>0, <1>5 DEF RollbackRowDone, Ends, Adds, Deletes, RowBecomes, JobBecomes, At, File,
                    JobbedInv, Carries, IdFacts, Exists, HasJob, Flawed, EnqueueSteps
<1>6. ASSUME NEW r \in Reqs, ReloadDone(r), UNCHANGED wk
       PROVE  JobbedInv'
  <2>1. rq[r].op = "upload" => file[File(r)].status # "UPLOADING"
    BY <1>0, <1>6 DEF HandlerInv, ReloadDone, At, EnqueueSteps
  <2> QED
    BY <1>0, <1>6, <2>1 DEF ReloadDone, Moves, Ends, Adds, Loads, At, File, tables, JobbedInv,
                            Statuses, Carries, IdFacts, Exists, HasJob, Flawed, EnqueueSteps
<1>7. ASSUME NEW r \in Reqs, MediaExistsDone(r), UNCHANGED wk
       PROVE  JobbedInv'
  BY <1>0, <1>7 DEF MediaExistsDone, Moves, Ends, Adds, At, File, tables, JobbedInv, JobInv,
                    Carries, IdFacts, Exists, HasJob, Flawed, EnqueueSteps
<1>8. ASSUME NEW r \in Reqs, EnqueueDone(r), UNCHANGED wk
       PROVE  JobbedInv'
  BY <1>0, <1>8 DEF EnqueueDone, JobBecomes, Ends, Adds, Exists, HasJob, At, File, JobbedInv,
                    Carries, IdFacts, Flawed, EnqueueSteps
<1>9. ASSUME NEW r \in Reqs, SoftSetDone(r), UNCHANGED wk
       PROVE  JobbedInv'
  BY <1>0, <1>9 DEF SoftSetDone, RowBecomes, Audits, Ends, Loads, At, File, JobbedInv,
                    Carries, IdFacts, Exists, HasJob, Flawed, EnqueueSteps
<1>10. ASSUME NEW r \in Reqs, PermaStorageDone(r), UNCHANGED wk
       PROVE  JobbedInv'
  BY <1>0, <1>10 DEF PermaStorageDone, Moves, Ends, Adds, At, File, tables, JobbedInv,
                     Carries, IdFacts, Exists, HasJob, Flawed, EnqueueSteps
<1>11. ASSUME NEW r \in Reqs, PermaBlobDone(r), UNCHANGED wk
       PROVE  JobbedInv'
  BY <1>0, <1>11 DEF PermaBlobDone, Moves, Adds, At, File, JobbedInv, Carries, IdFacts,
                     Exists, HasJob, Flawed, EnqueueSteps
<1>12. ASSUME NEW r \in Reqs, PermaRowDone(r), UNCHANGED wk
       PROVE  JobbedInv'
  BY <1>0, <1>12 DEF PermaRowDone, Audits, Ends, Deletes, RowBecomes, JobBecomes, Loads, At,
                     File, JobbedInv, Carries, IdFacts, Exists, HasJob, Flawed, EnqueueSteps
<1>13. ASSUME NEW r \in Reqs, RequestCrashDone(r), UNCHANGED wk
       PROVE  JobbedInv'
  BY <1>0, <1>13 DEF RequestCrashDone, Ends, File, tables, JobbedInv, Carries, IdFacts, At,
                     Exists, HasJob, Flawed, EnqueueSteps
<1>14. ASSUME DeleteStorageDone, UNCHANGED wk
       PROVE  JobbedInv'
  BY <1>0, <1>14 DEF DeleteStorageDone, JobbedInv, Carries, IdFacts, File, At, Exists, HasJob,
                     Flawed, EnqueueSteps
<1>15. ASSUME NEW w \in Workers, ClaimDone(w), UNCHANGED apiVars
       PROVE  JobbedInv'
  BY <1>0, <1>15 DEF ClaimDone, JobBecomes, JobbedInv, Carries, IdFacts, File, At, Exists,
                     HasJob, Flawed, EnqueueSteps, apiVars
<1>16. ASSUME NEW w \in Workers, ClaimNothingDone(w), UNCHANGED apiVars
       PROVE  JobbedInv'
  BY <1>0, <1>16 DEF ClaimNothingDone, JobBecomes, Adds, Loops, JobbedInv, Carries, IdFacts,
                     File, At, Exists, HasJob, Flawed, EnqueueSteps, apiVars
<1>17. ASSUME NEW w \in Workers, CommitDone(w), UNCHANGED apiVars
       PROVE  JobbedInv'
  BY <1>0, <1>17 DEF CommitDone, Goes, JobFile, JobbedInv, Carries, IdFacts, File, At, Exists,
                     HasJob, Flawed, EnqueueSteps, apiVars
<1>18. ASSUME NEW w \in Workers, SettleDone(w), UNCHANGED apiVars
       PROVE  JobbedInv'
  BY <1>0, <1>18 DEF SettleDone, JobBecomes, Adds, Loops, HasJob, JobFile, JobbedInv, Carries,
                     IdFacts, File, At, Exists, Flawed, EnqueueSteps, apiVars
<1>19. ASSUME NEW w \in Workers, WorkerCrashDone(w), UNCHANGED apiVars
       PROVE  JobbedInv'
  BY <1>0, <1>19 DEF WorkerCrashDone, JobFile, NoJobSteps, JobbedInv, Carries, IdFacts, File,
                     At, Exists, HasJob, Flawed, EnqueueSteps, apiVars
<1>20. ASSUME UNCHANGED <<up, file, job>>, flaw \subseteq flaw' PROVE JobbedInv'
  BY <1>0, <1>20 DEF JobbedInv, File, At, Exists, HasJob, Flawed
<1>21. ASSUME NEW r \in Reqs, UNCHANGED wk,
              \/ UploadPutDone(r) \/ PatchMetaDone(r)
       PROVE  JobbedInv'
  BY <1>20, <1>21 DEF UploadPutDone, PatchMetaDone, tables, Moves, apiVars
<1>22. ASSUME NEW w \in Workers, UNCHANGED apiVars,
              \/ LookDone(w) \/ TxDone(w) \/ AbortDone(w)
       PROVE  JobbedInv'
  BY <1>20, <1>22 DEF LookDone, Adds, TxDone, AbortDone, tables, Moves, apiVars
<1> QED
  BY <1>1, <1>2, <1>3, <1>4, <1>5, <1>6, <1>7, <1>8, <1>9, <1>10, <1>11, <1>12, <1>13, <1>14,
     <1>15, <1>16, <1>17, <1>18, <1>19, <1>20, <1>21, <1>22
  DEF NextDone, RequestDone, WorkerDone, tables, apiVars, OtherStartDone, IdlingDone,
      DeriveDone

(* The rollback undoes the upload, as far as its calls succeed. *)
LEMMA FailedStep == IInv /\ NextDone => FailedInv'
<1> SUFFICES ASSUME IInv, NextDone PROVE FailedInv'
  OBVIOUS
<1>0. TypeInv /\ FailedInv /\ Carries /\ IdFacts /\ HandlerInv /\ OwnInv /\ RowsInv /\
      Statuses
  BY HandlersCarry, Ids, RowStatuses DEF IInv
<1>1. ASSUME NEW r \in Reqs, NEW f \in Uploads, UploadStartDone(r, f), UNCHANGED wk
       PROVE  FailedInv'
  BY <1>0, <1>1 DEF UploadStartDone, tables, FailedInv, Carries, IdFacts, File, At, Exists,
                    Flawed
<1>2. ASSUME NEW r \in Reqs, UploadInsertDone(r), UNCHANGED wk
       PROVE  FailedInv'
  <2>1. File(r) \notin born /\ File(r) \notin blob
    BY <1>0, <1>2 DEF HandlerInv, UploadInsertDone, At
  <2> QED
    BY <1>0, <1>2, <2>1 DEF UploadInsertDone, RowBecomes, Moves, Ends, Adds, At, File,
                            FailedInv, OwnInv, RowsInv, Carries, IdFacts, Exists, Flawed
<1>3. ASSUME NEW r \in Reqs, UploadPutDone(r), UNCHANGED wk
       PROVE  FailedInv'
  BY <1>0, <1>3 DEF UploadPutDone, Moves, At, File, FailedInv, OwnInv, Carries, IdFacts,
                    Exists, Flawed
<1>4. ASSUME NEW r \in Reqs, UploadPublishDone(r), UNCHANGED wk
       PROVE  FailedInv'
  BY <1>0, <1>4 DEF UploadPublishDone, RowBecomes, Moves, Adds, Exists, At, File, FailedInv,
                    OwnInv, Carries, IdFacts, Flawed
<1>5. ASSUME NEW r \in Reqs, RollbackBlobDone(r), UNCHANGED wk
       PROVE  FailedInv'
  BY <1>0, <1>5 DEF RollbackBlobDone, Moves, Adds, At, File, FailedInv, Carries, IdFacts,
                    Exists, Flawed
<1>6. ASSUME NEW r \in Reqs, RollbackRowDone(r), UNCHANGED wk
       PROVE  FailedInv'
  <2>1. /\ file[File(r)].status # "PUBLISHED" \/ Flawed(File(r), {"publishReply"})
        /\ File(r) \notin blob \/ Flawed(File(r), {"rbBlob"})
    BY <1>0, <1>6 DEF HandlerInv, RollbackRowDone, At
  <2> QED
    BY <1>0, <1>6, <2>1 DEF RollbackRowDone, Ends, Adds, Deletes, RowBecomes, JobBecomes,
                            At, File, FailedInv, Statuses, Carries, IdFacts, Exists, Flawed
<1>7. ASSUME NEW r \in Reqs, ReloadDone(r), UNCHANGED wk
       PROVE  FailedInv'
  BY <1>0, <1>7 DEF ReloadDone, Moves, Ends, Adds, Loads, At, File, tables, FailedInv, Carries,
                    IdFacts, Exists, Flawed
<1>8. ASSUME NEW r \in Reqs, MediaExistsDone(r), UNCHANGED wk
       PROVE  FailedInv'
  BY <1>0, <1>8 DEF MediaExistsDone, Moves, Ends, Adds, At, File, tables, FailedInv, Carries,
                    IdFacts, Exists, Flawed
<1>9. ASSUME NEW r \in Reqs, EnqueueDone(r), UNCHANGED wk
       PROVE  FailedInv'
  BY <1>0, <1>9 DEF EnqueueDone, JobBecomes, Ends, Adds, Exists, HasJob, At, File, FailedInv,
                    Carries, IdFacts, Flawed
<1>10. ASSUME NEW r \in Reqs, SoftSetDone(r), UNCHANGED wk
       PROVE  FailedInv'
  BY <1>0, <1>10 DEF SoftSetDone, RowBecomes, Audits, Ends, Loads, At, File, FailedInv,
                     Carries, IdFacts, Exists, Flawed
<1>11. ASSUME NEW r \in Reqs, PermaStorageDone(r), UNCHANGED wk
       PROVE  FailedInv'
  BY <1>0, <1>11 DEF PermaStorageDone, Moves, Ends, Adds, At, File, tables, FailedInv,
                     Carries, IdFacts, Exists, Flawed
<1>12. ASSUME NEW r \in Reqs, PermaBlobDone(r), UNCHANGED wk
       PROVE  FailedInv'
  BY <1>0, <1>12 DEF PermaBlobDone, Moves, Adds, At, File, FailedInv, Carries, IdFacts,
                     Exists, Flawed
<1>13. ASSUME NEW r \in Reqs, PermaRowDone(r), UNCHANGED wk
       PROVE  FailedInv'
  BY <1>0, <1>13 DEF PermaRowDone, Audits, Ends, Deletes, RowBecomes, JobBecomes, Loads, At,
                     File, FailedInv, Carries, IdFacts, Exists, Flawed
<1>14. ASSUME NEW r \in Reqs, RequestCrashDone(r), UNCHANGED wk
       PROVE  FailedInv'
  BY <1>0, <1>14 DEF RequestCrashDone, Ends, File, tables, FailedInv, Carries, IdFacts, At,
                     Exists, Flawed
<1>15. ASSUME DeleteStorageDone, UNCHANGED wk
       PROVE  FailedInv'
  BY <1>0, <1>15 DEF DeleteStorageDone, FailedInv, Carries, IdFacts, File, At, Exists, Flawed
<1>16. ASSUME NEW w \in Workers, ClaimNothingDone(w), UNCHANGED apiVars
       PROVE  FailedInv'
  BY <1>0, <1>16 DEF ClaimNothingDone, JobBecomes, Adds, Loops, FailedInv, Carries, IdFacts,
                     File, At, Exists, Flawed, apiVars
<1>17. ASSUME NEW w \in Workers, NEW d \in DerivedIds, DeriveDone(w, d), UNCHANGED apiVars
       PROVE  FailedInv'
  BY <1>0, <1>17 DEF DeriveDone, JobFile, FailedInv, Carries, IdFacts, File, At, Exists,
                     Flawed, apiVars
<1>18. ASSUME NEW w \in Workers, CommitDone(w), UNCHANGED apiVars
       PROVE  FailedInv'
  BY <1>0, <1>18 DEF CommitDone, Goes, JobFile, FailedInv, Carries, IdFacts, File, At, Exists,
                     Flawed, apiVars
<1>19. ASSUME NEW w \in Workers, SettleDone(w), UNCHANGED apiVars
       PROVE  FailedInv'
  BY <1>0, <1>19 DEF SettleDone, JobBecomes, Adds, Loops, HasJob, JobFile, FailedInv, Carries,
                     IdFacts, File, At, Exists, Flawed, apiVars
<1>20. ASSUME NEW w \in Workers, WorkerCrashDone(w), UNCHANGED apiVars
       PROVE  FailedInv'
  BY <1>0, <1>20 DEF WorkerCrashDone, JobFile, NoJobSteps, FailedInv, Carries, IdFacts, File,
                     At, Exists, Flawed, apiVars
<1>21. ASSUME UNCHANGED <<up, file, blob>>, flaw \subseteq flaw' PROVE FailedInv'
  BY <1>0, <1>21 DEF FailedInv, File, At, Exists, Flawed
<1>22. ASSUME NEW r \in Reqs, UNCHANGED wk,
              \/ PatchMetaDone(r)
       PROVE  FailedInv'
  BY <1>21, <1>22 DEF PatchMetaDone, tables, Moves, apiVars
<1>23. ASSUME NEW w \in Workers, UNCHANGED apiVars,
              \/ ClaimDone(w) \/ LookDone(w) \/ TxDone(w) \/ AbortDone(w)
       PROVE  FailedInv'
  BY <1>21, <1>23 DEF ClaimDone, LookDone, Adds, TxDone, AbortDone, tables, Moves, apiVars
<1> QED
  BY <1>1, <1>2, <1>3, <1>4, <1>5, <1>6, <1>7, <1>8, <1>9, <1>10, <1>11, <1>12, <1>13, <1>14,
     <1>15, <1>16, <1>17, <1>18, <1>19, <1>20, <1>21, <1>22, <1>23
  DEF NextDone, RequestDone, WorkerDone, tables, apiVars, OtherStartDone, IdlingDone

(* Objects go before rows. *)
LEMMA PurgeStep == IInv /\ NextDone => PurgeInv'
<1> SUFFICES ASSUME IInv, NextDone PROVE PurgeInv'
  OBVIOUS
<1>0. TypeInv /\ PurgeInv /\ OwnInv /\ Carries /\ IdFacts /\ HandlerInv
  BY HandlersCarry, Ids DEF IInv
<1>1. ASSUME NEW r \in Reqs, NEW f \in Uploads, UploadStartDone(r, f), UNCHANGED wk
       PROVE  PurgeInv'
  BY <1>0, <1>1 DEF UploadStartDone, tables, PurgeInv, OwnInv, Carries, IdFacts, File, At,
                    Exists, Loads, Landed, Flawed, PermaSteps, EnqueueSteps
<1>2. ASSUME NEW r \in Reqs, NEW f \in Files, OtherStartDone(r, f), UNCHANGED wk
       PROVE  PurgeInv'
  BY <1>0, <1>2 DEF OtherStartDone, Exists, Loads, tables, PurgeInv, Carries, IdFacts, File,
                    At, Landed, Flawed, PermaSteps, EnqueueSteps
<1>3. ASSUME NEW r \in Reqs, UploadInsertDone(r), UNCHANGED wk
       PROVE  PurgeInv'
  <2>1. File(r) \notin born /\ File(r) \notin blob
    BY <1>0, <1>3 DEF HandlerInv, UploadInsertDone, At
  <2> QED
    BY <1>0, <1>3, <2>1 DEF UploadInsertDone, RowBecomes, Moves, Ends, Adds, At, File,
                            PurgeInv, OwnInv, Carries, IdFacts, Exists, Loads, Landed,
                            Flawed, PermaSteps, EnqueueSteps
<1>4. ASSUME NEW r \in Reqs, UploadPutDone(r), UNCHANGED wk
       PROVE  PurgeInv'
  BY <1>0, <1>4 DEF UploadPutDone, Moves, At, File, PurgeInv, OwnInv, Carries, IdFacts,
                    Exists, Loads, Landed, Flawed, PermaSteps, EnqueueSteps
<1>5. ASSUME NEW r \in Reqs, UploadPublishDone(r), UNCHANGED wk
       PROVE  PurgeInv'
  BY <1>0, <1>5 DEF UploadPublishDone, RowBecomes, Moves, Adds, Exists, At, File, PurgeInv,
                    OwnInv, Carries, IdFacts, Loads, Landed, Flawed, PermaSteps, EnqueueSteps
<1>6. ASSUME NEW r \in Reqs, RollbackBlobDone(r), UNCHANGED wk
       PROVE  PurgeInv'
  BY <1>0, <1>6 DEF RollbackBlobDone, Moves, Adds, At, File, PurgeInv, OwnInv, Carries,
                    IdFacts, Exists, Loads, Landed, Flawed, PermaSteps, EnqueueSteps
<1>7. ASSUME NEW r \in Reqs, RollbackRowDone(r), UNCHANGED wk
       PROVE  PurgeInv'
  BY <1>0, <1>7 DEF RollbackRowDone, Ends, Adds, Deletes, RowBecomes, JobBecomes, At, File,
                    PurgeInv, OwnInv, Carries, IdFacts, Exists, Loads, Landed, Flawed,
                    PermaSteps, EnqueueSteps
<1>8. ASSUME NEW r \in Reqs, ReloadDone(r), UNCHANGED wk
       PROVE  PurgeInv'
  <2>1. \A q \in Reqs : At(q, "permaRow") => ~Loads(File(q), FALSE)
    BY <1>0, <1>8 DEF HandlerInv, At, PermaSteps
  <2> QED
    BY <1>0, <1>8, <2>1 DEF ReloadDone, Moves, Ends, Adds, Loads, At, File, tables, PurgeInv,
                            OwnInv, Carries, IdFacts, Exists, Landed, Flawed, PermaSteps,
                            EnqueueSteps
<1>9. ASSUME NEW r \in Reqs, MediaExistsDone(r), UNCHANGED wk
       PROVE  PurgeInv'
  BY <1>0, <1>9 DEF MediaExistsDone, Moves, Ends, Adds, At, File, tables, PurgeInv, Carries,
                    IdFacts, Exists, Loads, Landed, Flawed, PermaSteps, EnqueueSteps
<1>10. ASSUME NEW r \in Reqs, EnqueueDone(r), UNCHANGED wk
       PROVE  PurgeInv'
  BY <1>0, <1>10 DEF EnqueueDone, JobBecomes, Ends, Adds, Exists, HasJob, At, File, PurgeInv,
                     Carries, IdFacts, Loads, Landed, Flawed, PermaSteps, EnqueueSteps
<1>11. ASSUME NEW r \in Reqs, PatchMetaDone(r), UNCHANGED wk
       PROVE  PurgeInv'
  BY <1>0, <1>11 DEF PatchMetaDone, Moves, Ends, At, tables, File, PurgeInv, Carries, IdFacts,
                     Exists, Loads, Landed, Flawed, PermaSteps, EnqueueSteps
<1>12. ASSUME NEW r \in Reqs, SoftSetDone(r), UNCHANGED wk
       PROVE  PurgeInv'
  BY <1>0, <1>12 DEF SoftSetDone, RowBecomes, Audits, Ends, Loads, At, File, PurgeInv,
                     Carries, IdFacts, Exists, Landed, Flawed, PermaSteps, EnqueueSteps
<1>13. ASSUME NEW r \in Reqs, PermaStorageDone(r), UNCHANGED wk
       PROVE  PurgeInv'
  BY <1>0, <1>13 DEF PermaStorageDone, Moves, Ends, Adds, At, File, tables, PurgeInv,
                     HandlerInv, Carries, IdFacts, Exists, Loads, Landed, Flawed, PermaSteps,
                     EnqueueSteps
<1>14. ASSUME NEW r \in Reqs, PermaBlobDone(r), UNCHANGED wk
       PROVE  PurgeInv'
  BY <1>0, <1>14 DEF PermaBlobDone, Moves, Adds, At, File, PurgeInv, Carries, IdFacts, Exists,
                     Loads, Landed, Flawed, PermaSteps, EnqueueSteps
<1>15. ASSUME NEW r \in Reqs, PermaRowDone(r), UNCHANGED wk
       PROVE  PurgeInv'
  BY <1>0, <1>15 DEF PermaRowDone, Audits, Ends, Deletes, RowBecomes, JobBecomes, Loads, At,
                     File, PurgeInv, Carries, IdFacts, Exists, Landed, Flawed, PermaSteps,
                     EnqueueSteps
<1>16. ASSUME NEW r \in Reqs, RequestCrashDone(r), UNCHANGED wk
       PROVE  PurgeInv'
  BY <1>0, <1>16 DEF RequestCrashDone, Ends, File, tables, PurgeInv, Carries, IdFacts, At,
                     Exists, Loads, Landed, Flawed, PermaSteps, EnqueueSteps
<1>17. ASSUME DeleteStorageDone, UNCHANGED wk
       PROVE  PurgeInv'
  BY <1>0, <1>17 DEF DeleteStorageDone, PurgeInv, Carries, IdFacts, File, At, Exists, Loads,
                     Landed, Flawed, PermaSteps, EnqueueSteps
<1>18. ASSUME NEW w \in Workers, ClaimNothingDone(w), UNCHANGED apiVars
       PROVE  PurgeInv'
  BY <1>0, <1>18 DEF ClaimNothingDone, JobBecomes, Adds, Loops, PurgeInv, Carries, IdFacts,
                     File, At, Exists, Loads, Landed, Flawed, PermaSteps, EnqueueSteps,
                     apiVars
<1>19. ASSUME NEW w \in Workers, NEW d \in DerivedIds, DeriveDone(w, d), UNCHANGED apiVars
       PROVE  PurgeInv'
  BY <1>0, <1>19 DEF DeriveDone, JobFile, PurgeInv, Carries, IdFacts, File, At, Exists, Loads,
                     Landed, Flawed, PermaSteps, EnqueueSteps, apiVars
<1>20. ASSUME NEW w \in Workers, CommitDone(w), UNCHANGED apiVars
       PROVE  PurgeInv'
  BY <1>0, <1>20 DEF CommitDone, Goes, JobFile, PurgeInv, Carries, IdFacts, File, At, Exists,
                     Loads, Landed, Flawed, PermaSteps, EnqueueSteps, apiVars
<1>21. ASSUME NEW w \in Workers, SettleDone(w), UNCHANGED apiVars
       PROVE  PurgeInv'
  BY <1>0, <1>21 DEF SettleDone, JobBecomes, Adds, Loops, HasJob, JobFile, PurgeInv, Carries,
                     IdFacts, File, At, Exists, Loads, Landed, Flawed, PermaSteps,
                     EnqueueSteps, apiVars
<1>22. ASSUME NEW w \in Workers, WorkerCrashDone(w), UNCHANGED apiVars
       PROVE  PurgeInv'
  BY <1>0, <1>22 DEF WorkerCrashDone, JobFile, NoJobSteps, PurgeInv, Carries, IdFacts, File,
                     At, Exists, Loads, Landed, Flawed, PermaSteps, EnqueueSteps, apiVars
<1>23. ASSUME UNCHANGED <<up, rq, storage, file, blob>>, flaw \subseteq flaw' PROVE PurgeInv'
  BY <1>0, <1>23 DEF PurgeInv, File, At, Exists, Loads, Landed, Flawed
<1>24. ASSUME NEW w \in Workers, UNCHANGED apiVars,
              \/ ClaimDone(w) \/ LookDone(w) \/ TxDone(w) \/ AbortDone(w)
       PROVE  PurgeInv'
  BY <1>23, <1>24 DEF ClaimDone, LookDone, Adds, TxDone, AbortDone, tables, Moves, apiVars
<1> QED
  BY <1>1, <1>2, <1>3, <1>4, <1>5, <1>6, <1>7, <1>8, <1>9, <1>10, <1>11, <1>12, <1>13, <1>14,
     <1>15, <1>16, <1>17, <1>18, <1>19, <1>20, <1>21, <1>22, <1>23, <1>24
  DEF NextDone, RequestDone, WorkerDone, tables, apiVars, IdlingDone

(* One audit line per deletion. *)
LEMMA AuditStep == IInv /\ NextDone => AuditInv'
<1> SUFFICES ASSUME IInv, NextDone PROVE AuditInv'
  OBVIOUS
<1>0. TypeInv /\ HandlerInv /\ AuditInv /\ IdFacts /\ RowsInv /\ Counts /\ FreshInv
  BY Ids, AuditCounts DEF IInv
<1>1. ASSUME NEW r \in Reqs, UploadInsertDone(r), UNCHANGED wk
       PROVE  AuditInv'
  <2>1. File(r) \notin born /\ File(r) \notin blob
    BY <1>0, <1>1 DEF HandlerInv, UploadInsertDone, At
  <2> QED
    BY <1>0, <1>1, <2>1 DEF UploadInsertDone, RowBecomes, Moves, Ends, Adds, At, File,
                            AuditInv, IdFacts, Exists, Loads
<1>2. ASSUME NEW r \in Reqs, UploadPublishDone(r), UNCHANGED wk
       PROVE  AuditInv'
  BY <1>0, <1>2 DEF UploadPublishDone, RowBecomes, Moves, Adds, Exists, At, File, AuditInv,
                    IdFacts, Loads
<1>3. ASSUME NEW r \in Reqs, RollbackRowDone(r), UNCHANGED wk
       PROVE  AuditInv'
  BY <1>0, <1>3 DEF RollbackRowDone, Ends, Adds, Deletes, RowBecomes, JobBecomes, At, File,
                    AuditInv, IdFacts, Exists, Loads
<1>4. ASSUME NEW r \in Reqs, SoftSetDone(r), UNCHANGED wk
       PROVE  AuditInv'
  BY <1>0, <1>4 DEF SoftSetDone, RowBecomes, Audits, Ends, Loads, At, File, AuditInv, RowsInv,
                    Counts, IdFacts, Exists
<1>5. ASSUME NEW r \in Reqs, PermaRowDone(r), UNCHANGED wk
       PROVE  AuditInv'
  BY <1>0, <1>5 DEF PermaRowDone, Audits, Ends, Deletes, RowBecomes, JobBecomes, Loads, At,
                    File, AuditInv, RowsInv, Counts, IdFacts, Exists
<1>6. ASSUME DeleteStorageDone, UNCHANGED wk
       PROVE  AuditInv'
  BY <1>0, <1>6 DEF DeleteStorageDone, AuditInv, IdFacts, Exists, Loads
<1>7. ASSUME NEW w \in Workers, CommitDone(w), UNCHANGED apiVars
       PROVE  AuditInv'
  <2>1. Derive[JobFile(w)] \cap born = {}
    BY <1>0, <1>7 DEF FreshInv, CommitDone, NoJobSteps
  <2> QED
    BY <1>0, <1>7, <2>1 DEF CommitDone, Goes, JobFile, AuditInv, IdFacts, Exists, Loads,
                            apiVars
<1>8. ASSUME UNCHANGED <<audit, born, file>> PROVE AuditInv'
  BY <1>0, <1>8 DEF AuditInv, Exists, Loads
<1>9. ASSUME NEW r \in Reqs, UNCHANGED wk,
              \/ UploadPutDone(r) \/ RollbackBlobDone(r) \/ ReloadDone(r)
              \/ MediaExistsDone(r) \/ EnqueueDone(r) \/ PatchMetaDone(r)
              \/ PermaStorageDone(r) \/ PermaBlobDone(r)
              \/ RequestCrashDone(r)
       PROVE  AuditInv'
  BY <1>8, <1>9 DEF UploadPutDone, RollbackBlobDone, ReloadDone, MediaExistsDone, EnqueueDone,
                    PatchMetaDone, PermaStorageDone, PermaBlobDone, RequestCrashDone, tables,
                    Moves, apiVars
<1>10. ASSUME NEW w \in Workers, UNCHANGED apiVars,
              \/ ClaimDone(w) \/ ClaimNothingDone(w) \/ LookDone(w)
              \/ TxDone(w) \/ AbortDone(w) \/ SettleDone(w)
              \/ WorkerCrashDone(w)
       PROVE  AuditInv'
  BY <1>8, <1>10 DEF ClaimDone, ClaimNothingDone, LookDone, TxDone, AbortDone, SettleDone,
                     WorkerCrashDone, tables, Moves, apiVars
<1> QED
  BY <1>1, <1>2, <1>3, <1>4, <1>5, <1>6, <1>7, <1>8, <1>9, <1>10
  DEF NextDone, RequestDone, WorkerDone, tables, apiVars, UploadStartDone, OtherStartDone,
      IdlingDone, DeriveDone

\* No step of the service forgets a failure.
LEMMA UntypedGrows == NextDone => Untyped \subseteq Untyped'
<1>1. NextDone => flaw \subseteq flaw'
  BY DEF NextDone, RequestDone, WorkerDone, UploadStartDone, OtherStartDone, DeleteStorageDone,
         IdlingDone, DeriveDone, UploadInsertDone, UploadPutDone, UploadPublishDone,
         RollbackBlobDone, RollbackRowDone, ReloadDone, MediaExistsDone, EnqueueDone,
         PatchMetaDone, SoftSetDone, PermaStorageDone, PermaBlobDone, PermaRowDone,
         RequestCrashDone, ClaimDone, ClaimNothingDone, LookDone, TxDone, AbortDone,
         CommitDone, SettleDone, WorkerCrashDone, Adds
<1> QED
  BY <1>1 DEF Untyped

(* Attempts count claims; done means media, or a file read without its type. *)
LEMMA JobStep == IInv /\ NextDone => JobInv'
<1> SUFFICES ASSUME IInv, NextDone PROVE JobInv'
  OBVIOUS
<1>0. TypeInv /\ JobInv /\ RowsInv /\ IdFacts /\ HeldInv /\ WorkersCarry /\ Untyped \subseteq Untyped'
  BY Ids, WorkersDo, UntypedGrows DEF IInv
<1>1. ASSUME NEW r \in Reqs, UploadInsertDone(r), UNCHANGED wk
       PROVE  JobInv'
  BY <1>0, <1>1 DEF UploadInsertDone, RowBecomes, Moves, Ends, Adds, At, File, JobInv,
                    RowsInv, IdFacts, Exists, HasJob, JobFile, Is, InTx, NoJobSteps
<1>2. ASSUME NEW r \in Reqs, UploadPublishDone(r), UNCHANGED wk
       PROVE  JobInv'
  BY <1>0, <1>2 DEF UploadPublishDone, RowBecomes, Moves, Adds, Exists, At, File, JobInv,
                    IdFacts, HasJob, JobFile, Is, InTx, NoJobSteps
<1>3. ASSUME NEW r \in Reqs, RollbackRowDone(r), UNCHANGED wk
       PROVE  JobInv'
  BY <1>0, <1>3 DEF RollbackRowDone, Ends, Adds, Deletes, RowBecomes, JobBecomes, At, File,
                    JobInv, IdFacts, Exists, HasJob, JobFile, Is, InTx, NoJobSteps
<1>4. ASSUME NEW r \in Reqs, EnqueueDone(r), UNCHANGED wk
       PROVE  JobInv'
  BY <1>0, <1>4 DEF EnqueueDone, JobBecomes, Ends, Adds, Exists, HasJob, At, File, JobInv,
                    RowsInv, IdFacts, JobFile, Is, InTx, NoJobSteps
<1>5. ASSUME NEW r \in Reqs, SoftSetDone(r), UNCHANGED wk
       PROVE  JobInv'
  BY <1>0, <1>5 DEF SoftSetDone, RowBecomes, Audits, Ends, Loads, At, File, JobInv, IdFacts,
                    Exists, HasJob, JobFile, Is, InTx, NoJobSteps
<1>6. ASSUME NEW r \in Reqs, PermaRowDone(r), UNCHANGED wk
       PROVE  JobInv'
  BY <1>0, <1>6 DEF PermaRowDone, Audits, Ends, Deletes, RowBecomes, JobBecomes, Loads, At,
                    File, JobInv, IdFacts, Exists, HasJob, JobFile, Is, InTx, NoJobSteps
<1>7. ASSUME DeleteStorageDone, UNCHANGED wk
       PROVE  JobInv'
  BY <1>0, <1>7 DEF DeleteStorageDone, JobInv, IdFacts, Exists, HasJob, JobFile, Is, InTx,
                    NoJobSteps
<1>8. ASSUME NEW w \in Workers, ClaimDone(w), UNCHANGED apiVars
       PROVE  JobInv'
  BY <1>0, <1>8 DEF ClaimDone, JobBecomes, JobInv, IdFacts, Exists, HasJob, JobFile, Is, InTx,
                    NoJobSteps, apiVars
<1>9. ASSUME NEW w \in Workers, ClaimNothingDone(w), UNCHANGED apiVars
       PROVE  JobInv'
  BY <1>0, <1>9 DEF ClaimNothingDone, JobBecomes, Adds, Loops, JobInv, IdFacts, Exists,
                    HasJob, JobFile, Is, InTx, NoJobSteps, apiVars
<1>10. ASSUME NEW w \in Workers, CommitDone(w), UNCHANGED apiVars
       PROVE  JobInv'
  BY <1>0, <1>10 DEF CommitDone, Goes, JobFile, JobInv, HeldInv, IdFacts, Exists, HasJob, Is,
                     InTx, NoJobSteps, apiVars
<1>11. ASSUME NEW w \in Workers, SettleDone(w), UNCHANGED apiVars
       PROVE  JobInv'
  BY <1>0, <1>11 DEF SettleDone, JobBecomes, Adds, Loops, HasJob, JobFile, JobInv, HeldInv,
                     RowsInv, WorkersCarry, IdFacts, Exists, Is, InTx, NoJobSteps, apiVars
<1>12. ASSUME UNCHANGED <<job, media, born, file>> PROVE JobInv'
  BY <1>0, <1>12 DEF JobInv, Exists, HasJob, JobFile, Is, InTx
<1>13. ASSUME NEW r \in Reqs, UNCHANGED wk,
              \/ UploadPutDone(r) \/ RollbackBlobDone(r) \/ ReloadDone(r)
              \/ MediaExistsDone(r) \/ PatchMetaDone(r) \/ PermaStorageDone(r)
              \/ PermaBlobDone(r) \/ RequestCrashDone(r)
       PROVE  JobInv'
  BY <1>12, <1>13 DEF UploadPutDone, RollbackBlobDone, ReloadDone, MediaExistsDone,
                      PatchMetaDone, PermaStorageDone, PermaBlobDone, RequestCrashDone,
                      tables, Moves, apiVars
<1>14. ASSUME NEW w \in Workers, UNCHANGED apiVars,
              \/ LookDone(w) \/ TxDone(w) \/ AbortDone(w)
              \/ WorkerCrashDone(w)
       PROVE  JobInv'
  BY <1>12, <1>14 DEF LookDone, TxDone, AbortDone, WorkerCrashDone, tables, Moves, apiVars
<1> QED
  BY <1>1, <1>2, <1>3, <1>4, <1>5, <1>6, <1>7, <1>8, <1>9, <1>10, <1>11, <1>12, <1>13, <1>14
  DEF NextDone, RequestDone, WorkerDone, tables, apiVars, UploadStartDone, OtherStartDone,
      IdlingDone, DeriveDone

(* ClaimMediaJob hands out no job twice. *)
LEMMA ApartStep == IInv /\ NextDone => ApartInv'
<1> SUFFICES ASSUME IInv, NextDone PROVE ApartInv'
  OBVIOUS
<1>0. TypeInv /\ ApartInv /\ IdFacts /\ HeldInv /\ RowsInv /\ WorkersCarry
  BY Ids, WorkersDo DEF IInv
<1>1. ASSUME IdlingDone, UNCHANGED apiVars
       PROVE  ApartInv'
  BY <1>0, <1>1 DEF IdlingDone, tables, NoJobSteps, ApartInv, IdFacts, JobFile, Exists,
                    HasJob, apiVars
<1>2. ASSUME NEW w \in Workers, ClaimDone(w), UNCHANGED apiVars
       PROVE  ApartInv'
  BY <1>0, <1>2 DEF ClaimDone, JobBecomes, ApartInv, HeldInv, RowsInv, WorkersCarry, IdFacts,
                    JobFile, Exists, HasJob, NoJobSteps, apiVars
<1>3. ASSUME NEW w \in Workers, ClaimNothingDone(w), UNCHANGED apiVars
       PROVE  ApartInv'
  BY <1>0, <1>3 DEF ClaimNothingDone, JobBecomes, Adds, Loops, ApartInv, IdFacts, JobFile,
                    Exists, HasJob, NoJobSteps, apiVars
<1>4. ASSUME NEW w \in Workers, LookDone(w), UNCHANGED apiVars
       PROVE  ApartInv'
  BY <1>0, <1>4
  DEF LookDone, Goes, Adds, JobFile, tables, NoJobSteps, ApartInv, IdFacts, Exists,
                    HasJob, apiVars
<1>5. ASSUME NEW w \in Workers, TxDone(w), UNCHANGED apiVars
       PROVE  ApartInv'
  BY <1>0, <1>5 DEF TxDone, Goes, Exists, JobFile, ApartInv, IdFacts, HasJob, NoJobSteps,
                    apiVars
<1>6. ASSUME NEW w \in Workers, NEW d \in DerivedIds, DeriveDone(w, d), UNCHANGED apiVars
       PROVE  ApartInv'
  BY <1>0, <1>6 DEF DeriveDone, JobFile, ApartInv, IdFacts, Exists, HasJob, NoJobSteps,
                    apiVars
<1>7. ASSUME NEW w \in Workers, AbortDone(w), UNCHANGED apiVars
       PROVE  ApartInv'
  BY <1>0, <1>7 DEF AbortDone, JobFile, InTx, ApartInv, IdFacts, Exists, HasJob, NoJobSteps,
                    apiVars
<1>8. ASSUME NEW w \in Workers, CommitDone(w), UNCHANGED apiVars
       PROVE  ApartInv'
  BY <1>0, <1>8 DEF CommitDone, Goes, JobFile, ApartInv, IdFacts, Exists, HasJob, NoJobSteps,
                    apiVars
<1>9. ASSUME NEW w \in Workers, SettleDone(w), UNCHANGED apiVars
       PROVE  ApartInv'
  BY <1>0, <1>9 DEF SettleDone, JobBecomes, Adds, Loops, HasJob, JobFile, ApartInv, IdFacts,
                    Exists, NoJobSteps, apiVars
<1>10. ASSUME NEW w \in Workers, WorkerCrashDone(w), UNCHANGED apiVars
       PROVE  ApartInv'
  BY <1>0, <1>10 DEF WorkerCrashDone, JobFile, NoJobSteps, ApartInv, IdFacts, Exists, HasJob,
                     apiVars
<1>11. ASSUME UNCHANGED <<wk>> PROVE ApartInv'
  BY <1>0, <1>11 DEF ApartInv, JobFile, Exists, HasJob
<1>12. ASSUME NEW r \in Reqs, UNCHANGED wk,
              \/ UploadInsertDone(r) \/ UploadPutDone(r)
              \/ UploadPublishDone(r) \/ RollbackBlobDone(r)
              \/ RollbackRowDone(r) \/ ReloadDone(r) \/ MediaExistsDone(r)
              \/ EnqueueDone(r) \/ PatchMetaDone(r) \/ SoftSetDone(r)
              \/ PermaStorageDone(r) \/ PermaBlobDone(r) \/ PermaRowDone(r)
              \/ RequestCrashDone(r)
       PROVE  ApartInv'
  BY <1>11, <1>12 DEF UploadInsertDone, UploadPutDone, UploadPublishDone, RollbackBlobDone,
                      RollbackRowDone, ReloadDone, MediaExistsDone, EnqueueDone,
                      PatchMetaDone, SoftSetDone, PermaStorageDone, PermaBlobDone,
                      PermaRowDone, RequestCrashDone, tables, Moves, apiVars
<1> QED
  BY <1>1, <1>2, <1>3, <1>4, <1>5, <1>6, <1>7, <1>8, <1>9, <1>10, <1>11, <1>12
  DEF NextDone, RequestDone, WorkerDone, tables, apiVars, UploadStartDone, OtherStartDone,
      DeleteStorageDone

(* What a worker knows of its job stays true while its file is deleted. *)
LEMMA HeldStep == IInv /\ NextDone => HeldInv'
<1> SUFFICES ASSUME IInv, NextDone PROVE HeldInv'
  OBVIOUS
<1>0. TypeInv /\ HandlerInv /\ HeldInv /\ IdFacts /\ WorkersCarry /\ RowsInv /\ ApartInv /\
      FreshInv /\ Untyped \subseteq Untyped'
  BY Ids, WorkersDo, UntypedGrows DEF IInv
<1>1. ASSUME NEW r \in Reqs, UploadInsertDone(r), UNCHANGED wk
       PROVE  HeldInv'
  <2>1. File(r) \notin born /\ File(r) \notin blob
    BY <1>0, <1>1 DEF HandlerInv, UploadInsertDone, At
  <2> QED
    BY <1>0, <1>1, <2>1 DEF UploadInsertDone, RowBecomes, Moves, Ends, Adds, At, File,
                            HeldInv, IdFacts, WorkersCarry, Exists, HasJob, JobFile, Is,
                            InTx, NoJobSteps
<1>2. ASSUME NEW r \in Reqs, UploadPublishDone(r), UNCHANGED wk
       PROVE  HeldInv'
  BY <1>0, <1>2 DEF UploadPublishDone, RowBecomes, Moves, Adds, Exists, At, File, HeldInv,
                    IdFacts, WorkersCarry, HasJob, JobFile, Is, InTx, NoJobSteps
<1>3. ASSUME NEW r \in Reqs, RollbackRowDone(r), UNCHANGED wk
       PROVE  HeldInv'
  BY <1>0, <1>3 DEF RollbackRowDone, Ends, Adds, Deletes, RowBecomes, JobBecomes, At, File,
                    HeldInv, IdFacts, WorkersCarry, Exists, HasJob, JobFile, Is, InTx,
                    NoJobSteps
<1>4. ASSUME NEW r \in Reqs, EnqueueDone(r), UNCHANGED wk
       PROVE  HeldInv'
  BY <1>0, <1>4 DEF EnqueueDone, JobBecomes, Ends, Adds, Exists, HasJob, At, File, HeldInv,
                    RowsInv, IdFacts, WorkersCarry, JobFile, Is, InTx, NoJobSteps
<1>5. ASSUME NEW r \in Reqs, SoftSetDone(r), UNCHANGED wk
       PROVE  HeldInv'
  BY <1>0, <1>5 DEF SoftSetDone, RowBecomes, Audits, Ends, Loads, At, File, HeldInv, IdFacts,
                    WorkersCarry, Exists, HasJob, JobFile, Is, InTx, NoJobSteps
<1>6. ASSUME NEW r \in Reqs, PermaRowDone(r), UNCHANGED wk
       PROVE  HeldInv'
  BY <1>0, <1>6 DEF PermaRowDone, Audits, Ends, Deletes, RowBecomes, JobBecomes, Loads, At,
                    File, HeldInv, IdFacts, WorkersCarry, Exists, HasJob, JobFile, Is, InTx,
                    NoJobSteps
<1>7. ASSUME DeleteStorageDone, UNCHANGED wk
       PROVE  HeldInv'
  BY <1>0, <1>7 DEF DeleteStorageDone, HeldInv, IdFacts, WorkersCarry, Exists, HasJob,
                    JobFile, Is, InTx, NoJobSteps
<1>8. ASSUME IdlingDone, UNCHANGED apiVars
       PROVE  HeldInv'
  BY <1>0, <1>8 DEF IdlingDone, tables, NoJobSteps, HeldInv, IdFacts, WorkersCarry, Exists,
                    HasJob, JobFile, Is, InTx, apiVars
<1>9. ASSUME NEW w \in Workers, ClaimDone(w), UNCHANGED apiVars
       PROVE  HeldInv'
  BY <1>0, <1>9 DEF ClaimDone, JobBecomes, HeldInv, RowsInv, ApartInv, IdFacts, WorkersCarry,
                    Exists, HasJob, JobFile, Is, InTx, NoJobSteps, apiVars
<1>10. ASSUME NEW w \in Workers, ClaimNothingDone(w), UNCHANGED apiVars
       PROVE  HeldInv'
  BY <1>0, <1>10 DEF ClaimNothingDone, JobBecomes, Adds, Loops, HeldInv, IdFacts,
                     WorkersCarry, Exists, HasJob, JobFile, Is, InTx, NoJobSteps, apiVars
<1>11. ASSUME NEW w \in Workers, LookDone(w), UNCHANGED apiVars
       PROVE  HeldInv'
  <2>1. /\ UNCHANGED <<tables, job, born, file, media, locked>>
        /\ JobFile(w) \in Files /\ wk[w].pc \notin NoJobSteps
        /\ wk[w].pc \notin {"complete", "fail", "commit"}
    BY <1>11 DEF LookDone, tables
  <2>2. CASE \E s \in {"load", "storage", "open", "tx", "fail"} :
               Goes(w, s) /\ wk[w].pc # "derive"
    BY <1>0, <2>1, <2>2 DEF Goes, JobFile, NoJobSteps, HeldInv, Exists, Is, InTx
  <2>3. CASE Goes(w, "complete") /\ (JobFile(w) \in media \cup Untyped' \/ ~Exists(JobFile(w)))
    BY <1>0, <2>1, <2>3 DEF Goes, JobFile, NoJobSteps, HeldInv, Exists, Is, InTx
  <2>4. CASE Goes(w, "commit") /\ wk[w].pc = "derive"
    BY <1>0, <2>1, <2>4 DEF Goes, JobFile, NoJobSteps, HeldInv, Exists, Is, InTx
  <2>5. job[JobFile(w)].status = "processing" \/ ~Exists(JobFile(w))
    BY <1>0, <2>1 DEF HeldInv
  <2>6. Exists(JobFile(w)) => file[JobFile(w)].status = "PUBLISHED" /\ Kind[JobFile(w)] # "NONE"
    BY <1>0, <2>1, <2>5 DEF RowsInv, HasJob
  <2>7. Adds(JobFile(w), "untyped") => JobFile(w) \in Untyped'
    BY <2>1 DEF Adds, Untyped
  <2> QED
    BY <1>11, <2>2, <2>3, <2>4, <2>6, <2>7 DEF LookDone
<1>12. ASSUME NEW w \in Workers, TxDone(w), UNCHANGED apiVars
       PROVE  HeldInv'
  BY <1>0, <1>12 DEF TxDone, Goes, Exists, JobFile, HeldInv, IdFacts, WorkersCarry, HasJob,
                     Is, InTx, NoJobSteps, apiVars
<1>13. ASSUME NEW w \in Workers, NEW d \in DerivedIds, DeriveDone(w, d), UNCHANGED apiVars
       PROVE  HeldInv'
  BY <1>0, <1>13 DEF DeriveDone, JobFile, HeldInv, IdFacts, WorkersCarry, Exists, HasJob, Is,
                     InTx, NoJobSteps, apiVars
<1>14. ASSUME NEW w \in Workers, AbortDone(w), UNCHANGED apiVars
       PROVE  HeldInv'
  BY <1>0, <1>14 DEF AbortDone, JobFile, InTx, HeldInv, ApartInv, WorkersCarry, IdFacts,
                     Exists, HasJob, Is, NoJobSteps, apiVars
<1>15. ASSUME NEW w \in Workers, CommitDone(w), UNCHANGED apiVars
       PROVE  HeldInv'
  BY <1>0, <1>15 DEF CommitDone, Goes, JobFile, HeldInv, ApartInv, FreshInv, WorkersCarry,
                     RowsInv, IdFacts, Exists, HasJob, Is, InTx, NoJobSteps, apiVars
<1>16. ASSUME NEW w \in Workers, SettleDone(w), UNCHANGED apiVars
       PROVE  HeldInv'
  BY <1>0, <1>16 DEF SettleDone, JobBecomes, Adds, Loops, HasJob, JobFile, HeldInv, ApartInv,
                     WorkersCarry, IdFacts, Exists, Is, InTx, NoJobSteps, apiVars
<1>17. ASSUME NEW w \in Workers, WorkerCrashDone(w), UNCHANGED apiVars
       PROVE  HeldInv'
  BY <1>0, <1>17 DEF WorkerCrashDone, JobFile, NoJobSteps, HeldInv, ApartInv, WorkersCarry,
                     IdFacts, Exists, HasJob, Is, InTx, apiVars
<1>18. ASSUME UNCHANGED <<born, job, file, media, locked, wk>> PROVE HeldInv'
  BY <1>0, <1>18 DEF HeldInv, Exists, HasJob, JobFile, Is, InTx
<1>19. ASSUME NEW r \in Reqs, UNCHANGED wk,
              \/ UploadPutDone(r) \/ RollbackBlobDone(r) \/ ReloadDone(r)
              \/ MediaExistsDone(r) \/ PatchMetaDone(r) \/ PermaStorageDone(r)
              \/ PermaBlobDone(r) \/ RequestCrashDone(r)
       PROVE  HeldInv'
  BY <1>18, <1>19 DEF UploadPutDone, RollbackBlobDone, ReloadDone, MediaExistsDone,
                      PatchMetaDone, PermaStorageDone, PermaBlobDone, RequestCrashDone,
                      tables, Moves, apiVars
<1> QED
  BY <1>1, <1>2, <1>3, <1>4, <1>5, <1>6, <1>7, <1>8, <1>9, <1>10, <1>11, <1>12, <1>13, <1>14,
     <1>15, <1>16, <1>17, <1>18, <1>19
  DEF NextDone, RequestDone, WorkerDone, tables, apiVars, UploadStartDone, OtherStartDone

(* Only one commit inserts the derived files of an image. *)
LEMMA FreshStep == IInv /\ NextDone => FreshInv'
<1> SUFFICES ASSUME IInv, NextDone PROVE FreshInv'
  OBVIOUS
<1>0. TypeInv /\ HandlerInv /\ FreshInv /\ WorkersCarry /\ IdFacts /\ RowsInv /\ HeldInv /\
      ApartInv
  BY WorkersDo, Ids DEF IInv
<1>1. ASSUME NEW r \in Reqs, UploadInsertDone(r), UNCHANGED wk
       PROVE  FreshInv'
  <2>1. File(r) \notin born /\ File(r) \notin blob
    BY <1>0, <1>1 DEF HandlerInv, UploadInsertDone, At
  <2> QED
    BY <1>0, <1>1, <2>1 DEF UploadInsertDone, RowBecomes, Moves, Ends, Adds, At, File,
                            FreshInv, WorkersCarry, IdFacts, Exists, HasJob, JobFile,
                            NoJobSteps
<1>2. ASSUME NEW r \in Reqs, UploadPublishDone(r), UNCHANGED wk
       PROVE  FreshInv'
  BY <1>0, <1>2 DEF UploadPublishDone, RowBecomes, Moves, Adds, Exists, At, File, FreshInv,
                    IdFacts, WorkersCarry, HasJob, JobFile, NoJobSteps
<1>3. ASSUME NEW r \in Reqs, RollbackRowDone(r), UNCHANGED wk
       PROVE  FreshInv'
  BY <1>0, <1>3 DEF RollbackRowDone, Ends, Adds, Deletes, RowBecomes, JobBecomes, At, File,
                    FreshInv, IdFacts, WorkersCarry, Exists, HasJob, JobFile, NoJobSteps
<1>4. ASSUME NEW r \in Reqs, EnqueueDone(r), UNCHANGED wk
       PROVE  FreshInv'
  BY <1>0, <1>4 DEF EnqueueDone, JobBecomes, Ends, Adds, Exists, HasJob, At, File, FreshInv,
                    RowsInv, IdFacts, WorkersCarry, JobFile, NoJobSteps
<1>5. ASSUME NEW r \in Reqs, SoftSetDone(r), UNCHANGED wk
       PROVE  FreshInv'
  BY <1>0, <1>5 DEF SoftSetDone, RowBecomes, Audits, Ends, Loads, At, File, FreshInv, IdFacts,
                    WorkersCarry, Exists, HasJob, JobFile, NoJobSteps
<1>6. ASSUME NEW r \in Reqs, PermaRowDone(r), UNCHANGED wk
       PROVE  FreshInv'
  BY <1>0, <1>6 DEF PermaRowDone, Audits, Ends, Deletes, RowBecomes, JobBecomes, Loads, At,
                    File, FreshInv, IdFacts, WorkersCarry, Exists, HasJob, JobFile, NoJobSteps
<1>7. ASSUME DeleteStorageDone, UNCHANGED wk
       PROVE  FreshInv'
  BY <1>0, <1>7 DEF DeleteStorageDone, FreshInv, IdFacts, WorkersCarry, Exists, HasJob,
                    JobFile, NoJobSteps
<1>8. ASSUME IdlingDone, UNCHANGED apiVars
       PROVE  FreshInv'
  BY <1>0, <1>8 DEF IdlingDone, tables, NoJobSteps, FreshInv, IdFacts, WorkersCarry, Exists,
                    HasJob, JobFile, apiVars
<1>9. ASSUME NEW w \in Workers, ClaimDone(w), UNCHANGED apiVars
       PROVE  FreshInv'
  BY <1>0, <1>9 DEF ClaimDone, JobBecomes, FreshInv, RowsInv, IdFacts, WorkersCarry, Exists,
                    HasJob, JobFile, NoJobSteps, apiVars
<1>10. ASSUME NEW w \in Workers, ClaimNothingDone(w), UNCHANGED apiVars
       PROVE  FreshInv'
  BY <1>0, <1>10 DEF ClaimNothingDone, JobBecomes, Adds, Loops, FreshInv, IdFacts,
                     WorkersCarry, Exists, HasJob, JobFile, NoJobSteps, apiVars
<1>11. ASSUME NEW w \in Workers, LookDone(w), UNCHANGED apiVars
       PROVE  FreshInv'
  BY <1>0, <1>11 DEF LookDone, Goes, Adds, JobFile, tables, NoJobSteps, FreshInv, IdFacts,
                     WorkersCarry, Exists, HasJob, apiVars
<1>12. ASSUME NEW w \in Workers, TxDone(w), UNCHANGED apiVars
       PROVE  FreshInv'
  BY <1>0, <1>12 DEF TxDone, Goes, Exists, JobFile, FreshInv, IdFacts, WorkersCarry, HasJob,
                     NoJobSteps, apiVars
<1>13. ASSUME NEW w \in Workers, NEW d \in DerivedIds, DeriveDone(w, d), UNCHANGED apiVars
       PROVE  FreshInv'
  BY <1>0, <1>13 DEF DeriveDone, JobFile, FreshInv, IdFacts, WorkersCarry, Exists, HasJob,
                     NoJobSteps, apiVars
<1>14. ASSUME NEW w \in Workers, AbortDone(w), UNCHANGED apiVars
       PROVE  FreshInv'
  BY <1>0, <1>14 DEF AbortDone, JobFile, InTx, FreshInv, IdFacts, WorkersCarry, Exists,
                     HasJob, NoJobSteps, apiVars
<1>15. ASSUME NEW w \in Workers, CommitDone(w), UNCHANGED apiVars
       PROVE  FreshInv'
  BY <1>0, <1>15 DEF CommitDone, Goes, JobFile, FreshInv, HeldInv, ApartInv, WorkersCarry,
                     RowsInv, IdFacts, Exists, HasJob, NoJobSteps, apiVars
<1>16. ASSUME NEW w \in Workers, SettleDone(w), UNCHANGED apiVars
       PROVE  FreshInv'
  BY <1>0, <1>16 DEF SettleDone, JobBecomes, Adds, Loops, HasJob, JobFile, FreshInv, HeldInv,
                     RowsInv, IdFacts, WorkersCarry, Exists, NoJobSteps, apiVars
<1>17. ASSUME NEW w \in Workers, WorkerCrashDone(w), UNCHANGED apiVars
       PROVE  FreshInv'
  BY <1>0, <1>17 DEF WorkerCrashDone, JobFile, NoJobSteps, FreshInv, IdFacts, WorkersCarry,
                     Exists, HasJob, apiVars
<1>18. ASSUME UNCHANGED <<born, file, job, wk>> PROVE FreshInv'
  BY <1>0, <1>18 DEF FreshInv, Exists, HasJob, JobFile
<1>19. ASSUME NEW r \in Reqs, UNCHANGED wk,
              \/ UploadPutDone(r) \/ RollbackBlobDone(r) \/ ReloadDone(r)
              \/ MediaExistsDone(r) \/ PatchMetaDone(r) \/ PermaStorageDone(r)
              \/ PermaBlobDone(r) \/ RequestCrashDone(r)
       PROVE  FreshInv'
  BY <1>18, <1>19 DEF UploadPutDone, RollbackBlobDone, ReloadDone, MediaExistsDone,
                      PatchMetaDone, PermaStorageDone, PermaBlobDone, RequestCrashDone,
                      tables, Moves, apiVars
<1> QED
  BY <1>1, <1>2, <1>3, <1>4, <1>5, <1>6, <1>7, <1>8, <1>9, <1>10, <1>11, <1>12, <1>13, <1>14,
     <1>15, <1>16, <1>17, <1>18, <1>19
  DEF NextDone, RequestDone, WorkerDone, tables, apiVars, UploadStartDone, OtherStartDone

(* Objects of derived files come first. *)
LEMMA DerivedStep == IInv /\ NextDone => DerivedInv'
<1> SUFFICES ASSUME IInv, NextDone PROVE DerivedInv'
  OBVIOUS
<1>0. TypeInv /\ DerivedInv /\ IdFacts /\ WorkersCarry /\ HandlerInv /\ FreshInv
  BY Ids, WorkersDo DEF IInv
<1>1. ASSUME NEW r \in Reqs, UploadInsertDone(r), UNCHANGED wk
       PROVE  DerivedInv'
  BY <1>0, <1>1 DEF UploadInsertDone, RowBecomes, Moves, Ends, Adds, At, File, DerivedInv,
                    IdFacts, Exists, Loads, HasJob, JobFile, Is, NoJobSteps, Stored, InTx
<1>2. ASSUME NEW r \in Reqs, UploadPutDone(r), UNCHANGED wk
       PROVE  DerivedInv'
  BY <1>0, <1>2 DEF UploadPutDone, Moves, At, File, DerivedInv, IdFacts, Exists, Loads,
                    HasJob, JobFile, Is, NoJobSteps, Stored, InTx
<1>3. ASSUME NEW r \in Reqs, UploadPublishDone(r), UNCHANGED wk
       PROVE  DerivedInv'
  BY <1>0, <1>3 DEF UploadPublishDone, RowBecomes, Moves, Adds, Exists, At, File, DerivedInv,
                    IdFacts, Loads, HasJob, JobFile, Is, NoJobSteps, Stored, InTx
<1>4. ASSUME NEW r \in Reqs, RollbackBlobDone(r), UNCHANGED wk
       PROVE  DerivedInv'
  BY <1>0, <1>4 DEF RollbackBlobDone, Moves, Adds, At, File, DerivedInv, WorkersCarry,
                    IdFacts, Exists, Loads, HasJob, JobFile, Is, NoJobSteps, Stored, InTx
<1>5. ASSUME NEW r \in Reqs, RollbackRowDone(r), UNCHANGED wk
       PROVE  DerivedInv'
  BY <1>0, <1>5 DEF RollbackRowDone, Ends, Adds, Deletes, RowBecomes, JobBecomes, At, File,
                    DerivedInv, IdFacts, Exists, Loads, HasJob, JobFile, Is, NoJobSteps,
                    Stored, InTx
<1>6. ASSUME NEW r \in Reqs, SoftSetDone(r), UNCHANGED wk
       PROVE  DerivedInv'
  BY <1>0, <1>6 DEF SoftSetDone, RowBecomes, Audits, Ends, Loads, At, File, DerivedInv,
                    IdFacts, Exists, HasJob, JobFile, Is, NoJobSteps, Stored, InTx
<1>7. ASSUME NEW r \in Reqs, PermaBlobDone(r), UNCHANGED wk
       PROVE  DerivedInv'
  <2>1. File(r) \in born /\ ~Loads(File(r), FALSE)
    BY <1>0, <1>7 DEF HandlerInv, PermaBlobDone, At, PermaSteps
  <2> QED
    BY <1>0, <1>7, <2>1 DEF PermaBlobDone, Moves, Adds, At, File, DerivedInv, FreshInv,
                            WorkersCarry, IdFacts, Exists, Loads, HasJob, JobFile, Is,
                            NoJobSteps, Stored, InTx
<1>8. ASSUME NEW r \in Reqs, PermaRowDone(r), UNCHANGED wk
       PROVE  DerivedInv'
  BY <1>0, <1>8 DEF PermaRowDone, Audits, Ends, Deletes, RowBecomes, JobBecomes, Loads, At,
                    File, DerivedInv, IdFacts, Exists, HasJob, JobFile, Is, NoJobSteps,
                    Stored, InTx
<1>9. ASSUME DeleteStorageDone, UNCHANGED wk
       PROVE  DerivedInv'
  BY <1>0, <1>9 DEF DeleteStorageDone, DerivedInv, IdFacts, Exists, Loads, HasJob, JobFile,
                    Is, NoJobSteps, Stored, InTx
<1>10. ASSUME IdlingDone, UNCHANGED apiVars
       PROVE  DerivedInv'
  BY <1>0, <1>10 DEF IdlingDone, tables, NoJobSteps, DerivedInv, IdFacts, Exists, Loads,
                     HasJob, JobFile, Is, Stored, InTx, apiVars
<1>11. ASSUME NEW w \in Workers, ClaimDone(w), UNCHANGED apiVars
       PROVE  DerivedInv'
  BY <1>0, <1>11 DEF ClaimDone, JobBecomes, DerivedInv, IdFacts, Exists, Loads, HasJob,
                     JobFile, Is, NoJobSteps, Stored, InTx, apiVars
<1>12. ASSUME NEW w \in Workers, ClaimNothingDone(w), UNCHANGED apiVars
       PROVE  DerivedInv'
  BY <1>0, <1>12 DEF ClaimNothingDone, JobBecomes, Adds, Loops, DerivedInv, IdFacts, Exists,
                     Loads, HasJob, JobFile, Is, NoJobSteps, Stored, InTx, apiVars
<1>13. ASSUME NEW w \in Workers, LookDone(w), UNCHANGED apiVars
       PROVE  DerivedInv'
  BY <1>0, <1>13
  DEF LookDone, Goes, Adds, JobFile, tables, NoJobSteps, DerivedInv, IdFacts, Exists,
                     Loads, HasJob, Is, Stored, InTx, apiVars
<1>14. ASSUME NEW w \in Workers, TxDone(w), UNCHANGED apiVars
       PROVE  DerivedInv'
  BY <1>0, <1>14 DEF TxDone, Goes, Exists, JobFile, DerivedInv, IdFacts, Loads, HasJob, Is,
                     NoJobSteps, Stored, InTx, apiVars
<1>15. ASSUME NEW w \in Workers, NEW d \in DerivedIds, DeriveDone(w, d), UNCHANGED apiVars
       PROVE  DerivedInv'
  BY <1>0, <1>15 DEF DeriveDone, JobFile, DerivedInv, IdFacts, Exists, Loads, HasJob, Is,
                     NoJobSteps, Stored, InTx, apiVars
<1>16. ASSUME NEW w \in Workers, AbortDone(w), UNCHANGED apiVars
       PROVE  DerivedInv'
  BY <1>0, <1>16 DEF AbortDone, JobFile, InTx, DerivedInv, IdFacts, Exists, Loads, HasJob, Is,
                     NoJobSteps, Stored, apiVars
<1>17. ASSUME NEW w \in Workers, CommitDone(w), UNCHANGED apiVars
       PROVE  DerivedInv'
  BY <1>0, <1>17 DEF CommitDone, Goes, JobFile, DerivedInv, WorkersCarry, IdFacts, Exists,
                     Loads, HasJob, Is, NoJobSteps, Stored, InTx, apiVars
<1>18. ASSUME NEW w \in Workers, SettleDone(w), UNCHANGED apiVars
       PROVE  DerivedInv'
  BY <1>0, <1>18 DEF SettleDone, JobBecomes, Adds, Loops, HasJob, JobFile, DerivedInv,
                     IdFacts, Exists, Loads, Is, NoJobSteps, Stored, InTx, apiVars
<1>19. ASSUME NEW w \in Workers, WorkerCrashDone(w), UNCHANGED apiVars
       PROVE  DerivedInv'
  BY <1>0, <1>19 DEF WorkerCrashDone, JobFile, NoJobSteps, DerivedInv, IdFacts, Exists, Loads,
                     HasJob, Is, Stored, InTx, apiVars
<1>20. ASSUME UNCHANGED <<wk, blob, file>> PROVE DerivedInv'
  BY <1>0, <1>20 DEF DerivedInv, Exists, Loads, HasJob, JobFile, Is, Stored, InTx
<1>21. ASSUME NEW r \in Reqs, UNCHANGED wk,
              \/ ReloadDone(r) \/ MediaExistsDone(r) \/ EnqueueDone(r)
              \/ PatchMetaDone(r) \/ PermaStorageDone(r)
              \/ RequestCrashDone(r)
       PROVE  DerivedInv'
  BY <1>20, <1>21 DEF ReloadDone, MediaExistsDone, EnqueueDone, PatchMetaDone,
                      PermaStorageDone, RequestCrashDone, tables, Moves, apiVars
<1> QED
  BY <1>1, <1>2, <1>3, <1>4, <1>5, <1>6, <1>7, <1>8, <1>9, <1>10, <1>11, <1>12, <1>13, <1>14,
     <1>15, <1>16, <1>17, <1>18, <1>19, <1>20, <1>21
  DEF NextDone, RequestDone, WorkerDone, tables, apiVars, UploadStartDone, OtherStartDone

-----------------------------------------------------------------------------
(* Every step preserves the inductive invariant. *)
LEMMA InvInit == Init => IInv
<1> SUFFICES ASSUME Init PROVE IInv
  OBVIOUS
<1>0. TypeInv /\ IdFacts
  BY TypeInit, Ids
<1>1. /\ storage /\ born = {} /\ media = {} /\ blob = {} /\ locked = {} /\ flaw = {}
      /\ \A f \in Files : /\ file[f].status = "none" /\ file[f].excluded = FALSE
                          /\ job[f].status = "none" /\ job[f].attempts = 0
                          /\ up[f] = "unused" /\ audit[f].soft = 0 /\ audit[f].perma = 0
  BY DEF Init, DataInit, ApiInit, NoRow, NoJob
<1>2. \A r \in Reqs : rq[r].op = "none" /\ rq[r].pc = "idle"
  BY DEF Init, ApiInit, Idle
<1>3. \A w \in Workers : wk[w].pc = "loop" /\ JobFile(w) = NoFile
  BY DEF Init, PoolInit, AtLoop, JobFile
<1>4. RowsInv
  BY <1>1 DEF RowsInv, Exists, HasJob
<1>5. OwnInv
  BY <1>0, <1>1, <1>2 DEF OwnInv, IdFacts
<1>6. HandlerInv
  BY <1>2 DEF HandlerInv, At, EnqueueSteps, PermaSteps
<1>7. CreatedInv /\ JobbedInv /\ FailedInv
  BY <1>0, <1>1 DEF CreatedInv, JobbedInv, FailedInv, IdFacts
<1>8. PurgeInv
  BY <1>0, <1>1 DEF PurgeInv, IdFacts
<1>9. AuditInv /\ JobInv
  BY <1>1 DEF AuditInv, JobInv
<1>10. ApartInv /\ HeldInv
  BY <1>3 DEF ApartInv, HeldInv, NoJobSteps
<1>11. FreshInv
  BY <1>1, <1>3 DEF FreshInv, NoJobSteps
<1>12. DerivedInv
  BY <1>0, <1>1, <1>3 DEF DerivedInv, Is, Stored, Loads, Exists, IdFacts
<1> QED
  BY <1>0, <1>4, <1>5, <1>6, <1>7, <1>8, <1>9, <1>10, <1>11, <1>12 DEF IInv

\* IInv is inductive: one lemma per conjunct above.
LEMMA InvNext == IInv /\ [Next]_vars => IInv'
<1> SUFFICES ASSUME IInv, [Next]_vars PROVE IInv'
  OBVIOUS
<1>1. TypeInv'
  BY TypeNext DEF IInv
<1>2. NextDone
  BY NextDoes DEF IInv
<1> QED
  BY <1>1, <1>2, RowsStep, OwnStep, HandlerStep, CreatedStep, JobbedStep, FailedStep,
     PurgeStep, AuditStep, JobStep, ApartStep, HeldStep, FreshStep, DerivedStep DEF IInv

\* The inductive invariant holds of every state the service reaches, for any number of
\* files, requests in flight, workers, failures and restarts.
THEOREM Invariance == Spec => []IInv
  BY InvInit, InvNext, PTL DEF Spec

-----------------------------------------------------------------------------
(* CreatedIsStored: while its row is live, an upload that was answered 201   *)
(* is PUBLISHED and has its bytes.                                           *)
THEOREM CreatedStaysStored == Spec => []CreatedIsStored
<1>1. IInv => CreatedIsStored
  <2> SUFFICES ASSUME IInv PROVE CreatedIsStored
    OBVIOUS
  <2>1. CreatedInv /\ Statuses /\ IdFacts
    BY RowStatuses, Ids DEF IInv
  <2> QED
    BY <2>1 DEF CreatedIsStored, CreatedInv, Stored, Loads, Exists, Statuses, IdFacts
<1> QED
  BY <1>1, Invariance, PTL

(* FailedUploadLeavesNothing: rollbackUploadingFile undoes the upload.       *)
THEOREM FailedLeavesNothing == Spec => []FailedUploadLeavesNothing
<1>1. IInv => FailedUploadLeavesNothing
  BY DEF IInv, FailedInv, FailedUploadLeavesNothing, Flawed
<1> QED
  BY <1>1, Invariance, PTL

(* DeletionsAreFinal: deletions are audited once, and never undone.          *)
THEOREM DeletionIsFinal == Spec => []DeletionsAreFinal
<1>1. IInv => DeletionsAreFinal
  BY DEF IInv, AuditInv, DeletionsAreFinal
<1> QED
  BY <1>1, Invariance, PTL

(* PurgedLeavesNoObject: permaDelete leaves no object of a completed upload. *)
THEOREM PurgeIsComplete == Spec => []PurgedLeavesNoObject
<1>1. IInv => PurgedLeavesNoObject
  BY DEF IInv, PurgeInv, PurgedLeavesNoObject, Landed, Flawed
<1> QED
  BY <1>1, Invariance, PTL

(* CreatedIsQueued: maybeEnqueueMedia has queued the job of an upload that   *)
(* was answered 201.                                                         *)
THEOREM CreatedHasJob == Spec => []CreatedIsQueued
<1>1. IInv => CreatedIsQueued
  BY DEF IInv, JobbedInv, CreatedIsQueued, Flawed
<1> QED
  BY <1>1, Invariance, PTL

(* NoDoubleProcessing: claims exclude each other, for any number of workers. *)
THEOREM ClaimsExclude == Spec => []NoDoubleProcessing
<1>1. IInv => NoDoubleProcessing
  <2> SUFFICES ASSUME IInv PROVE NoDoubleProcessing
    OBVIOUS
  <2>1. ApartInv /\ HeldInv /\ JobInv /\ WorkersCarry
    BY WorkersDo DEF IInv
  <2>2. \A f \in Files : job[f].attempts <= 1
    BY <2>1 DEF JobInv
  <2>3. ASSUME NEW w \in Workers, JobFile(w) # NoFile
        PROVE  job[JobFile(w)].status = "processing" \/ ~Exists(JobFile(w))
    BY <2>1, <2>3 DEF HeldInv, WorkersCarry
  <2> QED
    BY <2>1, <2>2, <2>3 DEF ApartInv, NoDoubleProcessing
<1> QED
  BY <1>1, Invariance, PTL

(* DoneHasMedia: a job is marked done only when the media row is there, or   *)
(* the file was read without its mime type.                                  *)
THEOREM DoneMeansMedia == Spec => []DoneHasMedia
<1>1. IInv => DoneHasMedia
  BY DEF IInv, JobInv, DoneHasMedia, Untyped
<1> QED
  BY <1>1, Invariance, PTL

(* DerivedAreStored: the commit publishes no derived file without bytes.     *)
THEOREM DerivedFilesStored == Spec => []DerivedAreStored
<1>1. IInv => DerivedAreStored
  <2> SUFFICES ASSUME IInv PROVE DerivedAreStored
    OBVIOUS
  <2>1. \A f \in media : f \in Files
    BY DEF IInv, TypeInv, TypeOK, DataTypeOK
  <2> QED
    BY <2>1 DEF IInv, JobInv, DerivedInv, Stored, DerivedAreStored
<1> QED
  BY <1>1, Invariance, PTL

-----------------------------------------------------------------------------
(* FileMgr implements FileLife, for every value of its constants: every step *)
(* of a handler or a worker is a step of the life of one file, the           *)
(* appearance of derived files, the end of the storage, or no step at all.   *)

\* The empty database maps to a storage of new files.
LEMMA InitMaps == Init => FL!LifeInit
  BY DEF Init, DataInit, NoRow, Stage, Exists, FL!LifeInit

\* A step that changes neither rows, ids nor the storage is a stutter of FileLife.
LEMMA StayMaps ==
  ASSUME UNCHANGED <<file, born, storage>>
  PROVE  UNCHANGED FL!LifeVars
  BY DEF Stage, Exists, FL!LifeVars

\* A step that changes the stage of one file is the FileLife step of that stage.
LEMMA MoveMaps ==
  ASSUME NEW f \in Files, NEW from, NEW to,
         Stage(f) = from, Stage(f)' = to, UNCHANGED storage,
         \A g \in Files : g # f => Stage(g)' = Stage(g)
  PROVE  FL!Move(f, from, to)
  BY DEF FL!Move

(* A statement that touches one row moves no other file. *)
LEMMA OthersStay ==
  ASSUME NEW f \in Files, NEW st, NEW ex, RowBecomes(f, st, ex),
         UNCHANGED born \/ born' = born \cup {f}
  PROVE  \A g \in Files : g # f => Stage(g)' = Stage(g)
  BY DEF RowBecomes, Stage, Exists

\* The insert of newUploadingFile is Create.
LEMMA InsertMaps ==
  ASSUME IInv, NEW r \in Reqs, UploadInsertDone(r)
  PROVE  FL!LifeNext \/ UNCHANGED FL!LifeVars
<1>0. PICK f \in Files : f = File(r)
  BY DEF UploadInsertDone
<1>1. f \in Files /\ ~Exists(f) /\ f \notin born /\ UNCHANGED storage
  BY <1>0 DEF IInv, RowsInv, HandlerInv, UploadInsertDone, At
<1>2. CASE UNCHANGED <<file, born>>
  BY <1>1, <1>2, StayMaps
<1>3. CASE storage /\ RowBecomes(f, "UPLOADING", FALSE) /\ born' = born \cup {f}
  <2>1. Stage(f) = "new" /\ Stage(f)' = "uploading"
    BY <1>1, <1>3 DEF Stage, Exists, RowBecomes
  <2>2. FL!Move(f, "new", "uploading")
    BY <1>1, <1>3, <2>1, OthersStay, MoveMaps
  <2> QED
    BY <1>1, <1>3, <2>2 DEF FL!Create, FL!LifeNext
<1> QED
  BY <1>0, <1>2, <1>3 DEF UploadInsertDone

\* The publishing UPDATE is Publish, or a stutter when the row is trashed or gone by then.
LEMMA PublishMaps ==
  ASSUME IInv, NEW r \in Reqs, UploadPublishDone(r)
  PROVE  FL!LifeNext \/ UNCHANGED FL!LifeVars
<1>0. PICK f \in Files : f = File(r)
  BY DEF UploadPublishDone
<1>1. /\ f \in Files /\ file[f].status # "PUBLISHED" /\ UNCHANGED <<storage, born>>
      /\ file[f].status \in {"none", "UPLOADING", "PUBLISHED"}
      /\ file[f].excluded \in BOOLEAN
  BY <1>0, RowStatuses DEF IInv, HandlerInv, UploadPublishDone, At, Statuses
<1>2. CASE UNCHANGED file
  BY <1>1, <1>2, StayMaps
<1>3. CASE RowBecomes(f, IF Exists(f) THEN "PUBLISHED" ELSE "none", file[f].excluded)
  <2>0. \A g \in Files : g # f => Stage(g)' = Stage(g)
    BY <1>1, <1>3, OthersStay
  <2>1. CASE Loads(f, FALSE)
    <3>1. Stage(f) = "uploading" /\ Stage(f)' = "live"
      BY <1>1, <1>3, <2>1 DEF Stage, Exists, Loads, RowBecomes
    <3> QED
      BY <1>1, <2>0, <3>1, MoveMaps DEF FL!Publish, FL!LifeNext
  <2>2. CASE ~Loads(f, FALSE)
    <3>1. Stage(f)' = Stage(f)
      BY <1>1, <1>3, <2>2 DEF Stage, Exists, Loads, RowBecomes
    <3> QED
      BY <1>1, <2>0, <3>1 DEF FL!LifeVars
  <2> QED
    BY <2>1, <2>2
<1> QED
  BY <1>0, <1>2, <1>3 DEF UploadPublishDone

\* The DELETE of rollbackUploadingFile is Discard or Purge, never the end of a live file.
LEMMA RollbackMaps ==
  ASSUME IInv, NEW r \in Reqs, RollbackRowDone(r)
  PROVE  FL!LifeNext \/ UNCHANGED FL!LifeVars
<1>0. PICK f \in Files : f = File(r)
  BY DEF RollbackRowDone
<1>1. f \in Files /\ f \in born /\ UNCHANGED <<storage, born>>
  BY <1>0 DEF IInv, HandlerInv, RollbackRowDone, At
<1>2. CASE UNCHANGED file
  BY <1>1, <1>2, StayMaps
<1>3. CASE file[f].status = "UPLOADING" /\ RowBecomes(f, "none", FALSE)
  <2>1. Stage(f) \in {"uploading", "trash"} /\ Stage(f)' = "gone"
    BY <1>1, <1>3 DEF Stage, Exists, RowBecomes
  <2>2. FL!Move(f, "uploading", "gone") \/ FL!Move(f, "trash", "gone")
    BY <1>1, <1>3, <2>1, OthersStay, MoveMaps
  <2> QED
    BY <1>1, <2>2 DEF FL!Discard, FL!Purge, FL!LifeNext
<1> QED
  BY <1>0, <1>2, <1>3 DEF RollbackRowDone, Deletes

\* deleteFile is Trash.
LEMMA SoftMaps ==
  ASSUME IInv, NEW r \in Reqs, SoftSetDone(r)
  PROVE  FL!LifeNext \/ UNCHANGED FL!LifeVars
<1>0. PICK f \in Files : f = File(r)
  BY DEF SoftSetDone
<1>1. f \in Files /\ UNCHANGED <<storage, born>>
  BY <1>0 DEF SoftSetDone
<1>2. CASE UNCHANGED file
  BY <1>1, <1>2, StayMaps
<1>3. CASE Loads(f, FALSE) /\ RowBecomes(f, file[f].status, TRUE)
  <2>1. Stage(f) \in {"uploading", "live"} /\ Stage(f)' = "trash"
    BY <1>1, <1>3 DEF Stage, Exists, Loads, RowBecomes
  <2>2. FL!Move(f, "uploading", "trash") \/ FL!Move(f, "live", "trash")
    BY <1>1, <1>3, <2>1, OthersStay, MoveMaps
  <2> QED
    BY <1>1, <2>2 DEF FL!Trash, FL!LifeNext
<1> QED
  BY <1>0, <1>2, <1>3 DEF SoftSetDone

\* permaDelete is Purge.
LEMMA PermaMaps ==
  ASSUME IInv, NEW r \in Reqs, PermaRowDone(r)
  PROVE  FL!LifeNext \/ UNCHANGED FL!LifeVars
<1>0. PICK f \in Files : f = File(r)
  BY DEF PermaRowDone
<1>1. f \in Files /\ f \in born /\ UNCHANGED <<storage, born>>
  BY <1>0 DEF IInv, HandlerInv, PermaRowDone, At
<1>2. CASE UNCHANGED file
  BY <1>1, <1>2, StayMaps
<1>3. CASE Loads(f, TRUE) /\ RowBecomes(f, "none", FALSE)
  <2>1. Stage(f) = "trash" /\ Stage(f)' = "gone"
    BY <1>1, <1>3 DEF Stage, Exists, Loads, RowBecomes
  <2>2. FL!Move(f, "trash", "gone")
    BY <1>1, <1>3, <2>1, OthersStay, MoveMaps
  <2> QED
    BY <1>1, <2>2 DEF FL!Purge, FL!LifeNext
<1> QED
  BY <1>0, <1>2, <1>3 DEF PermaRowDone, Deletes

\* deleteStorage is Drop.
LEMMA DropMaps ==
  ASSUME IInv, DeleteStorageDone
  PROVE  FL!LifeNext
<1>1. \A f \in Files : Stage(f)' = IF Stage(f) = "new" THEN "new" ELSE "gone"
  BY DEF IInv, RowsInv, DeleteStorageDone, Stage, Exists
<1> QED
  BY <1>1 DEF DeleteStorageDone, FL!Drop, FL!LifeNext

\* The commit of the media transaction is Appear of the derived files.
LEMMA CommitMaps ==
  ASSUME IInv, NEW w \in Workers, CommitDone(w)
  PROVE  FL!LifeNext
<1> DEFINE S == Derive[JobFile(w)]
<1>1. S \subseteq Files /\ S \cap born = {} /\ storage /\ UNCHANGED storage
  BY Ids DEF IInv, RowsInv, HeldInv, FreshInv, InTx, NoJobSteps, CommitDone, IdFacts
<1>2. \A f \in S : Stage(f) = "new"
  BY <1>1 DEF IInv, RowsInv, Stage
<1>3. \A f \in Files : Stage(f)' = IF f \in S THEN "live" ELSE Stage(f)
  BY <1>1 DEF CommitDone, Stage, Exists
<1>4. FL!Appear(S)
  BY <1>1, <1>2, <1>3 DEF FL!Appear
<1> QED
  BY <1>1, <1>4 DEF FL!LifeNext

\* Every step of the service is a FileLife step or a stutter.
LEMMA NextMaps == IInv /\ NextDone => FL!LifeNext \/ UNCHANGED FL!LifeVars
<1> SUFFICES ASSUME IInv, NextDone PROVE FL!LifeNext \/ UNCHANGED FL!LifeVars
  OBVIOUS
<1>1. ASSUME NEW r \in Reqs, RequestDone(r) PROVE FL!LifeNext \/ UNCHANGED FL!LifeVars
  <2>1. CASE \/ UploadPutDone(r) \/ RollbackBlobDone(r) \/ ReloadDone(r)
             \/ MediaExistsDone(r) \/ EnqueueDone(r) \/ PatchMetaDone(r)
             \/ PermaStorageDone(r) \/ PermaBlobDone(r) \/ RequestCrashDone(r)
    <3>1. UNCHANGED <<file, born, storage>>
      BY <2>1 DEF UploadPutDone, RollbackBlobDone, ReloadDone, MediaExistsDone, EnqueueDone,
                  PatchMetaDone, PermaStorageDone, PermaBlobDone, RequestCrashDone, tables
    <3> QED
      BY <3>1, StayMaps
  <2> QED
    BY <1>1, <2>1, InsertMaps, PublishMaps, RollbackMaps, SoftMaps, PermaMaps DEF RequestDone
<1>2. ASSUME NEW w \in Workers, WorkerDone(w) PROVE FL!LifeNext \/ UNCHANGED FL!LifeVars
  <2>1. CASE \/ ClaimDone(w) \/ ClaimNothingDone(w) \/ LookDone(w) \/ TxDone(w)
             \/ AbortDone(w) \/ SettleDone(w) \/ WorkerCrashDone(w)
    <3>1. UNCHANGED <<file, born, storage>>
      BY <2>1 DEF ClaimDone, ClaimNothingDone, LookDone, TxDone, AbortDone, SettleDone,
                  WorkerCrashDone, tables
    <3> QED
      BY <3>1, StayMaps
  <2> QED
    BY <1>2, <2>1, CommitMaps DEF WorkerDone
<1>3. CASE \/ \E r \in Reqs, f \in Uploads : UploadStartDone(r, f)
           \/ \E r \in Reqs, f \in Files : OtherStartDone(r, f)
           \/ \E w \in Workers, d \in DerivedIds : DeriveDone(w, d)
           \/ IdlingDone
  <2>1. UNCHANGED <<file, born, storage>>
    BY <1>3 DEF UploadStartDone, OtherStartDone, DeriveDone, IdlingDone, tables
  <2> QED
    BY <2>1, StayMaps
<1> QED
  BY <1>1, <1>2, <1>3, DropMaps DEF NextDone

(* ImplementsFileLife: whatever handlers, workers, failures and crashes do,  *)
(* a file only goes forward in its life.                                     *)
THEOREM Refinement == Spec => ImplementsFileLife
<1>1. IInv /\ [Next]_vars => [FL!LifeNext]_FL!LifeVars
  <2>1. IInv /\ [Next]_vars => NextDone
    BY NextDoes DEF IInv
  <2> QED
    BY <2>1, NextMaps
<1> QED
  BY <1>1, InitMaps, Invariance, PTL DEF Spec, ImplementsFileLife, FL!LifeSpec
=============================================================================
