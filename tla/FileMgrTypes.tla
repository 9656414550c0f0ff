--------------------------- MODULE FileMgrTypes ---------------------------
(***************************************************************************)
(* Theorems about FileMgr, for every value of its constants.               *)
(***************************************************************************)
EXTENDS FileMgrInv, TLAPS

-----------------------------------------------------------------------------
(* Types.  TypeOK is inductive once handlers and workers are known to carry *)
(* a file exactly while they work on one.                                   *)

LEMMA TypeInit == Init => TypeInv
<1> SUFFICES ASSUME Init PROVE TypeInv OBVIOUS
<1> USE DEF Init
<1>1. DataTypeOK
  BY DEF DataInit, DataTypeOK, NoRow, NoJob, RowStatus, JobStatus
<1>2. ApiTypeOK
  BY DEF ApiInit, ApiTypeOK, Idle, Ops, Steps, Outcomes
<1>3. PoolTypeOK
  <2>1. AtLoop \in [pc : WorkerSteps, f : Files \cup {NoFile}, todo : SUBSET DerivedIds]
    BY DEF AtLoop, WorkerSteps
  <2>2. wk \in [Workers -> [pc : WorkerSteps, f : Files \cup {NoFile}, todo : SUBSET DerivedIds]]
    BY <2>1 DEF PoolInit
  <2>3. restarts \in 0..MaxRestarts
    BY RestartsAssumption DEF PoolInit
  <2> QED
    BY <2>2, <2>3 DEF PoolInit, PoolTypeOK
<1>4. Shape
  BY DEF ApiInit, PoolInit, Shape, AtLoop, HandlerOK, WorkerOK, NoJobSteps
<1> QED
  BY <1>1, <1>2, <1>3, <1>4 DEF TypeInv, TypeOK

(* Every statement of the data layer keeps the types of the tables. *)
LEMMA StatementTypes ==
  ASSUME DataTypeOK, NEW f \in Files, flaw' \in SUBSET (Files \X Points),
         \/ InsertFile(f) \/ PublishFile(f) \/ ExcludeFile(f)
         \/ DeleteFailedUploadingFile(f) \/ PermaDeleteFile(f) \/ DeleteStorageRow
         \/ EnqueueMediaProcessing(f) \/ ClaimMediaJob(f)
         \/ SettleMediaJob(f, "done") \/ SettleMediaJob(f, "failed")
         \/ InsertStorageMediaTx(f) \/ CommitMediaTx(f) \/ RollbackMediaTx(f)
         \/ PutObject(f) \/ DeleteObject(f) \/ UNCHANGED tables
  PROVE  DataTypeOK'
<1> USE DEF DataTypeOK, RowStatus, JobStatus, NoRow, NoJob, tables
<1>1. CASE InsertFile(f) BY <1>1 DEF InsertFile
<1>2. CASE PublishFile(f) BY <1>2 DEF PublishFile
<1>3. CASE ExcludeFile(f) BY <1>3 DEF ExcludeFile
<1>4. CASE DeleteFailedUploadingFile(f)
  <2>1. CASE DeleteFileRow(f) BY <2>1 DEF DeleteFileRow
  <2>2. CASE UNCHANGED tables BY <2>2
  <2> QED BY <1>4, <2>1, <2>2 DEF DeleteFailedUploadingFile
<1>5. CASE PermaDeleteFile(f) BY <1>5 DEF PermaDeleteFile, DeleteFileRow
<1>6. CASE DeleteStorageRow BY <1>6 DEF DeleteStorageRow
<1>7. CASE EnqueueMediaProcessing(f) BY <1>7 DEF EnqueueMediaProcessing
<1>8. CASE ClaimMediaJob(f) BY <1>8 DEF ClaimMediaJob
<1>9. CASE SettleMediaJob(f, "done") \/ SettleMediaJob(f, "failed")
  <2>1. PICK result \in {"done", "failed"} : SettleMediaJob(f, result)
    BY <1>9
  <2> QED
    BY <2>1 DEF SettleMediaJob
<1>10. CASE InsertStorageMediaTx(f) BY <1>10 DEF InsertStorageMediaTx
<1>11. CASE CommitMediaTx(f)
  <2>1. Derive[f] \subseteq Files
    BY IdsAssumption DEF Files
  <2>2. file' \in [Files -> [status : {"none", "UPLOADING", "PUBLISHED"}, excluded : BOOLEAN]]
    BY <1>11 DEF CommitMediaTx
  <2> QED
    BY <1>11, <2>1, <2>2 DEF CommitMediaTx
<1>12. CASE RollbackMediaTx(f) BY <1>12 DEF RollbackMediaTx
<1>13. CASE PutObject(f) BY <1>13 DEF PutObject
<1>14. CASE DeleteObject(f) BY <1>14 DEF DeleteObject
<1>15. CASE UNCHANGED tables BY <1>15
<1> QED
  BY <1>1, <1>2, <1>3, <1>4, <1>5, <1>6, <1>7, <1>8, <1>9, <1>10, <1>11, <1>12,
     <1>13, <1>14, <1>15

\* Recording a failure of a known kind keeps the history well typed.
LEMMA FlawTypes ==
  ASSUME DataTypeOK, NEW f \in Files, NEW p \in Points, Flaw(f, p) \/ UNCHANGED flaw
  PROVE  flaw' \in SUBSET (Files \X Points)
  BY DEF DataTypeOK, Flaw

Handlers == [op : Ops, pc : Steps, f : Files \cup {NoFile}]

\* A handler moved to a step of its operation keeps its shape.
LEMMA GotoTypes ==
  ASSUME TypeInv, NEW r \in Reqs, NEW s \in Steps, Goto(r, s),
         HandlerOK([rq[r] EXCEPT !.pc = s]), UNCHANGED poolVars
  PROVE  rq' \in [Reqs -> Handlers] /\ Shape'
  <1>1. rq' \in [Reqs -> Handlers]
    BY DEF TypeInv, TypeOK, ApiTypeOK, Goto, Handlers
  <1>2. \A q \in Reqs : HandlerOK(rq'[q])
    BY DEF TypeInv, TypeOK, ApiTypeOK, Goto, Shape
  <1> QED
    BY <1>1, <1>2 DEF TypeInv, Shape, poolVars

\* An answered handler is idle, and the outcome it records is an outcome.
LEMMA AnswerTypes ==
  ASSUME TypeInv, NEW r \in Reqs, NEW result, rq[r].op = "upload" => result \in Outcomes, 
         Answer(r, result), UNCHANGED poolVars
  PROVE  rq' \in [Reqs -> Handlers] /\ Shape' /\ up' \in [Files -> Outcomes]
  <1>0. Idle \in Handlers
    BY DEF Idle, Handlers, Ops, Steps
  <1>1. rq' \in [Reqs -> Handlers]
    BY <1>0 DEF TypeInv, TypeOK, ApiTypeOK, Answer, Handlers
  <1>2. \A q \in Reqs : HandlerOK(rq'[q])
    BY DEF TypeInv, TypeOK, ApiTypeOK, Answer, Shape, HandlerOK
  <1>3. Shape'
    BY <1>2 DEF TypeInv, Shape, poolVars
  <1>4. up' \in [Files -> Outcomes]
    BY DEF TypeInv, TypeOK, ApiTypeOK, Answer
  <1> QED
    BY <1>1, <1>3, <1>4

\* A handler that begins an operation on a file has the shape of that operation.
LEMMA BeginTypes ==
  ASSUME TypeInv, NEW r \in Reqs, NEW op \in Ops, NEW s \in Steps, NEW f \in Files,
         Begin(r, op, s, f), HandlerOK([op |-> op, pc |-> s, f |-> f]), UNCHANGED poolVars
  PROVE  rq' \in [Reqs -> Handlers] /\ Shape'
  <1>1. rq' \in [Reqs -> Handlers]
    BY DEF TypeInv, TypeOK, ApiTypeOK, Begin, Handlers
  <1>2. \A q \in Reqs : HandlerOK(rq'[q])
    BY DEF TypeInv, TypeOK, ApiTypeOK, Begin, Shape
  <1> QED
    BY <1>1, <1>2 DEF TypeInv, Shape, poolVars

\* The step a handler stands at tells its operation and which steps keep its shape;
\* a handler that is not idle has a file.
LEMMA StepShape ==
  ASSUME TypeInv, NEW r \in Reqs, NEW s \in Steps
  PROVE  /\ rq[r].pc # "idle" => File(r) \in Files 
         /\ rq[r].op = "upload" => File(r) \in Uploads
         /\ rq[r].pc \in UploadSteps \cup EnqueueSteps /\ rq[r].op = "upload"
            /\ s \in UploadSteps \cup EnqueueSteps => HandlerOK([rq[r] EXCEPT !.pc = s])
         /\ rq[r].pc \in EnqueueSteps \cup {"patchMeta"} /\ rq[r].op = "patch"
            /\ s \in EnqueueSteps => HandlerOK([rq[r] EXCEPT !.pc = s])
         /\ rq[r].pc \in PermaSteps /\ s \in PermaSteps => HandlerOK([rq[r] EXCEPT !.pc = s])
         /\ rq[r].pc \in UploadSteps => rq[r].op = "upload"
         /\ rq[r].pc \in EnqueueSteps => rq[r].op \in {"upload", "patch"}
         /\ rq[r].pc = "patchMeta" => rq[r].op = "patch"
         /\ rq[r].pc \in PermaSteps \cup {"softSet"} => rq[r].op # "upload"
  <1>1. rq[r] \in Handlers /\ HandlerOK(rq[r])
    BY DEF TypeInv, Shape, TypeOK, ApiTypeOK, Handlers
  <1> QED
    BY <1>1 DEF Handlers, HandlerOK, Idle, UploadSteps, EnqueueSteps, PermaSteps, File, Files

\* No step of a handler of router.go breaks the types of any table or handler.
LEMMA ApiTypes == TypeInv /\ ApiNext /\ UNCHANGED poolVars => TypeInv'
<1> SUFFICES ASSUME TypeInv, ApiNext, UNCHANGED poolVars PROVE TypeInv'
  OBVIOUS
<1>1. ASSUME NEW r \in Reqs, UploadInsert(r) PROVE TypeInv'
  <2>1. File(r) \in Files
    BY <1>1, StepShape DEF UploadInsert, At, Steps
  <2>2. flaw' \in SUBSET (Files \X Points)
    BY <1>1, <2>1, FlawTypes DEF UploadInsert, Points, TypeInv, TypeOK
  <2>3. DataTypeOK'
    BY <1>1, <2>1, <2>2, StatementTypes DEF UploadInsert, TypeInv, TypeOK
  <2>4. rq' \in [Reqs -> Handlers] /\ up' \in [Files -> Outcomes] /\ Shape'
    BY <1>1, StepShape, GotoTypes, AnswerTypes DEF UploadInsert, At, Steps, Outcomes,
         UploadSteps, EnqueueSteps, PermaSteps, TypeInv, TypeOK, ApiTypeOK
  <2>5. audit' \in [Files -> [soft : Nat, perma : Nat]]
    BY <1>1, <2>1 DEF UploadInsert, TypeInv, TypeOK, ApiTypeOK
  <2> QED
    BY <2>3, <2>4, <2>5 DEF TypeInv, TypeOK, ApiTypeOK, PoolTypeOK, poolVars, Handlers
<1>2. ASSUME NEW r \in Reqs, UploadPut(r) PROVE TypeInv'
  <2>1. File(r) \in Files
    BY <1>2, StepShape DEF UploadPut, At, Steps
  <2>2. flaw' \in SUBSET (Files \X Points)
    BY <1>2, <2>1, FlawTypes DEF UploadPut, Points, TypeInv, TypeOK
  <2>3. DataTypeOK'
    BY <1>2, <2>1, <2>2, StatementTypes DEF UploadPut, TypeInv, TypeOK
  <2>4. rq' \in [Reqs -> Handlers] /\ up' \in [Files -> Outcomes] /\ Shape'
    BY <1>2, StepShape, GotoTypes DEF UploadPut, At, Steps, UploadSteps, EnqueueSteps, PermaSteps,
         TypeInv, TypeOK, ApiTypeOK
  <2>5. audit' \in [Files -> [soft : Nat, perma : Nat]]
    BY <1>2, <2>1 DEF UploadPut, TypeInv, TypeOK, ApiTypeOK
  <2> QED
    BY <2>3, <2>4, <2>5 DEF TypeInv, TypeOK, ApiTypeOK, PoolTypeOK, poolVars, Handlers
<1>3. ASSUME NEW r \in Reqs, UploadPublish(r) PROVE TypeInv'
  <2>1. File(r) \in Files
    BY <1>3, StepShape DEF UploadPublish, At, Steps
  <2>2. flaw' \in SUBSET (Files \X Points)
    BY <1>3, <2>1, FlawTypes DEF UploadPublish, Points, TypeInv, TypeOK
  <2>3. DataTypeOK'
    BY <1>3, <2>1, <2>2, StatementTypes DEF UploadPublish, TypeInv, TypeOK
  <2>4. rq' \in [Reqs -> Handlers] /\ up' \in [Files -> Outcomes] /\ Shape'
    BY <1>3, StepShape, GotoTypes
      DEF UploadPublish, At, Steps, UploadSteps, EnqueueSteps, PermaSteps,
         TypeInv, TypeOK, ApiTypeOK
  <2>5. audit' \in [Files -> [soft : Nat, perma : Nat]]
    BY <1>3, <2>1 DEF UploadPublish, TypeInv, TypeOK, ApiTypeOK
  <2> QED
    BY <2>3, <2>4, <2>5 DEF TypeInv, TypeOK, ApiTypeOK, PoolTypeOK, poolVars, Handlers
<1>4. ASSUME NEW r \in Reqs, RollbackBlob(r) PROVE TypeInv'
  <2>1. File(r) \in Files
    BY <1>4, StepShape DEF RollbackBlob, At, Steps
  <2>2. flaw' \in SUBSET (Files \X Points)
    BY <1>4, <2>1, FlawTypes DEF RollbackBlob, Points, TypeInv, TypeOK
  <2>3. DataTypeOK'
    BY <1>4, <2>1, <2>2, StatementTypes DEF RollbackBlob, TypeInv, TypeOK
  <2>4. rq' \in [Reqs -> Handlers] /\ up' \in [Files -> Outcomes] /\ Shape'
    BY <1>4, StepShape, GotoTypes
      DEF RollbackBlob, At, Steps, UploadSteps, EnqueueSteps, PermaSteps,
         TypeInv, TypeOK, ApiTypeOK
  <2>5. audit' \in [Files -> [soft : Nat, perma : Nat]]
    BY <1>4, <2>1 DEF RollbackBlob, TypeInv, TypeOK, ApiTypeOK
  <2> QED
    BY <2>3, <2>4, <2>5 DEF TypeInv, TypeOK, ApiTypeOK, PoolTypeOK, poolVars, Handlers
<1>5. ASSUME NEW r \in Reqs, RollbackRow(r) PROVE TypeInv'
  <2>1. File(r) \in Files
    BY <1>5, StepShape DEF RollbackRow, At, Steps
  <2>2. flaw' \in SUBSET (Files \X Points)
    BY <1>5, <2>1, FlawTypes DEF RollbackRow, Points, TypeInv, TypeOK
  <2>3. DataTypeOK'
    BY <1>5, <2>1, <2>2, StatementTypes DEF RollbackRow, TypeInv, TypeOK
  <2>4. rq' \in [Reqs -> Handlers] /\ up' \in [Files -> Outcomes] /\ Shape'
    BY <1>5, StepShape, AnswerTypes
      DEF RollbackRow, At, Steps, Outcomes, UploadSteps, EnqueueSteps
  <2>5. audit' \in [Files -> [soft : Nat, perma : Nat]]
    BY <1>5, <2>1 DEF RollbackRow, TypeInv, TypeOK, ApiTypeOK
  <2> QED
    BY <2>3, <2>4, <2>5 DEF TypeInv, TypeOK, ApiTypeOK, PoolTypeOK, poolVars, Handlers
<1>6. ASSUME NEW r \in Reqs, Reload(r) PROVE TypeInv'
  <2>1. File(r) \in Files
    BY <1>6, StepShape DEF Reload, At, Steps
  <2>2. flaw' \in SUBSET (Files \X Points)
    BY <1>6, <2>1, FlawTypes DEF Reload, Points, TypeInv, TypeOK
  <2>3. DataTypeOK'
    BY <1>6, <2>1, <2>2, StatementTypes DEF Reload, TypeInv, TypeOK
  <2>4. rq' \in [Reqs -> Handlers] /\ up' \in [Files -> Outcomes] /\ Shape'
    BY <1>6, StepShape, GotoTypes, AnswerTypes DEF Reload, At, Steps, Outcomes,
         UploadSteps, EnqueueSteps, PermaSteps, TypeInv, TypeOK, ApiTypeOK
  <2>5. audit' \in [Files -> [soft : Nat, perma : Nat]]
    BY <1>6, <2>1 DEF Reload, TypeInv, TypeOK, ApiTypeOK
  <2> QED
    BY <2>3, <2>4, <2>5 DEF TypeInv, TypeOK, ApiTypeOK, PoolTypeOK, poolVars, Handlers
<1>7. ASSUME NEW r \in Reqs, MediaExists(r) PROVE TypeInv'
  <2>1. File(r) \in Files
    BY <1>7, StepShape DEF MediaExists, At, Steps
  <2>2. flaw' \in SUBSET (Files \X Points)
    BY <1>7, <2>1, FlawTypes DEF MediaExists, Points, TypeInv, TypeOK
  <2>3. DataTypeOK'
    BY <1>7, <2>1, <2>2, StatementTypes DEF MediaExists, TypeInv, TypeOK
  <2>4. rq' \in [Reqs -> Handlers] /\ up' \in [Files -> Outcomes] /\ Shape'
    BY <1>7, StepShape, GotoTypes, AnswerTypes DEF MediaExists, At, Steps, Outcomes,
         UploadSteps, EnqueueSteps, PermaSteps, TypeInv, TypeOK, ApiTypeOK
  <2>5. audit' \in [Files -> [soft : Nat, perma : Nat]]
    BY <1>7, <2>1 DEF MediaExists, TypeInv, TypeOK, ApiTypeOK
  <2> QED
    BY <2>3, <2>4, <2>5 DEF TypeInv, TypeOK, ApiTypeOK, PoolTypeOK, poolVars, Handlers
<1>8. ASSUME NEW r \in Reqs, Enqueue(r) PROVE TypeInv'
  <2>1. File(r) \in Files
    BY <1>8, StepShape DEF Enqueue, At, Steps
  <2>2. flaw' \in SUBSET (Files \X Points)
    BY <1>8, <2>1, FlawTypes DEF Enqueue, Points, TypeInv, TypeOK
  <2>3. DataTypeOK'
    BY <1>8, <2>1, <2>2, StatementTypes DEF Enqueue, TypeInv, TypeOK
  <2>4. rq' \in [Reqs -> Handlers] /\ up' \in [Files -> Outcomes] /\ Shape'
    BY <1>8, StepShape, AnswerTypes DEF Enqueue, At, Steps, Outcomes, UploadSteps, EnqueueSteps
  <2>5. audit' \in [Files -> [soft : Nat, perma : Nat]]
    BY <1>8, <2>1 DEF Enqueue, TypeInv, TypeOK, ApiTypeOK
  <2> QED
    BY <2>3, <2>4, <2>5 DEF TypeInv, TypeOK, ApiTypeOK, PoolTypeOK, poolVars, Handlers
<1>9. ASSUME NEW r \in Reqs, PatchMeta(r) PROVE TypeInv'
  <2>1. File(r) \in Files
    BY <1>9, StepShape DEF PatchMeta, At, Steps
  <2>2. flaw' \in SUBSET (Files \X Points)
    BY <1>9, <2>1, FlawTypes DEF PatchMeta, Points, TypeInv, TypeOK
  <2>3. DataTypeOK'
    BY <1>9, <2>1, <2>2, StatementTypes DEF PatchMeta, TypeInv, TypeOK
  <2>4. rq' \in [Reqs -> Handlers] /\ up' \in [Files -> Outcomes] /\ Shape'
    BY <1>9, StepShape, GotoTypes, AnswerTypes DEF PatchMeta, At, Steps, Outcomes,
         UploadSteps, EnqueueSteps, PermaSteps, TypeInv, TypeOK, ApiTypeOK
  <2>5. audit' \in [Files -> [soft : Nat, perma : Nat]]
    BY <1>9, <2>1 DEF PatchMeta, TypeInv, TypeOK, ApiTypeOK
  <2> QED
    BY <2>3, <2>4, <2>5 DEF TypeInv, TypeOK, ApiTypeOK, PoolTypeOK, poolVars, Handlers
<1>10. ASSUME NEW r \in Reqs, SoftSet(r) PROVE TypeInv'
  <2>1. File(r) \in Files
    BY <1>10, StepShape DEF SoftSet, At, Steps
  <2>2. flaw' \in SUBSET (Files \X Points)
    BY <1>10, <2>1, FlawTypes DEF SoftSet, Points, TypeInv, TypeOK
  <2>3. DataTypeOK'
    BY <1>10, <2>1, <2>2, StatementTypes DEF SoftSet, TypeInv, TypeOK
  <2>4. rq' \in [Reqs -> Handlers] /\ up' \in [Files -> Outcomes] /\ Shape'
    BY <1>10, StepShape, AnswerTypes
      DEF SoftSet, At, Steps, Outcomes, TypeInv, Shape, HandlerOK, UploadSteps,
          EnqueueSteps, PermaSteps, Idle
  <2>5. audit' \in [Files -> [soft : Nat, perma : Nat]]
    BY <1>10, <2>1 DEF SoftSet, TypeInv, TypeOK, ApiTypeOK
  <2> QED
    BY <2>3, <2>4, <2>5 DEF TypeInv, TypeOK, ApiTypeOK, PoolTypeOK, poolVars, Handlers
<1>11. ASSUME NEW r \in Reqs, PermaStorage(r) PROVE TypeInv'
  <2>1. File(r) \in Files
    BY <1>11, StepShape DEF PermaStorage, At, Steps
  <2>2. flaw' \in SUBSET (Files \X Points)
    BY <1>11, <2>1, FlawTypes DEF PermaStorage, Points, TypeInv, TypeOK
  <2>3. DataTypeOK'
    BY <1>11, <2>1, <2>2, StatementTypes DEF PermaStorage, TypeInv, TypeOK
  <2>4. rq' \in [Reqs -> Handlers] /\ up' \in [Files -> Outcomes] /\ Shape'
    BY <1>11, StepShape, GotoTypes, AnswerTypes DEF PermaStorage, At, Steps, Outcomes,
         UploadSteps, EnqueueSteps, PermaSteps, TypeInv, TypeOK, ApiTypeOK
  <2>5. audit' \in [Files -> [soft : Nat, perma : Nat]]
    BY <1>11, <2>1 DEF PermaStorage, TypeInv, TypeOK, ApiTypeOK
  <2> QED
    BY <2>3, <2>4, <2>5 DEF TypeInv, TypeOK, ApiTypeOK, PoolTypeOK, poolVars, Handlers
<1>12. ASSUME NEW r \in Reqs, PermaBlob(r) PROVE TypeInv'
  <2>1. File(r) \in Files
    BY <1>12, StepShape DEF PermaBlob, At, Steps
  <2>2. flaw' \in SUBSET (Files \X Points)
    BY <1>12, <2>1, FlawTypes DEF PermaBlob, Points, TypeInv, TypeOK
  <2>3. DataTypeOK'
    BY <1>12, <2>1, <2>2, StatementTypes DEF PermaBlob, TypeInv, TypeOK
  <2>4. rq' \in [Reqs -> Handlers] /\ up' \in [Files -> Outcomes] /\ Shape'
    BY <1>12, StepShape, GotoTypes
      DEF PermaBlob, At, Steps, UploadSteps, EnqueueSteps, PermaSteps,
         TypeInv, TypeOK, ApiTypeOK
  <2>5. audit' \in [Files -> [soft : Nat, perma : Nat]]
    BY <1>12, <2>1 DEF PermaBlob, TypeInv, TypeOK, ApiTypeOK
  <2> QED
    BY <2>3, <2>4, <2>5 DEF TypeInv, TypeOK, ApiTypeOK, PoolTypeOK, poolVars, Handlers
<1>13. ASSUME NEW r \in Reqs, PermaRow(r) PROVE TypeInv'
  <2>1. File(r) \in Files
    BY <1>13, StepShape DEF PermaRow, At, Steps
  <2>2. flaw' \in SUBSET (Files \X Points)
    BY <1>13, <2>1, FlawTypes DEF PermaRow, Points, TypeInv, TypeOK
  <2>3. DataTypeOK'
    BY <1>13, <2>1, <2>2, StatementTypes DEF PermaRow, TypeInv, TypeOK
  <2>4. rq' \in [Reqs -> Handlers] /\ up' \in [Files -> Outcomes] /\ Shape'
    BY <1>13, StepShape, AnswerTypes
      DEF PermaRow, At, Steps, Outcomes, TypeInv, Shape, HandlerOK, UploadSteps,
          EnqueueSteps, PermaSteps, Idle
  <2>5. audit' \in [Files -> [soft : Nat, perma : Nat]]
    BY <1>13, <2>1 DEF PermaRow, TypeInv, TypeOK, ApiTypeOK
  <2> QED
    BY <2>3, <2>4, <2>5 DEF TypeInv, TypeOK, ApiTypeOK, PoolTypeOK, poolVars, Handlers
<1>14. ASSUME NEW r \in Reqs, RequestCrash(r) PROVE TypeInv'
  <2>1. File(r) \in Files
    BY <1>14, StepShape DEF RequestCrash, At, Steps
  <2>2. flaw' \in SUBSET (Files \X Points)
    BY <1>14, <2>1, FlawTypes DEF RequestCrash, Points, TypeInv, TypeOK
  <2>3. DataTypeOK'
    BY <1>14, <2>1, <2>2, StatementTypes DEF RequestCrash, TypeInv, TypeOK
  <2>4. rq' \in [Reqs -> Handlers] /\ up' \in [Files -> Outcomes] /\ Shape'
    BY <1>14, StepShape, AnswerTypes
      DEF RequestCrash, At, Steps, Outcomes, UploadSteps, EnqueueSteps
  <2>5. audit' \in [Files -> [soft : Nat, perma : Nat]]
    BY <1>14, <2>1 DEF RequestCrash, TypeInv, TypeOK, ApiTypeOK
  <2> QED
    BY <2>3, <2>4, <2>5 DEF TypeInv, TypeOK, ApiTypeOK, PoolTypeOK, poolVars, Handlers
<1>15. ASSUME NEW r \in Reqs, NEW f \in Uploads, UploadStart(r, f) PROVE TypeInv'
  <2>1. DataTypeOK'
    BY <1>15 DEF UploadStart, tables, TypeInv, TypeOK, DataTypeOK
  <2>2. rq' \in [Reqs -> Handlers] /\ Shape'
    BY <1>15, BeginTypes DEF UploadStart, Ops, Steps, HandlerOK, UploadSteps, Files
  <2>3. up' \in [Files -> Outcomes]
    BY <1>15 DEF UploadStart, TypeInv, TypeOK, ApiTypeOK, Outcomes
  <2> QED
    BY <1>15, <2>1, <2>2, <2>3
    DEF UploadStart, TypeInv, TypeOK, ApiTypeOK, PoolTypeOK, poolVars, Handlers
<1>16. ASSUME NEW r \in Reqs, NEW f \in Files,
              PatchStart(r, f) \/ SoftStart(r, f) \/ PermaStart(r, f)
       PROVE  TypeInv'
  <2>1. DataTypeOK'
    BY <1>16 DEF PatchStart, SoftStart, PermaStart, tables, TypeInv, TypeOK, DataTypeOK
  <2>2. rq' \in [Reqs -> Handlers] /\ Shape'
    BY <1>16, BeginTypes
    DEF PatchStart, SoftStart, PermaStart, Ops, Steps, HandlerOK, PermaSteps
  <2> QED
    BY <1>16, <2>1, <2>2 DEF PatchStart, SoftStart, PermaStart,
       TypeInv, TypeOK, ApiTypeOK, PoolTypeOK, poolVars, Handlers
<1>17. ASSUME DeleteStorage PROVE TypeInv'
  <2>1. DataTypeOK'
    BY <1>17 DEF DeleteStorage, DeleteStorageRow, TypeInv, TypeOK, DataTypeOK,
                 RowStatus, JobStatus, NoRow, NoJob
  <2> QED
    BY <1>17, <2>1 DEF DeleteStorage, apiVars, TypeInv, TypeOK, ApiTypeOK, PoolTypeOK,
                       poolVars, Shape
<1> QED
  BY <1>1, <1>2, <1>3, <1>4, <1>5, <1>6, <1>7, <1>8, <1>9, <1>10, <1>11, <1>12,
     <1>13, <1>14, <1>15, <1>16, <1>17 DEF ApiNext, RequestStep

WorkerStates == [pc : WorkerSteps, f : Files \cup {NoFile}, todo : SUBSET DerivedIds]

\* A worker past the claim (pool.go:74) has a file.
LEMMA WorkerShape ==
  ASSUME TypeInv, NEW w \in Workers
  PROVE  /\ wk[w] \in WorkerStates
         /\ wk[w].pc \notin NoJobSteps => JobFile(w) \in Files
  BY DEF TypeInv, TypeOK, PoolTypeOK, Shape, WorkerOK, NoJobSteps, WorkerStates, JobFile

(* A worker moves to a state that carries a file exactly when it should. *)
LEMMA WorkerTypes ==
  ASSUME TypeInv, NEW w \in Workers, NEW k \in WorkerStates, WorkerOK(k),
         wk' = [wk EXCEPT ![w] = k], UNCHANGED apiVars
  PROVE  wk' \in [Workers -> WorkerStates] /\ Shape'
  <1>1. wk' \in [Workers -> WorkerStates]
    BY DEF TypeInv, TypeOK, PoolTypeOK, WorkerStates
  <1>2. \A v \in Workers : WorkerOK(wk'[v])
    BY DEF TypeInv, TypeOK, PoolTypeOK, Shape
  <1> QED
    BY <1>1, <1>2 DEF TypeInv, Shape, apiVars

\* A worker moved between two steps of Process keeps its shape.
LEMMA GoTypes ==
  ASSUME TypeInv, NEW w \in Workers, NEW s \in WorkerSteps, Go(w, s), UNCHANGED apiVars,
         s \in NoJobSteps <=> wk[w].pc \in NoJobSteps
  PROVE  wk' \in [Workers -> WorkerStates] /\ Shape'
  <1>1. [wk[w] EXCEPT !.pc = s] \in WorkerStates /\ WorkerOK([wk[w] EXCEPT !.pc = s])
    BY WorkerShape DEF WorkerStates, WorkerOK, NoJobSteps, TypeInv, Shape
  <1>2. wk' = [wk EXCEPT ![w] = [wk[w] EXCEPT !.pc = s]]
    BY DEF Go
  <1> QED
    BY <1>1, <1>2, WorkerTypes

\* No step of the pool or of the processor breaks the types of any table or worker.
LEMMA PoolTypes == TypeInv /\ PoolNext /\ UNCHANGED apiVars => TypeInv'
<1> SUFFICES ASSUME TypeInv, PoolNext, UNCHANGED apiVars PROVE TypeInv'
  OBVIOUS
<1> USE DEF NoJobSteps
<1>a. /\ AtLoop \in WorkerStates /\ WorkerOK(AtLoop)
      /\ Exited \in WorkerStates /\ WorkerOK(Exited)
  BY DEF AtLoop, Exited, WorkerStates, WorkerSteps, WorkerOK, NoJobSteps
<1>b. TypeInv => restarts \in 0..MaxRestarts /\ stopping \in BOOLEAN
  BY DEF TypeInv, TypeOK, PoolTypeOK
<1>c. ASSUME NEW w \in Workers, DataTypeOK', wk' \in [Workers -> WorkerStates], Shape',
             stopping' \in BOOLEAN, restarts' \in 0..MaxRestarts
      PROVE  TypeInv'
  BY <1>c DEF TypeInv, TypeOK, ApiTypeOK, PoolTypeOK, apiVars, WorkerStates
<1>1. ASSUME NEW w \in Workers, WorkerExit(w) PROVE TypeInv'
  <2>1. DataTypeOK'
    BY <1>1 DEF WorkerExit, tables, TypeInv, TypeOK, DataTypeOK
  <2>2. wk' \in [Workers -> WorkerStates] /\ Shape'
    BY <1>1, <1>a, WorkerTypes DEF WorkerExit, Is, InTx, WorkerSteps
  <2> QED
    BY <1>1, <2>1, <2>2, <1>b, <1>c DEF WorkerExit
<1>2. ASSUME NEW w \in Workers, WorkerPoll(w) PROVE TypeInv'
  <2>1. DataTypeOK'
    BY <1>2 DEF WorkerPoll, tables, TypeInv, TypeOK, DataTypeOK
  <2>2. wk' \in [Workers -> WorkerStates] /\ Shape'
    BY <1>2, <1>a, GoTypes DEF WorkerPoll, Is, InTx, WorkerSteps
  <2> QED
    BY <1>2, <2>1, <2>2, <1>b, <1>c DEF WorkerPoll
<1>3. ASSUME NEW w \in Workers, ProcessExists(w) PROVE TypeInv'
  <2>0. JobFile(w) \in Files
    BY <1>3, WorkerShape DEF ProcessExists, Is, InTx
  <2>1. DataTypeOK'
    BY <1>3, <2>0, StatementTypes DEF ProcessExists, TypeInv, TypeOK, DataTypeOK
  <2>2. wk' \in [Workers -> WorkerStates] /\ Shape'
    BY <1>3, <1>a, GoTypes DEF ProcessExists, Is, InTx, WorkerSteps
  <2> QED
    BY <1>3, <2>1, <2>2, <1>b, <1>c DEF ProcessExists
<1>4. ASSUME NEW w \in Workers, ProcessLoad(w) PROVE TypeInv'
  <2>0. JobFile(w) \in Files
    BY <1>4, WorkerShape DEF ProcessLoad, Is, InTx
  <2>1. DataTypeOK'
    BY <1>4, <2>0, StatementTypes DEF ProcessLoad, TypeInv, TypeOK, DataTypeOK
  <2>2. wk' \in [Workers -> WorkerStates] /\ Shape'
    BY <1>4, <1>a, GoTypes DEF ProcessLoad, Is, InTx, WorkerSteps
  <2> QED
    BY <1>4, <2>1, <2>2, <1>b, <1>c DEF ProcessLoad
<1>5. ASSUME NEW w \in Workers, ProcessStorage(w) PROVE TypeInv'
  <2>0. JobFile(w) \in Files
    BY <1>5, WorkerShape DEF ProcessStorage, Is, InTx
  <2>3. flaw' \in SUBSET (Files \X Points)
    BY <1>5, <2>0, FlawTypes DEF ProcessStorage, Points, TypeInv, TypeOK
  <2>1. DataTypeOK'
    BY <1>5, <2>0, <2>3, StatementTypes DEF ProcessStorage, TypeInv, TypeOK
  <2>2. wk' \in [Workers -> WorkerStates] /\ Shape'
    BY <1>5, <1>a, GoTypes DEF ProcessStorage, Is, InTx, WorkerSteps
  <2> QED
    BY <1>5, <2>1, <2>2, <1>b, <1>c DEF ProcessStorage
<1>6. ASSUME NEW w \in Workers, ProcessOpen(w) PROVE TypeInv'
  <2>0. JobFile(w) \in Files
    BY <1>6, WorkerShape DEF ProcessOpen, Is, InTx
  <2>1. DataTypeOK'
    BY <1>6, <2>0, StatementTypes DEF ProcessOpen, TypeInv, TypeOK, DataTypeOK
  <2>2. wk' \in [Workers -> WorkerStates] /\ Shape'
    BY <1>6, <1>a, GoTypes DEF ProcessOpen, Is, InTx, WorkerSteps
  <2> QED
    BY <1>6, <2>1, <2>2, <1>b, <1>c DEF ProcessOpen
<1>7. ASSUME NEW w \in Workers, ProcessDerived(w) PROVE TypeInv'
  <2>0. JobFile(w) \in Files
    BY <1>7, WorkerShape DEF ProcessDerived, Is, InTx
  <2>1. DataTypeOK'
    BY <1>7, <2>0, StatementTypes DEF ProcessDerived, TypeInv, TypeOK, DataTypeOK
  <2>2. wk' \in [Workers -> WorkerStates] /\ Shape'
    BY <1>7, <1>a, GoTypes DEF ProcessDerived, Is, InTx, WorkerSteps
  <2> QED
    BY <1>7, <2>1, <2>2, <1>b, <1>c DEF ProcessDerived
<1>8. ASSUME NEW w \in Workers, ProcessCommit(w) PROVE TypeInv'
  <2>0. JobFile(w) \in Files
    BY <1>8, WorkerShape DEF ProcessCommit, Is, InTx
  <2>1. DataTypeOK'
    BY <1>8, <2>0, StatementTypes DEF ProcessCommit, TypeInv, TypeOK, DataTypeOK
  <2>2. wk' \in [Workers -> WorkerStates] /\ Shape'
    BY <1>8, <1>a, GoTypes DEF ProcessCommit, Is, InTx, WorkerSteps
  <2> QED
    BY <1>8, <2>1, <2>2, <1>b, <1>c DEF ProcessCommit
<1>9. ASSUME NEW w \in Workers, Claim(w) PROVE TypeInv'
  <2>1. PICK f \in Files : /\ ClaimMediaJob(f)
                           /\ wk' = [wk EXCEPT ![w] = [pc |-> "exists", f |-> f, todo |-> {}]]
    BY <1>9 DEF Claim
  <2>2. DataTypeOK'
    BY <1>9, <2>1, StatementTypes DEF Claim, TypeInv, TypeOK, DataTypeOK
  <2>3. wk' \in [Workers -> WorkerStates] /\ Shape'
    <3> DEFINE k == [pc |-> "exists", f |-> f, todo |-> {}]
    <3>1. k \in WorkerStates /\ WorkerOK(k)
      BY DEF WorkerStates, WorkerSteps, WorkerOK, NoJobSteps
    <3> QED
      BY <2>1, <3>1, WorkerTypes
  <2> QED
    BY <1>9, <2>2, <2>3, <1>b, <1>c DEF Claim
<1>10. ASSUME NEW w \in Workers, ClaimNothing(w) PROVE TypeInv'
  <2>1. DataTypeOK'
    <3>1. CASE UNCHANGED <<tables, flaw>>
      BY <3>1 DEF tables, TypeInv, TypeOK, DataTypeOK
    <3>2. ASSUME NEW f \in Files, ClaimMediaJob(f), Flaw(f, "stranded") PROVE DataTypeOK'
      <4>1. flaw' \in SUBSET (Files \X Points)
        BY <3>2, FlawTypes DEF Points, TypeInv, TypeOK
      <4> QED
        BY <3>2, <4>1, StatementTypes DEF TypeInv, TypeOK
    <3> QED
      BY <1>10, <3>1, <3>2 DEF ClaimNothing
  <2>2. wk' \in [Workers -> WorkerStates] /\ Shape'
    BY <1>10, <1>a, WorkerTypes DEF ClaimNothing
  <2> QED
    BY <1>10, <2>1, <2>2, <1>b, <1>c DEF ClaimNothing
<1>11. ASSUME NEW w \in Workers, ProcessTx(w) PROVE TypeInv'
  <2>0. JobFile(w) \in Files
    BY <1>11, WorkerShape DEF ProcessTx, Is
  <2>1. DataTypeOK'
    BY <1>11, <2>0, StatementTypes DEF ProcessTx, TypeInv, TypeOK, DataTypeOK
  <2>2. wk' \in [Workers -> WorkerStates] /\ Shape'
    <3> DEFINE k == [wk[w] EXCEPT !.pc = "derive", !.todo = Derive[JobFile(w)]]
    <3>1. k \in WorkerStates /\ WorkerOK(k)
      BY <2>0, WorkerShape, IdsAssumption
        DEF WorkerStates, WorkerSteps, WorkerOK, NoJobSteps, JobFile
    <3>2. CASE wk' = [wk EXCEPT ![w].pc = "derive", ![w].todo = Derive[JobFile(w)]]
      <4>1. wk' = [wk EXCEPT ![w] = k]
        BY <3>2 DEF TypeInv, TypeOK, PoolTypeOK
      <4> QED
        BY <3>1, <4>1, WorkerTypes
    <3>3. CASE Go(w, "fail")
      BY <1>11, <3>3, GoTypes DEF ProcessTx, Is, WorkerSteps
    <3> QED
      BY <1>11, <3>2, <3>3 DEF ProcessTx
  <2> QED
    BY <1>11, <2>1, <2>2, <1>b, <1>c DEF ProcessTx
<1>12. ASSUME NEW w \in Workers, NEW d \in DerivedIds, ProcessDerive(w, d) PROVE TypeInv'
  <2>1. DataTypeOK'
    BY <1>12, StatementTypes DEF ProcessDerive, TypeInv, TypeOK, DataTypeOK, Files
  <2>2. wk' \in [Workers -> WorkerStates] /\ Shape'
    <3> DEFINE k == [wk[w] EXCEPT !.todo = @ \ {d}]
    <3>1. k \in WorkerStates /\ WorkerOK(k)
      BY <1>12, WorkerShape DEF WorkerStates, WorkerOK, NoJobSteps, JobFile, ProcessDerive, Is
    <3>2. wk' = [wk EXCEPT ![w] = k]
      BY <1>12 DEF ProcessDerive
    <3> QED
      BY <3>1, <3>2, WorkerTypes
  <2> QED
    BY <1>12, <2>1, <2>2, <1>b, <1>c DEF ProcessDerive
<1>13. ASSUME NEW w \in Workers, ProcessAbort(w) PROVE TypeInv'
  <2>0. JobFile(w) \in Files
    BY <1>13, WorkerShape DEF ProcessAbort, InTx
  <2>1. DataTypeOK'
    BY <1>13, <2>0, StatementTypes DEF ProcessAbort, TypeInv, TypeOK, DataTypeOK
  <2>2. wk' \in [Workers -> WorkerStates] /\ Shape'
    <3> DEFINE k == [wk[w] EXCEPT !.pc = "fail", !.todo = {}]
    <3>1. k \in WorkerStates /\ WorkerOK(k)
      BY <2>0, WorkerShape DEF WorkerStates, WorkerSteps, WorkerOK, NoJobSteps, JobFile
    <3>2. wk' = [wk EXCEPT ![w] = k]
      BY <1>13 DEF ProcessAbort, TypeInv, TypeOK, PoolTypeOK
    <3> QED
      BY <3>1, <3>2, WorkerTypes
  <2> QED
    BY <1>13, <2>1, <2>2, <1>b, <1>c DEF ProcessAbort
<1>14. ASSUME NEW w \in Workers, Settle(w) PROVE TypeInv'
  <2>0. JobFile(w) \in Files
    BY <1>14, WorkerShape DEF Settle
  <2>1. flaw' \in SUBSET (Files \X Points)
    BY <1>14, <2>0, FlawTypes DEF Settle, Points, TypeInv, TypeOK
  <2>2. DataTypeOK'
    BY <1>14, <2>0, <2>1, StatementTypes DEF Settle, TypeInv, TypeOK
  <2>3. wk' \in [Workers -> WorkerStates] /\ Shape'
    BY <1>14, <1>a, WorkerTypes DEF Settle
  <2> QED
    BY <1>14, <2>2, <2>3, <1>b, <1>c DEF Settle
<1>15. ASSUME NEW w \in Workers, WorkerCrash(w) PROVE TypeInv'
  <2>1. flaw' \in SUBSET (Files \X Points)
    BY <1>15, WorkerShape
      DEF WorkerCrash, WorkerStates, JobFile, Points, TypeInv, TypeOK, DataTypeOK
  <2>4. wk' \in [Workers -> WorkerStates] /\ Shape'
    BY <1>15, <1>a, WorkerTypes DEF WorkerCrash
  <2>5. stopping' \in BOOLEAN /\ restarts' \in 0..MaxRestarts
    BY <1>15, <1>b, RestartsAssumption DEF WorkerCrash
  <2>2. CASE InTx(w)
    <3>1. JobFile(w) \in Files
      BY <2>2, WorkerShape DEF InTx
    <3>2. DataTypeOK'
      BY <1>15, <2>1, <2>2, <3>1, StatementTypes DEF WorkerCrash, TypeInv, TypeOK
    <3> QED
      BY <2>4, <2>5, <3>2, <1>c
  <2>3. CASE ~InTx(w)
    <3>1. DataTypeOK'
      BY <1>15, <2>1, <2>3 DEF WorkerCrash, TypeInv, TypeOK, DataTypeOK, tables
    <3> QED
      BY <2>4, <2>5, <3>1, <1>c
  <2> QED
    BY <2>2, <2>3
<1>16. ASSUME NEW w \in Workers, WorkerStart(w) PROVE TypeInv'
  <2>1. DataTypeOK'
    BY <1>16 DEF WorkerStart, tables, TypeInv, TypeOK, DataTypeOK
  <2>2. wk' \in [Workers -> WorkerStates] /\ Shape'
    BY <1>16, <1>a, WorkerTypes DEF WorkerStart
  <2> QED
    BY <1>16, <2>1, <2>2, <1>b, <1>c DEF WorkerStart
<1>17. ASSUME Stop \/ Restart PROVE TypeInv'
  <2>0. DataTypeOK'
    BY <1>17 DEF Stop, Restart, tables, TypeInv, TypeOK, DataTypeOK
  <2>1. stopping' \in BOOLEAN /\ restarts' \in 0..MaxRestarts
    <3>1. stopping' \in BOOLEAN
      BY <1>17 DEF Stop, Restart
    <3>2. CASE Stop
      BY <3>1, <3>2, <1>b, RestartsAssumption DEF Stop
    <3>3. CASE Restart
      BY <3>1, <3>3, <1>b DEF Restart
    <3> QED
      BY <1>17, <3>2, <3>3
  <2>2. wk' \in [Workers -> WorkerStates] /\ \A w \in Workers : WorkerOK(wk'[w])
    <3>1. CASE Stop
      BY <3>1 DEF Stop, TypeInv, TypeOK, PoolTypeOK, Shape, WorkerStates
    <3>2. CASE Restart
      BY <3>2, <1>a DEF Restart
    <3> QED
      BY <1>17, <3>1, <3>2
  <2>3. Shape'
    BY <2>2 DEF TypeInv, Shape, apiVars
  <2> QED
    BY <2>0, <2>1, <2>2, <2>3 DEF TypeInv, TypeOK, ApiTypeOK, PoolTypeOK, apiVars, WorkerStates
<1> QED
  BY <1>1, <1>2, <1>3, <1>4, <1>5, <1>6, <1>7, <1>8, <1>9, <1>10, <1>11, <1>12,
     <1>13, <1>14, <1>15, <1>16, <1>17 DEF PoolNext, WorkerStep

\* TypeInv is inductive: the two halves of Next together.
LEMMA TypeNext == TypeInv /\ [Next]_vars => TypeInv'
<1>1. TypeInv /\ UNCHANGED vars => TypeInv'
  BY DEF vars, tables, apiVars, poolVars, TypeInv, TypeOK, DataTypeOK, ApiTypeOK,
         PoolTypeOK, Shape
<1> QED
  BY <1>1, ApiTypes, PoolTypes DEF Next

(* TypeOK: every variable of the service stays in its type, whatever         *)
(* handlers, workers, failures and crashes do.                               *)
THEOREM TypeCorrect == Spec => []TypeOK
<1>1. TypeInv => TypeOK
  BY DEF TypeInv
<1> QED
  BY <1>1, TypeInit, TypeNext, PTL DEF Spec
=============================================================================
