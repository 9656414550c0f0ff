----------------------------- MODULE FileMgrInv -----------------------------
(***************************************************************************)
(* The inductive invariant of FileMgr: what is true between any two steps  *)
(* of handlers and workers, and strong enough to be preserved by each.     *)
(***************************************************************************)
EXTENDS FileMgr

UploadSteps == {"insert", "put", "publish", "rbBlob", "rbRow"}
EnqueueSteps == {"reload", "exists", "enqueue"}
PermaSteps == {"permaStorage", "permaBlob", "permaRow"}
NoJobSteps == {"exit", "loop", "claim"}

(* A handler is idle, or it runs the steps of its operation on a file. *)
HandlerOK(h) ==
    \/ h = Idle
    \/ h.op = "upload" /\ h.pc \in UploadSteps \cup EnqueueSteps /\ h.f \in Uploads
    \/ h.op = "patch" /\ h.pc \in {"patchMeta"} \cup EnqueueSteps /\ h.f \in Files
    \/ h.op = "soft" /\ h.pc = "softSet" /\ h.f \in Files
    \/ h.op = "perma" /\ h.pc \in PermaSteps /\ h.f \in Files

(* A worker has a file exactly while it has a job. *)
WorkerOK(k) ==
    \/ k.f = NoFile /\ k.pc \in NoJobSteps
    \/ k.f \in Files /\ k.pc \notin NoJobSteps

Shape ==
    /\ \A r \in Reqs : HandlerOK(rq[r])
    /\ \A w \in Workers : WorkerOK(wk[w])

TypeInv == TypeOK /\ Shape

-----------------------------------------------------------------------------
Flawed(f, points) == \E p \in points : <<f, p>> \in flaw

(* Files a worker took for files of no media category. *)
Untyped == {f \in Files : <<f, "untyped">> \in flaw}

(* The live row of f has its bytes. *)
Stored(f) == Loads(f, FALSE) => f \in blob

(* Rows: what refers to a row goes with it. *)
RowsInv ==
    \A f \in Files :
        /\ Exists(f) => f \in born /\ storage
        /\ ~Exists(f) => ~HasJob(f) /\ f \notin media
        /\ HasJob(f) => file[f].status = "PUBLISHED" /\ Kind[f] # "NONE"

(* An id belongs to one upload. *)
OwnInv ==
    /\ \A r \in Reqs : rq[r].op = "upload" => up[File(r)] = "open"
    /\ \A q, r \in Reqs :
          q # r /\ rq[q].op = "upload" /\ rq[r].op = "upload" => File(q) # File(r)
    /\ \A f \in Uploads : up[f] = "unused" => f \notin born /\ f \notin blob

(* What a handler knows of its file at each step. *)
HandlerInv ==
    \A r \in Reqs :
        LET f == File(r) IN
        /\ At(r, "insert") => f \notin born /\ f \notin blob
        /\ ~At(r, "idle") /\ ~At(r, "insert") => f \in born
        /\ rq[r].pc \in {"put", "publish"} => file[f].status # "PUBLISHED"
        /\ At(r, "publish") => Stored(f)
        /\ rq[r].pc \in {"rbBlob", "rbRow"} =>
              file[f].status # "PUBLISHED" \/ Flawed(f, {"publishReply"})
        /\ At(r, "rbRow") => f \notin blob \/ Flawed(f, {"rbBlob"})
        /\ rq[r].pc \in EnqueueSteps /\ rq[r].op = "upload" =>
              Stored(f) /\ file[f].status # "UPLOADING"
        /\ rq[r].pc \in {"exists", "enqueue"} =>
              file[f].status # "UPLOADING" /\ Kind[f] # "NONE"
        /\ rq[r].pc \in PermaSteps => ~Loads(f, FALSE)

(* What an upload's answer says of its file from then on. *)
CreatedInv ==
    \A f \in Uploads :
        up[f] = "created" => Stored(f) /\ file[f].status # "UPLOADING"

JobbedInv ==
    \A f \in Uploads :
        up[f] = "created" /\ Exists(f) /\ Kind[f] # "NONE"
              => HasJob(f) \/ Flawed(f, {"enqueue"})

FailedInv ==
    \A f \in Uploads :
        up[f] = "failed" =>
            \/ ~Exists(f) /\ f \notin blob
            \/ Flawed(f, {"insertReply", "publishReply", "rbBlob", "rbRow"})

(* The upload of f has seen its live row. *)
Landed(f) ==
    \/ up[f] = "created"
    \/ \E r \in Reqs : rq[r].op = "upload" /\ File(r) = f /\ rq[r].pc \in {"exists", "enqueue"}

(* A landed file loses its object before its row. *)
PurgeInv ==
    \A f \in Uploads :
        Landed(f) /\ storage /\ (~Exists(f) \/ \E r \in Reqs : At(r, "permaRow") /\ File(r) = f)
            => f \notin blob \/ Flawed(f, {"permaBlob"})

AuditInv ==
    \A f \in Files :
        /\ audit[f].soft <= 1 /\ audit[f].perma <= 1
        /\ audit[f].soft = 1 => f \in born /\ ~Loads(f, FALSE)
        /\ audit[f].perma = 1 => f \in born /\ ~Exists(f)

(* Jobs, and what they leave behind. *)
JobInv ==
    \A f \in Files :
        /\ job[f].attempts = IF job[f].status \in {"none", "pending"} THEN 0 ELSE 1
        /\ job[f].status = "done" => f \in media \cup Untyped
        /\ f \in media => HasJob(f) /\ Derive[f] \subseteq born

(* A job belongs to one worker. *)
ApartInv ==
    \A v, w \in Workers : v # w /\ JobFile(v) # NoFile => JobFile(v) # JobFile(w)

(* What a worker knows of its file at each step. *)
HeldInv ==
    \A w \in Workers :
        wk[w].pc \notin NoJobSteps =>
            /\ JobFile(w) \in born
            /\ job[JobFile(w)].status = "processing" \/ ~Exists(JobFile(w))
            /\ Is(w, "complete") => JobFile(w) \in media \cup Untyped \/ ~Exists(JobFile(w))
            /\ InTx(w) => JobFile(w) \in locked /\ Exists(JobFile(w))

(* The ids of derived files are fresh until the one commit that inserts them. *)
FreshInv ==
    /\ \A f \in Files :
          f \notin born \/ (Exists(f) /\ job[f].status \in {"none", "pending"})
              => Derive[f] \cap born = {}
    /\ \A w \in Workers :
          wk[w].pc \notin NoJobSteps \cup {"complete", "fail"}
              => Derive[JobFile(w)] \cap born = {}

(* Objects of derived files come before their rows. *)
DerivedInv ==
    /\ \A w \in Workers :
          /\ Is(w, "derive") => Derive[JobFile(w)] \ wk[w].todo \subseteq blob
          /\ Is(w, "commit") => Derive[JobFile(w)] \subseteq blob
    /\ \A d \in DerivedIds : Stored(d)

(* Each conjunct needs others to be preserved: the proofs say which. *)
IInv ==
    /\ TypeInv /\ RowsInv /\ OwnInv /\ HandlerInv
    /\ CreatedInv /\ JobbedInv /\ FailedInv /\ PurgeInv /\ AuditInv /\ JobInv /\ ApartInv
    /\ HeldInv
    /\ FreshInv /\ DerivedInv
=============================================================================
