----------------------------- MODULE FileAccess -----------------------------
(***************************************************************************)
(* Who is shown which file, and downloads: getFile, getTrashFile, getMedia,*)
(* listFiles, listTrash, listMedia, createDownload and streamDownload,     *)
(* statement by statement.  The row, its object, the grants on its storage *)
(* and the storage's type change between two statements of a request: what *)
(* the changing handlers do to them is one UPDATE, DELETE or call each.    *)
(***************************************************************************)
EXTENDS Naturals, FiniteSets

CONSTANTS
    Reqs,          \* requests in flight at once
    Users, Admins, \* local users, and those with is_admin
    Uploaders,     \* users that own files
    NoOne,         \* owner_id NULL: the owner's row was deleted
    SystemOf,      \* core_customuser.system_name
    Files,
    Settled,       \* bound: public files that nobody changes or asks for, except that
                   \* a raw URL may name one with the download of another file
    Downloads,     \* ids uuid.New draws for downloads; their number bounds them
    NoDownload,
    AbsoluteBase,  \* APP_PUBLIC_BASE_URL begins with http:// or https://
    MaxChanges     \* bound: changes of rows, grants and storage type

ASSUME AccessAssumption ==
    /\ Users # {} /\ Files # {}
    /\ Admins \subseteq Users /\ Uploaders \subseteq Users /\ NoOne \notin Users
    /\ NoDownload \notin Downloads /\ Settled \subseteq Files
    /\ DOMAIN SystemOf = Users /\ \A u \in Users : SystemOf[u] # NoOne
    /\ AbsoluteBase \in BOOLEAN /\ MaxChanges \in Nat

VARIABLES
    row,      \* core_storagefile: state, visibility and owner of each file
    readers,  \* core_storageuser: the users with may_read, admins aside
    kind,     \* core_storage.type
    blob,     \* of each file: its upload, the type of storage that it read, its object there
    dls,      \* core_storagefiledownload
    areq,     \* each request
    changes   \* how much of the bound is used up

accessVars == <<row, readers, kind, blob, dls, areq, changes>>

Subjects == Users \ Admins  \* an admin's grant decides nothing
Visibilities == {"PUBLIC", "USER", "SYSTEM"}
Rows == [state : {"live", "trash", "gone"}, vis : Visibilities, owner : Uploaders \cup {NoOne}]
Kinds == {"LOCAL", "AMAZON_S3"}
Urls == {"NULL", "raw", "absolute raw", "presigned"}

(* An upload whose row is inserted: "open" until the handler rolls it back   *)
(* ("over") or has the reply to its publish ("done").  "no path": a row the  *)
(* predecessor left without real_path, which no handler writes later.        *)
Uploads == {"no path", "open", "over", "done"}
Blobs == [upload : Uploads, store : Kinds, object : {"none", "part", "whole"}]

Records == [f : Files \cup {NoDownload}, owner : Users \cup {NoOne}, url : Urls,
            expired : BOOLEAN, retyped : BOOLEAN, lost : BOOLEAN]
NoRecord == [f |-> NoDownload, owner |-> NoOne, url |-> "NULL", expired |-> TRUE,
             retyped |-> FALSE, lost |-> FALSE]

Gets == {"get", "getMedia", "create", "stream"}
Lists == {"list", "listMedia"}
Waiting == {"idle", "done"}

Steps == Waiting \cup {"lookup", "join", "load", "grant", "verdict", "gate", "listGrant",
                       "rows", "reload", "insert", "urlStorage", "url", "storage", "send"}

(* Answers: the file, 404 or 403 or its absence from a list, 500, 201; and   *)
(* of the raw route the bytes or part of them, a redirect, 404 for want of   *)
(* real_path, and FileAttachment of what is not there, or of a URL.          *)
Results == {"none", "shown", "hidden", "error", "created", "served", "partial", "redirect",
            "loop", "no path", "missing", "broken"}

(* History: no call failed; one did; the SELECT of a system_name did, whose  *)
(* error fileVisible drops.                                                  *)
Failures == {"no", "yes", "blind"}

(* History: what was odd of the row that a request read.  "orphan": a list   *)
(* read it as SYSTEM's, of no owner.  "bare": the raw route read it with its *)
(* upload not answered 201, or of another type of storage than the one now.  *)
Oddities == {"no", "orphan", "bare"}

AccessTypeOK ==
    /\ row \in [Files -> Rows]
    /\ readers \in SUBSET Subjects
    /\ kind \in Kinds
    /\ blob \in [Files -> Blobs]
    /\ dls \in [Downloads -> Records]
    /\ areq \in [Reqs -> [op : Gets \cup Lists, u : Users, f : Files,
                          d : Downloads \cup {NoDownload}, of : {"live", "trash"},
                          pc : Steps, copy : Rows, mayRead : BOOLEAN, kind : Kinds,
                          could : BOOLEAN, raced : BOOLEAN, failed : Failures,
                          odd : Oddities, dl : Records, result : Results]]
    /\ changes \in 0..MaxChanges

Fresh == [state |-> "gone", vis |-> "USER", owner |-> NoOne]
Asked(op, u, f, d, of, step) ==
    [op |-> op, u |-> u, f |-> f, d |-> d, of |-> of, pc |-> step, copy |-> Fresh,
     mayRead |-> FALSE, kind |-> "LOCAL", could |-> FALSE, raced |-> FALSE,
     failed |-> "no", odd |-> "no", dl |-> NoRecord, result |-> "none"]

Idle ==
    LET nobody == CHOOSE u \in Users : TRUE
        nothing == CHOOSE f \in Files : TRUE
    IN Asked("get", nobody, nothing, NoDownload, "live", "idle")

AccessInit ==
    /\ row \in [Files -> [state : {"live"}, vis : Visibilities, owner : Uploaders \cup {NoOne}]]
    /\ \A f \in Settled : row[f].vis = "PUBLIC" /\ row[f].owner = NoOne
    /\ readers \in SUBSET Subjects
    /\ kind \in Kinds
    /\ \E ups \in [Files -> Uploads \ {"over"}] :
          /\ \A f \in Settled : ups[f] = "done"
          /\ blob = [f \in Files |->
                       [upload |-> ups[f], store |-> kind,
                        object |-> IF ups[f] = "done" THEN "whole" ELSE "none"]]
    /\ dls = [d \in Downloads |-> NoRecord]
    /\ areq = [r \in Reqs |-> Idle]
    /\ changes \in 0..MaxChanges

On(r, step) == areq[r].pc = step
Ended(r) == areq[r].pc \in Waiting
IsAdmin(r) == areq[r].u \in Admins

(* The reference: who may see a file as it stands.  A file of visibility     *)
(* SYSTEM is for the users of the other systems.                             *)
MaySee(u, f, state) ==
    /\ row[f].state = state
    /\ \/ u \in Admins
       \/ /\ u \in readers
          /\ \/ row[f].vis = "PUBLIC"
             \/ row[f].vis = "USER" /\ row[f].owner = u
             \/ /\ row[f].vis = "SYSTEM" /\ row[f].owner # NoOne
                /\ SystemOf[row[f].owner] # SystemOf[u]

CouldNow(r) == MaySee(areq[r].u, areq[r].f, areq[r].of)

(* A statement of r that reads only: r goes on as q. *)
Reads(r, q) ==
    /\ areq' = [areq EXCEPT ![r] = q]
    /\ UNCHANGED <<row, readers, kind, blob, dls, changes>>

Goto(r, step) == [areq[r] EXCEPT !.pc = step]

(* r is answered; what it has read is forgotten. *)
Answered(r, res) ==
    [areq[r] EXCEPT !.pc = "done", !.result = res, !.copy = Fresh, !.mayRead = FALSE,
                    !.kind = "LOCAL"]
AnsweredNow(r, res) == [Answered(r, res) EXCEPT !.could = CouldNow(r)]
Refused(r, res) == [Answered(r, res) EXCEPT !.failed = "yes"]

-----------------------------------------------------------------------------
(* Requests. *)

Ask(r, u, f) ==
    /\ On(r, "idle")
    /\ \E first \in {<<"get", "load">>, <<"list", "listGrant">>, <<"getMedia", "join">>,
                    <<"listMedia", "gate">>, <<"create", "load">>} :
          Reads(r, Asked(first[1], u, f, NoDownload, "live", first[2]))

(* getTrashFile and listTrash. *)
AskTrash(r, u, f) ==
    /\ On(r, "idle")
    /\ \E first \in {<<"get", "load">>, <<"list", "listGrant">>} :
          Reads(r, Asked(first[1], u, f, NoDownload, "trash", first[2]))

(* The client learnt d from the answer to createDownload. *)
AskRaw(r, u, f, d) ==
    /\ On(r, "idle")
    /\ dls[d].url # "NULL" \/ dls[d].lost
    /\ Reads(r, Asked("stream", u, f, d, "live", "lookup"))

(* The answer is read, and the next request comes. *)
Deliver(r) == On(r, "done") /\ Reads(r, Idle)

-----------------------------------------------------------------------------
(* GetFile and GetStorageMedia. *)

(* GetStorageMedia's first SELECT: the media row of a file that is not trashed. *)
Join(r) ==
    /\ On(r, "join")
    /\ \/ row[areq[r].f].state = "live" /\ Reads(r, Goto(r, "load"))
       \/ row[areq[r].f].state # "live" /\ Reads(r, AnsweredNow(r, "hidden"))
       \/ Reads(r, Refused(r, "error"))

(* The upload was answered 201, and the storage is of the type it read. *)
Uploaded(f) == blob[f].upload = "done" /\ blob[f].store = kind

(* loadFileRow. *)
Load(r) ==
    /\ On(r, "load")
    /\ \/ /\ row[areq[r].f].state = areq[r].of
          /\ Reads(r, [Goto(r, "grant") EXCEPT
                          !.copy = row[areq[r].f], !.could = CouldNow(r),
                          !.odd = IF areq[r].op = "stream" /\ ~Uploaded(areq[r].f)
                                  THEN "bare" ELSE "no"])
       \/ row[areq[r].f].state # areq[r].of /\ Reads(r, AnsweredNow(r, "hidden"))
       \/ Reads(r, Refused(r, "error"))

(* fileVisible: StorageUserMayRead, whose error counts as no. *)
Grant(r) ==
    /\ On(r, "grant")
    /\ IF IsAdmin(r) \/ areq[r].u \in readers
       THEN \/ Reads(r, Goto(r, "verdict"))
            \/ ~IsAdmin(r) /\ Reads(r, Refused(r, "hidden"))
       ELSE Reads(r, Answered(r, "hidden"))

(* fileVisible's switch; a system_name whose SELECT failed is "". *)
Visible(u, f, noViewer, noOwner) ==
    \/ u \in Admins
    \/ f.vis = "PUBLIC"
    \/ f.vis = "USER" /\ f.owner = u
    \/ /\ f.vis = "SYSTEM" /\ f.owner # NoOne
       /\ IF noViewer \/ noOwner THEN noViewer # noOwner ELSE SystemOf[u] # SystemOf[f.owner]

(* What the handler does with a file that is visible. *)
Found(r) ==
    CASE areq[r].op \in {"get", "getMedia"} -> Answered(r, "shown")
      [] areq[r].op = "create" -> Goto(r, "insert")
      [] areq[r].op = "stream" ->
            IF areq[r].dl.f = areq[r].f THEN Goto(r, "storage") ELSE Answered(r, "hidden")

Verdict(r) ==
    /\ On(r, "verdict")
    /\ \E noViewer, noOwner \in BOOLEAN :
          LET selects == ~IsAdmin(r) /\ areq[r].copy.vis = "SYSTEM"
              next == IF Visible(areq[r].u, areq[r].copy, noViewer, noOwner)
                      THEN Found(r) ELSE Answered(r, "hidden")
          IN /\ (noViewer \/ noOwner) => selects
             /\ Reads(r, [next EXCEPT !.failed = IF noViewer \/ noOwner THEN "blind" ELSE @])

-----------------------------------------------------------------------------
(* ListFiles and ListStorageMedia: is the file in the answer?                *)

(* listMedia asks for the grant once more than listFiles does. *)
Gate(r) ==
    /\ On(r, "gate")
    /\ IF IsAdmin(r) \/ areq[r].u \in readers
       THEN Reads(r, Goto(r, "listGrant")) \/ (~IsAdmin(r) /\ Reads(r, Refused(r, "hidden")))
       ELSE Reads(r, AnsweredNow(r, "hidden"))

(* StorageUserMayRead: ListStorageMedia returns its error, ListFiles drops it. *)
ListGrant(r) ==
    /\ On(r, "listGrant")
    /\ \/ Reads(r, [Goto(r, "rows") EXCEPT !.mayRead = areq[r].u \in readers])
       \/ areq[r].op = "listMedia" /\ Reads(r, Refused(r, "error"))
       \/ areq[r].op = "list" /\ Reads(r, [Goto(r, "rows") EXCEPT !.failed = "yes"])

(* o.system_name of the LEFT JOIN, NULL of a file without an owner. *)
OwnerSystem(f) == IF f.owner = NoOne THEN NoOne ELSE SystemOf[f.owner]

(* Mutant: the clause compares the system names for equality. *)
VisClause_SameSystem(u, f, mayRead) ==
    \/ u \in Admins
    \/ /\ mayRead
       /\ \/ f.vis = "PUBLIC"
          \/ f.vis = "SYSTEM" /\ OwnerSystem(f) = SystemOf[u]
          \/ f.vis = "USER" /\ f.owner = u

(* The WHERE clause; IS DISTINCT FROM holds of a file without an owner. *)
VisClause(u, f, mayRead) ==
    \/ u \in Admins
    \/ /\ mayRead
       /\ \/ f.vis = "PUBLIC"
          \/ f.vis = "SYSTEM" /\ OwnerSystem(f) # SystemOf[u]
          \/ f.vis = "USER" /\ f.owner = u

(* excluded and the clause; for media the JOIN with the file as well. *)
Listed(r) ==
    /\ row[areq[r].f].state = areq[r].of
    /\ VisClause(areq[r].u, row[areq[r].f], areq[r].mayRead)

ListRows(r) ==
    /\ On(r, "rows")
    /\ LET file == row[areq[r].f]
           odd == IF file.vis = "SYSTEM" /\ file.owner = NoOne THEN "orphan" ELSE "no"
       IN \/ Reads(r, Refused(r, "error"))
          \/ ~Listed(r) /\ Reads(r, AnsweredNow(r, "hidden"))
          \/ /\ Listed(r) /\ areq[r].op = "list"
             /\ Reads(r, [AnsweredNow(r, "shown") EXCEPT !.odd = odd])
          \/ /\ Listed(r) /\ areq[r].op = "listMedia"
             /\ Reads(r, [Goto(r, "reload") EXCEPT !.odd = odd])

(* ListStorageMedia loads the file of each row again, and skips it on an error. *)
Reload(r) ==
    /\ On(r, "reload")
    /\ \/ Reads(r, Refused(r, "hidden"))
       \/ Reads(r, AnsweredNow(r, IF row[areq[r].f].state = "live" THEN "shown" ELSE "hidden"))

-----------------------------------------------------------------------------
(* createDownload. *)

(* Ids not drawn yet, nor held by a request. *)
FreeDownloads ==
    {d \in Downloads : dls[d] = NoRecord /\ \A q \in Reqs : areq[q].d # d \/ Ended(q)}

(* InsertDownload: its foreign key refuses a file that is gone. *)
InsertDownload(r) ==
    /\ On(r, "insert")
    /\ \/ /\ row[areq[r].f].state # "gone"
          /\ \E d \in FreeDownloads :
                /\ dls' = [dls EXCEPT ![d] = [NoRecord EXCEPT
                               !.f = areq[r].f, !.owner = areq[r].u, !.expired = FALSE]]
                /\ areq' = [areq EXCEPT ![r] = [Goto(r, "urlStorage") EXCEPT !.d = d]]
          /\ UNCHANGED <<row, readers, kind, blob, changes>>
       \/ Reads(r, Refused(r, "error"))

(* GetStorage and, from its type, the URL; presigning may fail. *)
UrlStorage(r) ==
    /\ On(r, "urlStorage")
    /\ \/ Reads(r, [Goto(r, "url") EXCEPT !.kind = kind])
       \/ Reads(r, Refused(r, "error"))

UrlFor(k) ==
    IF k = "AMAZON_S3" THEN "presigned" ELSE IF AbsoluteBase THEN "absolute raw" ELSE "raw"

(* UpdateDownloadURL: 201 with the URL, also when the row does not get it. *)
WriteUrl(r) ==
    /\ On(r, "url")
    /\ LET d == areq[r].d IN
       IF dls[d] = NoRecord THEN UNCHANGED dls
       ELSE \/ dls' = [dls EXCEPT ![d].url = UrlFor(areq[r].kind)]
            \/ dls' = [dls EXCEPT ![d].lost = TRUE]
    /\ areq' = [areq EXCEPT ![r] = Answered(r, "created")]
    /\ UNCHANGED <<row, readers, kind, blob, changes>>

-----------------------------------------------------------------------------
(* streamDownload, the raw route. *)

(* Mutant: the SELECT does not ask for the owner. *)
Valid_AnyOwner(d, u) == dls[d] # NoRecord /\ ~dls[d].expired

Valid(d, u) == dls[d] # NoRecord /\ dls[d].owner = u /\ ~dls[d].expired

(* GetValidDownload; every error is 404. *)
Lookup(r) ==
    /\ On(r, "lookup")
    /\ LET seen == [areq EXCEPT ![r].dl = dls[areq[r].d]][r] IN
       \/ /\ Valid(areq[r].d, areq[r].u)
          /\ Reads(r, [seen EXCEPT !.pc = "load"])
       \/ /\ ~Valid(areq[r].d, areq[r].u)
          /\ Reads(r, [Answered(r, "hidden") EXCEPT !.dl = dls[areq[r].d]])
       \/ Reads(r, Refused(r, "hidden"))

RawStorage(r) ==
    /\ On(r, "storage")
    /\ \/ Reads(r, [Goto(r, "send") EXCEPT !.kind = kind])
       \/ Reads(r, Refused(r, "error"))

(* redirectIfExternalDownloadURL: with a scheme. *)
External(url) == url \in {"presigned", "absolute raw"}

(* FileAttachment of a local path: what is in the file now, if there is one. *)
Attached(f) ==
    CASE blob[f].store # "LOCAL" \/ blob[f].object = "none" -> "missing"
      [] blob[f].store = "LOCAL" /\ blob[f].object = "part" -> "partial"
      [] blob[f].store = "LOCAL" /\ blob[f].object = "whole" -> "served"

(* A redirect, else 404 without real_path, else FileAttachment of what       *)
(* DownloadURL of the storage's backend answers: a path, or of AMAZON_S3 a   *)
(* URL, unless the credentials make no backend or presigning fails.  Nothing *)
(* looks at the row's status.                                                *)
Send(r) ==
    /\ On(r, "send")
    /\ LET url == areq[r].dl.url
           noPath == blob[areq[r].f].upload = "no path"
       IN IF External(url)
          THEN Reads(r, Answered(r, IF url = "presigned" THEN "redirect" ELSE "loop"))
          ELSE \/ noPath /\ Reads(r, Answered(r, "no path"))
               \/ /\ ~noPath /\ areq[r].kind = "LOCAL"
                  /\ Reads(r, Answered(r, Attached(areq[r].f)))
               \/ /\ ~noPath /\ areq[r].kind = "AMAZON_S3"
                  /\ Reads(r, Answered(r, "broken")) \/ Reads(r, Refused(r, "error"))

-----------------------------------------------------------------------------
(* What other requests change meanwhile. *)

Change == changes < MaxChanges /\ changes' = changes + 1

(* History: the requests of "between" see a change between two of their reads. *)
Race(between) ==
    areq' = [r \in Reqs |-> IF r \in between THEN [areq[r] EXCEPT !.raced = TRUE] ELSE areq[r]]

(* UpdateFileMeta of a new visibility. *)
ChangeVisibility(f, v) ==
    /\ Change
    /\ row[f].state = "live" /\ row[f].vis # v
    /\ row' = [row EXCEPT ![f].vis = v]
    /\ Race({r \in Reqs : areq[r].f = f /\ On(r, "reload")})
    /\ UNCHANGED <<readers, kind, blob, dls>>

(* SetFileExcluded. *)
Trash(f) ==
    /\ Change
    /\ row[f].state = "live"
    /\ row' = [row EXCEPT ![f].state = "trash"]
    /\ UNCHANGED <<readers, kind, blob, dls, areq>>

(* A deleted row takes the downloads of the file with it. *)
DeleteRow(f) ==
    /\ row' = [row EXCEPT ![f] = Fresh]
    /\ dls' = [d \in Downloads |-> IF dls[d].f = f THEN NoRecord ELSE dls[d]]
    /\ UNCHANGED <<readers, kind, blob, areq>>

(* permaDelete deletes the object, if it can, and then the row: two steps. *)
PurgeObject(f) ==
    /\ row[f].state = "trash" /\ blob[f].object # "none"
    /\ blob' = [blob EXCEPT ![f].object = "none"]
    /\ UNCHANGED <<row, readers, kind, dls, areq, changes>>

Purge(f) ==
    /\ Change
    /\ row[f].state = "trash"
    /\ DeleteRow(f)

(* Mutant: the upload is answered 201 before its object is put. *)
PublishUpload_Early(f) ==
    /\ blob[f].upload = "open" /\ row[f].state # "gone"
    /\ blob' = [blob EXCEPT ![f].upload = "done"]
    /\ UNCHANGED <<row, readers, kind, dls, areq, changes>>

(* The upload's Put: a local file is there before its last byte is. *)
Put(f) ==
    /\ blob[f].upload = "open" /\ blob[f].object # "whole"
    /\ blob' = [blob EXCEPT ![f].object =
                   IF @ = "none" /\ blob[f].store = "LOCAL" THEN "part" ELSE "whole"]
    /\ UNCHANGED <<row, readers, kind, dls, areq, changes>>

(* UpdateFileStatus, the reply included. *)
PublishUpload(f) ==
    /\ blob[f].upload = "open" /\ blob[f].object = "whole" /\ row[f].state # "gone"
    /\ blob' = [blob EXCEPT ![f].upload = "done"]
    /\ UNCHANGED <<row, readers, kind, dls, areq, changes>>

(* The rollback after a failed put or publish, also one whose reply is lost: *)
(* the object, and then the row if it is UPLOADING.  Either call may fail.   *)
(* Where the row has been published all the same, the model may delete it.   *)
Rollback(f) ==
    /\ blob[f].upload = "open"
    /\ \E object \in {"none", blob[f].object} :
          blob' = [blob EXCEPT ![f].upload = "over", ![f].object = object]
    /\ UNCHANGED <<row, readers, kind, dls, areq, changes>>

RollbackRow(f) ==
    /\ blob[f].upload = "over" /\ row[f].state # "gone"
    /\ DeleteRow(f) /\ UNCHANGED changes

(* InsertStorageUser, UpdateStorageUser and DeleteStorageUser. *)
ChangeGrant(u) ==
    /\ Change
    /\ readers' = IF u \in readers THEN readers \ {u} ELSE readers \cup {u}
    /\ Race({r \in Reqs : areq[r].u = u /\ areq[r].pc \in {"grant", "rows", "reload"}})
    /\ UNCHANGED <<row, kind, blob, dls>>

(* UpdateStorage of a new type; the URLs there are, or being written, are of *)
(* the old one.                                                              *)
ChangeType ==
    /\ Change
    /\ \E k \in Kinds \ {kind} : kind' = k
    /\ dls' = [d \in Downloads |->
                  IF dls[d] = NoRecord \/ \E r \in Reqs : On(r, "urlStorage") /\ areq[r].d = d
                  THEN dls[d] ELSE [dls[d] EXCEPT !.retyped = TRUE]]
    /\ areq' = [r \in Reqs |->
                  IF On(r, "storage") \/ On(r, "load") \/ On(r, "grant") \/ On(r, "verdict")
                  THEN [areq[r] EXCEPT !.dl.retyped = (areq[r].op = "stream")] ELSE areq[r]]
    /\ UNCHANGED <<row, readers, blob>>

(* Time passes expires_at. *)
Expire(d) ==
    /\ dls[d] # NoRecord /\ ~dls[d].expired
    /\ dls' = [dls EXCEPT ![d].expired = TRUE]
    /\ UNCHANGED <<row, readers, kind, blob, areq, changes>>

AccessStep(r) ==
    \/ Join(r) \/ Load(r) \/ Grant(r) \/ Verdict(r)
    \/ Gate(r) \/ ListGrant(r) \/ ListRows(r) \/ Reload(r)
    \/ InsertDownload(r) \/ UrlStorage(r) \/ WriteUrl(r)
    \/ Lookup(r) \/ RawStorage(r) \/ Send(r)

AccessNext ==
    \/ \E r \in Reqs :
          \/ AccessStep(r) \/ Deliver(r)
          \/ \E u \in Users :
                \/ \E f \in Files \ Settled : Ask(r, u, f) \/ AskTrash(r, u, f)
                \/ \E f \in Files, d \in Downloads : AskRaw(r, u, f, d)
    \/ \E f \in Files \ Settled :
          \/ Put(f) \/ PublishUpload(f) \/ Rollback(f) \/ RollbackRow(f)
          \/ Trash(f) \/ PurgeObject(f) \/ Purge(f)
          \/ \E v \in Visibilities : ChangeVisibility(f, v)
    \/ \E u \in Subjects : ChangeGrant(u)
    \/ ChangeType
    \/ \E d \in Downloads : Expire(d)

AccessSpec == AccessInit /\ [][AccessNext]_accessVars

-----------------------------------------------------------------------------
Done(r) == On(r, "done")

(* GetFile, GetStorageMedia, ListFiles, ListStorageMedia and createDownload  *)
(* decide alike and right, each by statements of its own: a file is shown    *)
(* (or a download of it created) iff the user could see it when its row was  *)
(* read, unless a grant or, for the media list, the row changed between two  *)
(* reads.  A failed call never shows more, except the SELECT of a            *)
(* system_name; only lists show a SYSTEM file whose owner is gone.           *)
AnswersMatchVisibility ==
    \A r \in Reqs :
        Done(r) /\ areq[r].op # "stream" /\ ~areq[r].raced =>
            /\ areq[r].could /\ areq[r].failed = "no" => areq[r].result \in {"shown", "created"}
            /\ areq[r].result \in {"shown", "created"} =>
                  \/ areq[r].could
                  \/ areq[r].failed = "blind"
                  \/ areq[r].op \in Lists /\ areq[r].odd = "orphan"

(* What the raw route answers of a file it found. *)
Sent == {"served", "partial", "redirect", "loop", "no path", "missing", "broken"}

(* The raw route answers only the owner of the download, with the file of    *)
(* that download, which its owner could see then.                            *)
StreamServesItsDownload ==
    \A r \in Reqs :
        Done(r) /\ areq[r].result \in Sent =>
            /\ areq[r].dl.owner = areq[r].u /\ areq[r].dl.f = areq[r].f
            /\ areq[r].could \/ areq[r].raced \/ areq[r].failed = "blind"

(* An answered download works until it expires: the raw route serves the     *)
(* whole file or redirects to the store, unless the user may not see the     *)
(* file any more, a call fails, the URL never reached the row, the storage   *)
(* changed its type since, or the base URL makes the route redirect to       *)
(* itself.  And part of a file or none is served only if its upload is not   *)
(* answered, was before the storage changed its type, or left no path, when  *)
(* the row is read, and if the file is trashed while the route is under way. *)
DownloadsWork ==
    \A r \in Reqs :
        LET dl == areq[r].dl IN
        /\ Done(r) /\ areq[r].op = "stream" /\ areq[r].failed = "no" /\ ~areq[r].raced
        /\ dl.f = areq[r].f /\ dl.owner = areq[r].u /\ ~dl.expired
        =>  \/ areq[r].result \in {"served", "redirect"}
            \/ ~areq[r].could
            \/ areq[r].result = "broken" /\ (dl.retyped \/ dl.lost)
            \/ areq[r].result = "loop" /\ AbsoluteBase
            \/ /\ areq[r].result \in {"partial", "no path", "missing"}
               /\ areq[r].odd = "bare" \/ dl.retyped \/ row[areq[r].f].state # "live"

-----------------------------------------------------------------------------
(* What a comment says, and the code does not do.                            *)

(* router.go: "streamDownload serves local files for a valid download row".  *)
LocalDownloadIsServed == \A r \in Reqs : Done(r) => areq[r].result # "loop"
=============================================================================
