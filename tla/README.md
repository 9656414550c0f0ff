# A verification project for userver-filemgr

TLA+ models of `userver-filemgr`, the TLC runs that check them and the TLAPS
proofs about them. Paths are relative to the repository; `router.go:787` stands
for `src/internal/http_api/router.go:787` and so on.

1. [Inventory](#1-inventory)
2. [Plan](#2-plan)
3. [The model and the code](#3-the-model-and-the-code)
4. [What the runs check](#4-what-the-runs-check)
5. [Fairness](#5-fairness)
6. [What is proved](#6-what-is-proved)
7. [Findings](#7-findings)
8. [What is not modelled](#8-what-is-not-modelled)
9. [Running it](#9-running-it)

## 1. Inventory

The service is one Go binary: a gin HTTP API over PostgreSQL and an object store
(local directory or S3), with media workers as goroutines of the same process.
Several replicas may run on one database.

| part | state it keeps | operations | where |
|---|---|---|---|
| data layer | `core_storage`, `core_storagefile`, `core_storagemedia*`, `media_processing_jobs`, `core_storagefiledownload`, `core_customuser`, `core_usertoken`, `core_storageuser` | one SQL statement per function, one transaction (media) | `internal/data`, `migrations` |
| object store | objects under a `real_path` | `Put`, `Open`, `Delete`, presign | `internal/object_store` |
| file handlers | nothing beyond the request | upload (multipart, from a URL), patch, soft delete, perma delete, storages, storage users, downloads, media, listings | `internal/http_api/router*.go` |
| media pool | `stop` channel, wait group | `Start`, `Stop`, `loop` | `internal/media_worker/pool.go` |
| media processor | an open transaction | `Process`, `processImage/Video/Document`, derived files | `internal/media_processor` |
| image resizer | none | `computeNewImageDimensions`, `sizeTagFromDimensions` | `image_resizer.go` |
| authentication | `core_customuser`, `core_usertoken` (a cache) | `Authenticate`, first login, caching | `internal/auth` |
| auth bootstrap | the `.env` file, the remote auth service | `phaseCreateSystem`, `phaseRegisterAdmin`, persistence | `internal/userver_auth` |
| rate limiter | one token bucket per client address | `get`, eviction | `middleware_ratelimit.go` |
| URL fetch | bytes read so far | capped reader, address checks, redirects | `internal/urlfetch` |
| process wiring | environment, connections | `serve`, `migrate`, signals | `cmd`, `lib` |

**How they interact.** A handler is a straight line of calls: an SQL statement,
an object-store call, an SQL statement. No transaction spans two of them, and no
lock is held between them, so every pair of calls may have calls of other
requests, of workers and of other replicas in between. Uploads and patches end by
writing a row to `media_processing_jobs`; workers poll that table, claim a row
(`FOR UPDATE SKIP LOCKED`), run the processor and write the result back. The
processor holds the only multi-statement transaction of the service; while it is
open it puts thumbnails into the object store, which is not transactional. File
rows disappear by three roads: the rollback of an upload, a perma delete, and the
cascade of a storage deletion.

**What is hard.** Handlers racing handlers (trash, purge and upload of the same
id), handlers racing workers, calls that fail or whose reply is lost (every
cleanup runs on the request's context, which is cancelled when the client goes
away), processes that die between two calls, jobs that nobody returns to the
queue, the blocking between a storage deletion and a media transaction, and the
shutdown of a pool that is busy. `PROJECT.json` lists every hazard at its line.

**What makes each part correct.**

- *Upload*: 201 means a published row and its bytes; a failure leaves neither.
- *Trash and purge*: they happen once, in this order, and are final; a purge takes
  the object before the row.
- *Queue*: every uploaded media file whose type could be read has a job; a job is
  handed out at most once and reaches an end.
- *Processor*: `done` means the media row exists, or that the file's type could not be
  read; derived files become visible together, with their bytes.
- *Pool*: a pending job is claimed; `Stop` returns.
- *Authentication*: one local user per name; a deactivated user stays out.
- *Bootstrap*: what the auth service handed out once is on disk; nothing the
  operator wrote is overwritten.
- *Visibility*: single files, lists and downloads decide alike who sees a file, from
  reads of one moment; a failing read never shows more.
- *Downloads*: the URL a client is given leads to bytes of that file; an expired one,
  or another user's, does not.
- *Settings*: a patch changes the columns it names and no other, and nothing of a row
  that is gone.
- *Lists*: a client that follows the links of pages sees each row once.
- *Rate limiter*: a client is allowed what a bucket of its own would allow; the table
  is bounded.
- *URL fetch*: only public addresses are connected to; what is published is the whole
  body.
- *Image resizer*: a copy is no larger than its image and keeps its proportions.

## 2. Plan

| # | module | what | state |
|---|---|---|---|
| 1 | `DataLayer` | statements and object-store calls, shared by all | done |
| 2 | `FileApi` | file handlers, one step per call | done |
| 3 | `MediaPool` | pool and processor, one step per call | done |
| 4 | `FileMgr`, `FileLife` | composition, properties, abstract life cycle | done |
| 5 | `FileMgrInv`, `FileMgrTypes`, `FileMgrEffects`, `FileMgrSafety` | inductive invariant, proofs, refinement | done |
| 6 | `AuthCache`, `AuthCacheProofs` | token cache, first-login race, reactivation, row locks; proofs | done |
| 7 | `EnvFile`, `Bootstrap`, `BootstrapProofs` | the env file as an algorithm; the two phases, crashes and edits around it; proofs | done |
| 8 | `FileAccess` | visibility in all reads; `createDownload`, `streamDownload`, expiry, raw redirects | done |
| 9 | `Settings`, `Paging` | read-modify-write of several columns; walks through lists | done |
| 10 | `RateLimiter`, `UrlFetch`, `ImageResizer` | small protocols and algorithms | done |
| 11 | `RequestsProofs` | proofs about `Settings`, `RateLimiter`, `UrlFetch`, `ImageResizer` | done |
| 12 | `AccessProofs` | proofs about `FileAccess` and `Paging` | done |
| 13 | `MCRequestsProofs` | what is proved of each part holds of `MCRequests` | done |

`FileMgr` composes `FileApi` and `MediaPool` over one `DataLayer`. The modules of
6-10 keep state of their own and do not compose with it: authentication and the rate
limiter end before a handler starts, bootstrap before the server does, and what
`FileAccess` and `Settings` need of a file's life (trashed, purged, published) is a
few atomic statements, which they repeat. `MCRequests` and `MCBootEnv` put several of
these modules into one run (section 4). The abstract specification is `FileLife`;
visibility has its reference in `FileAccess` (`MaySee`), and the limiter its ideal
bucket. Every safety property that a run checks is a theorem (section 6), but for
`ReadsBack` and `OtherLinesStay`, which are about recursions over text.

Runs are few on purpose: each asks one question, on the smallest instance that can
violate each of its properties (section 4 gives the bounds).

## 3. The model and the code

### DataLayer

One storage. A file row is `[status, excluded]` (`"none"` when there is no row),
a job is `[status, attempts, created_at]`, media rows and objects are sets of
ids. Each operator is one SQL statement with its `WHERE` clause, its conflict
clause and the cascades of `migrations/000001`/`000002`:

| operator | code |
|---|---|
| `InsertFile`, `PublishFile`, `ExcludeFile`, `PermaDeleteFile`, `DeleteFailedUploadingFile` | `files.go:199-362` |
| `DeleteStorageRow` | `storage.go:83` and every `ON DELETE CASCADE` |
| `EnqueueMediaProcessing`, `ClaimMediaJob`, `SettleMediaJob` | `media_jobs.go` |
| `InsertStorageMediaTx`, `CommitMediaTx`, `RollbackMediaTx` | `media.go`, `processor.go:179-201` |
| `PutObject`, `DeleteObject` | `object_store/factory.go`, `s3.go` |

- Ids are `uuid.New()`: never drawn twice. `born` remembers what was inserted.
- Columns no handler branches on (names, sizes, hashes) are abstracted away.
  `excluded` keeps its own column, apart from `status`, as in the schema.
- `locked` is the `FOR KEY SHARE` lock that inserting the media row takes on the
  file row until the transaction ends; a delete of the row waits for it.
- `flaw` is a history variable: it remembers, per file, the calls whose failure
  the code ignores, or answers without cleanup. Properties use it to say "unless
  the backend refused": what the code cannot do anything about is named, and
  everything else must hold. `MaxFlaws` bounds the failures in a behaviour.

### FileApi

`rq[r]` is a handler in flight: operation, next step, file. Every step is one call
and its outcome: applied and answered; refused; applied with the reply lost.

| operation | steps | code |
|---|---|---|
| `uploadMultipart`, `uploadFromURL` | `insert`, `put`, `publish`, `reload`, `exists`, `enqueue`; `rbBlob`, `rbRow` on failure | `router.go:746-865`, `router_stream_upload.go:85-145`, `router_upload_cleanup.go` |
| `patchFile` | `patchMeta`, `reload`, `exists`, `enqueue` | `router.go:372-408` |
| `deleteFile` | `softSet` (and the audit line) | `router.go:410-437` |
| `permaDelete` | `permaStorage`, `permaBlob`, `permaRow` | `router.go:471-509` |
| `deleteStorage` | one statement | `router.go:271-292` |

`RequestCrash` is the death of the process under the request. The handlers'
access checks are taken as passed; what they decide is in `FileAccess`. `up[f]` remembers
what an upload was told; `audit` counts audit lines. `MediaProcessingEnabled` is true (its
default). `Kind[f]` is what `MediaCategory` says of a file read *with* its mime type.
`GetFile` reads that type by a SELECT whose error `enrichFile` drops (`files.go:144-148`):
`Reload` may therefore answer 201 without looking for a job (flaw `enqueue`). It stands
too for an upload whose type `uploadMultipart` could not find out (`router.go:783`).

### MediaPool

`wk[w]` is a worker: next step, file of its job, derived files still to write.

| action | code |
|---|---|
| `WorkerPoll`, `WorkerExit`, `Claim`, `ClaimNothing`, `Settle` | `pool.go:63-117` (a panic of `Process` is an error of it) |
| `ProcessExists`, `ProcessLoad`, `ProcessStorage` | `processor.go:79-113` |
| `ProcessOpen`, `ProcessTx`, `ProcessDerive`, `ProcessDerived`, `ProcessCommit`, `ProcessAbort` | `processor.go:115-277`, `processor_image_tx.go` |
| `Stop`, `Restart`, `WorkerCrash`, `WorkerStart` | `pool.go:39-61`, `Register` |

`ProcessStorage` is the switch over `MediaCategory`. Its default branch, which returns
`nil` and so completes the job, is for files of no category and for one whose mime
SELECT failed in `GetFileForWorker` (flaw `untyped`): that job is `done` without media.

Workers may be of one process or of several replicas: they share only the
database. `MaxRestarts` bounds crashes and stops. A thumbnail is itself an image
file, but no thumbnails are derived from it in the model (the code does enqueue
one when somebody patches it, and that job is modelled; its own derived files
are left out: `Derive` of it is empty).

### FileMgr and FileLife

`FileMgr` interleaves the two over the shared tables and states the properties.
`FileLife` is what a user of one storage may rely on: a file is uploaded, becomes
live, is trashed, purged, and never takes a step back; derived files appear live,
all of one image at once. `Stage` maps a row to a stage, and `ImplementsFileLife`
says that every step of every handler and worker is a `FileLife` step or a
stutter.

### AuthCache

`auth.Service.Authenticate`. Committed rows are in `user` and `cached`; what an open
transaction has written is what its request remembers (`rq[r].uid`) until `Commit`,
since READ COMMITTED hides it from the others. `rowLock` and `tokLock` are the row
locks of PostgreSQL: an `UPDATE` of a row, or an upsert of a key, waits for the
transaction that has written it.

| action | code |
|---|---|
| `Lookup`, `Hit` | `service.go:38-79` (`expires_at > NOW()` is the `live` flag) |
| `ValidateBearer` | `client.go:54-91`; every error is `Unauthorized` |
| `SelectUser`, `InsertUser`, `UpdateUser` | `service_sync.go:13-47` |
| `CacheToken`, `Commit` | `service_sync.go:49-68`, `service.go:94-101` |
| `Fail` | every error return, with the deferred `tx.Rollback` |
| `Revoke`, `Expire`, `Deactivate` | external: the auth service, time, an operator |

`Commit` may answer "rejected": its reply can be lost after it was applied.
`is_admin` and the copied names are left out: nothing in `Authenticate` branches on
them. `doomed` is a history flag: when the request arrived nothing vouched for its
token. Two requests may start with one token, which is what a browser does.

### EnvFile and Bootstrap

`EnvFile` is `envpersist.go` as an algorithm. A file is a sequence of lines
`[key, raw]` (`raw` is what stands right of `=`), a value a sequence of characters.
`ParseEnvValue`/`FormatEnvValue` are the quoting, `FilterUpdatesSkipProtectedInFile`,
`MergeEnvLines`, `AppendMissingEnvKeys` and `UpsertEnvFile` the functions of the same
names. `SplitLines` has the one file whose text is the same as that of no line: a lone
empty line is dropped (`envpersist.go:202-206`), which `OtherLinesStay` allows for. TLC starts from every file and value of the bounds and takes `Persist` steps:
the run that fills the file, then later runs over what it left.

`Bootstrap` is `userver_auth.Run` around it, with the file abstracted to one value per
key (that `EnvFile` may be read this way is what its property `ReadsBack` says).

| action | code |
|---|---|
| `Start`, `NoAdmin`, `Registrable` | `run.go:13-61` |
| `CreateSystem`, `CreateSystemUntold` (a 201 without a token), `SystemExists`, `CreateFails` | `phaseCreateSystem`, `run_phases.go:14-67` |
| `RegisterAdmin`, `RegisterFails` | `phaseRegisterAdmin`, `persistAfterRegister`, `run_phases.go:69-117` |
| `PersistThen`, `Filter`, `Reread`, `PersistFails` | `persistBootstrapEnv`, `envpersist.go:197-246` |
| `OpenFile`, `WriteFile` | `os.WriteFile`, `envpersist.go:211`: truncate, then write |
| `Crash` | the container dies; `Start` is the next one |
| `Edit`, `Registered` | external: the operator, the auth service |

A run's environment is the file, which `entrypoint.sh` sources, or one of
`Environments` (variables set outside it). What the shell makes of a line it sources is
taken to be what `readLastEnvFileValues` makes of it: `Start` is the identity on values. One process runs at a time: the compose
file gives the container a fixed name. `own` is what the operator wrote last, `why`
what came between a value and its place in the file; the properties name the causes
they tolerate, and `left` bounds failures and edits.

### FileAccess

Who is shown which file. `row[f]` is a file (state, visibility, owner), `readers` the
users with `may_read`, `kind` the storage's type, `dls` the downloads. `blob[f]` is the
upload and the object of a file: whether the upload is still at work, rolled back or
answered (or, of a row that the predecessor of this service left, whether it lacks a
`real_path`), the type of storage it read, and how much of its object is there.
`areq[r]` is a request: its operation, its next statement, and what it has read so far
(`copy`, `mayRead`, `dl`).

| action | code |
|---|---|
| `Join`, `Load`, `Grant`, `Verdict` | `GetStorageMedia`, `loadFileRow`, `fileVisible`: `media.go:171-206`, `files.go:125-197` |
| `Gate`, `ListGrant`, `ListRows`, `Reload` | `ListFiles`, `ListStorageMedia`: `files.go:69-123`, `media.go:107-169` |
| `InsertDownload`, `UrlStorage`, `WriteUrl` | `createDownload`, `router.go:511-585` |
| `Lookup`, `RawStorage`, `Send` | `streamDownload`, `redirectIfExternalDownloadURL`: `router.go:587-616`, `router_stream_upload.go:36-65` |
| `ChangeVisibility`, `Trash`, `ChangeGrant`, `ChangeType`, `Expire` | one statement each of the handlers that change these rows; time |
| `PurgeObject`, `Purge` | `permaDelete`: the object, then the row with its downloads, `router.go:495-499` |
| `Put`, `PublishUpload`, `Rollback`, `RollbackRow` | an upload between its row and its answer, `router.go:799-825`, `router_upload_cleanup.go` |

`Send` answers what the code does: a redirect for a URL with a scheme, 404 without a
`real_path`, 500 when the storage's credentials make no backend or presigning fails, and
otherwise `FileAttachment`, which sends what is in the file at that moment: all of it,
the part an upload has put so far, or 404. `Attached` and `Put` are why: a local file is
there before its last byte is, and the raw route never looks at the row's status.

A list is modelled by whether it contains the file asked for. `could` and `raced` are
history: whether the reference `MaySee` held when the row was read, and whether a
grant (or, for the media list, the row) changed between two reads of the request.
`failed = "blind"` is the failure of a `SELECT system_name`, whose error `fileVisible`
drops.

### Settings

`patchFile`, `writeStorage` and `patchStorageUser` have one shape: read the row, put the
body's columns over it, write all columns, read again. `tab` says which table the
behaviour is about, `rec` is its row, `preq[r]` a request with the `copy` it read.

| action | code |
|---|---|
| `Check`, `LoadRow`, `WriteRow`, `ReloadRow` | `router.go:372-408`, `router.go:212-269`, `router.go:690-720`; `files.go:214-237`, `storage.go:45-81`, `storageuser.go:30-78` |
| `PublishRow`, `RemoveRow`, `InsertGrant` | the end of an upload; trash, purge, deletions; `createStorageUser` |

Of columns that are treated alike one stands for the others. `want` is what the last
request naming a column wrote, `lost` the columns a stale copy or the publishing upload
has overwritten.

### Paging

`ListFiles`, `ListStorageMedia`, `ListStorages` and `pageLinks` (`router.go:881-905`): the
COUNT, the SELECT with its limit and offset, the links, and a client that follows them
along `next` or `previous` while rows come and go. Rows of one stamp come in any order.
`walk.list` says which list it is, because two of them drop errors and answer 200 all the
same: `ListFiles` takes a failed read of the grant for no grant (`files.go:76`), so that
`Count` finds 0 rows and `SelectPage` shows none and ends the walk (`denied`, `Cut`), and
`ListStorageMedia` leaves out a row whose file it cannot load again (`media.go:155-163`,
`unread`). What these keep from a walk is in `dropped`. Every other failed statement is an
error answer, after which the client asks again (`PageFails`).

### RateLimiter

`ipRateLimiter` (`middleware_ratelimit.go`). `allow` holds the mutex, so `Allow` is one
action: it finds or makes the entry, trims the table, and takes a token. `Tick` is time:
one unit of the refill for every bucket, one tick of idleness for every entry.
`ideal` is the reference, a bucket per client that is never forgotten; `evicted` are the
clients whose own bucket was.

### UrlFetch

`upload-from-url` between its row and its answer (`urlfetch/client.go`, `transport.go`,
`capped.go`, `router_stream_upload.go:85-145`): `Get`, `Redirect` and `Requests`
(`CheckRedirect`), `Dial` with a look-up that may answer differently each time, `Reuse` of
a kept connection, `ReadSome`/`ReadCapped` (`CappedReader.Read`), `Publish`. Which hosts
and addresses are admitted are the constants `Admitted` and `Public`.

### ImageResizer

`image_resizer.go` and the loop of `insertSizedImageRows`: `IsBox` says which entries of the
configuration count (`ResizerInit` takes them in any order and number up to `MaxEntries`,
which is what filtering any configuration leaves), `NewDimensions` computes a size, rounding each side to a nearest
integer, of two for an exact half (the factor is a floating-point number), `TagOf` the
tag, and `Resize` makes a copy or skips the box.

## 4. What the runs check

| run | instance | checks | states |
|---|---|---|---|
| `files_api` | 1 upload, 3 handlers, 3 flaws, no workers | what uploads, trash and purge leave behind | 106k |
| `files_and_workers` | 1 image, 1 thumbnail, 2 handlers, 1 worker, 1 flaw | `IInv`, the inductive invariant, of which the safety properties follow (section 6); `CreatedIsQueued`, `DoneHasMedia`, `DerivedAreStored`, `ImplementsFileLife` | 679k |
| `workers` | 1 upload, 1 handler, 2 workers, 1 crash or stop, 1 flaw | `NoDoubleProcessing`, and the liveness of uploads, queue and pool | 112k |
| `rollback_comment` | 1 upload | violation: see section 7 | |
| `durable_comment` | 1 upload, 1 worker, 1 crash | violation: see section 7 | |
| `auth_requests` | 2 requests, 2 users with a token each, 2 ids, under `FairAuthSpec` | `TokensKeepTheirUser`, `RevokedIsOut`, `AuthenticateReturns` | 159k |
| `first_login`, `reactivation` | 2 requests | violations: see section 7 | |
| `bootstrap` | runs: every initial file over 6 values, 3 environments (one with a token of its own), 2 failures, 1 edit. Text: every file of up to 3 lines of 14 kinds, 42 sets of values; every value of up to 4 characters of 10, 2 files | `KeepsOperatorValues`, `TokenIsKept`, `RestartContinues`, `SuccessIsRecorded`; `ReadsBack`, `OtherLinesStay` | 1.38M |
| `bootstrap_torn` | the same, smaller | violation: see section 7 | |
| `requests` | six parts, each on its own; bounds below | the types, and 15 properties of the parts | 1.83M |
| `download_loops` | the `access` part with an absolute base URL | violation: see section 7 | |

**Parts.** `requests` and `bootstrap` put modules that share no variable into one run. A
behaviour is one of the part that `Init` chooses (`part`, `side`); the other parts stay
in one of their initial states, where their properties hold. No property is about two
parts, so a product of the parts would show nothing more, and every state of every part is
reached as it would be in a run of its own. For `requests` this is proved
(`PartsAreTheirOwn`), whatever the constants.

**Why these bounds are enough.** Every handler works on one file, and no statement
but `DeleteStorage` and `ClaimMediaJob` reads the rows of two, so one upload is
enough for the races of handlers; three handlers let an upload, a trash and a
purge overlap (the only conflicting triple on one id; a second purge replaces the
upload when that has ended). Two workers are the smallest pool in which exclusion
means anything and in which the crash of one may not stop the other. One or three
flaws suffice because each property tolerates flaws of its own file only: a
violation needs one failure the property does not name. No instance has two
pending jobs at once (a second media file multiplies the states by thirty); what
the queue promises for any number of jobs is proved (section 6), and the order of
claims, `ORDER BY created_at`, is in the model but no property is about it. `Reqs` and `Workers` are
symmetric sets in the safety runs; runs with liveness use no symmetry. The `Kind`
of thumbnails is `IMAGE` in most runs; in `files_and_workers` it is `NONE`, a
database whose mime table lacks `image/jpeg`, so that both branches of
`processor.go:50-78` are taken.

Two requests are enough for authentication: each statement of one meets at most
one other transaction at a row, and two ids let the two users have a row each. In the env file a run touches each line by its key alone, so three
lines hold a duplicate, a protected and a foreign line at once; four characters
hold an escape inside quotes with a neighbour on each side. Two failures in
bootstrap let the restart fail as well.

In `requests` one request in flight is enough for `FileAccess`, because handlers that read
meet only the rows, and what other requests do to these is an action of its own; two changes
put one before and one between the reads of a request (a trash and a purge, a grant
withdrawn and given back). Ann owns files, Bob is of another system, Root is an admin;
`f2` is there for a raw URL that names another file than its download. `MCAccessInit` leaves
both changes to a stored file of Ann's in a LOCAL storage, and one to files nobody owns and
to a storage that is of AMAZON_S3 from the start. A behaviour that begins with an upload
under way, or with a row without a path, is of a file of Ann's that only she may see, and
has one change as well: what the bytes of a file are does not depend on who else may see it. Two patches overlap; three rows make three pages of
one; of three clients with a table
of two one has to go; a tick is a half of what a request costs, so that a bucket refills
in two; hosts are a name, two addresses written as numbers, and one that is not
admitted; lengths lie on both sides of both limits; the sides of images and the boxes
put a copy exactly at, below and above each comparison.

**Deadlock** is not checked: when every id has been drawn, every file purged and
`MaxRestarts` used up, clients may have nothing left to ask; in `AuthCache` every id
may be drawn while a request waits to insert (`uuid.New` has no end, the bound
`UserIds` has). That no handler, worker or request is stuck is what the liveness
properties say. In `requests` a walk, a fetch, a list of boxes and a patch come to an end
(each patch is made once), and `MaxChanges` and the ids of downloads are used up.
`EnvFile` and `Bootstrap` are checked for deadlock.

**The properties.** Each relates what a client was told, or what one table says,
to what another table or the object store holds, over all interleavings:

- `CreatedIsStored`: answered 201 and not trashed: the row is published and the
  object is there, whoever deletes or fails concurrently.
- `FailedUploadLeavesNothing`: a failed upload leaves no row and no object, except
  for four named failures (reply of the insert or the publish lost, either cleanup
  call failed).
- `DeletionsAreFinal`: each deletion is audited at most once, whatever races.
- `PurgedLeavesNoObject`: no row of a completed upload goes before its object, unless
  the backend refused. (A storage deletion leaves objects behind by design.)
- `CreatedIsQueued`, `NoDoubleProcessing`, `DoneHasMedia`, `DerivedAreStored`: the
  promises of the queue and of the processor. The mime SELECT whose error is dropped is
  the exception of the first (a 201 without a job) and of the third (a job done without
  media).
- `UploadingIsTransient`, `PendingIsClaimed`, `ClaimedIsSettled`, `StopReturns`: no row
  stays `UPLOADING`, no job stays unclaimed or unsettled, no shutdown hangs, each but
  for the failures it names.
- `TokensKeepTheirUser`: however first logins, cached lookups and upserts interleave, an
  answer and a cached token are of the user the auth service named. `RevokedIsOut`: a
  token for which neither the auth service, nor the cache, nor a request under way
  vouches is refused. `AuthenticateReturns`: transactions that wait for each other's
  rows all end.
- `ReadsBack`: the file says, to the program's own reader, exactly what it was given
  for the keys it might fill, and what it said before for all others.
  `OtherLinesStay`: no other line moves or changes, no filled key is assigned twice.
- `KeepsOperatorValues`, `TokenIsKept`, `RestartContinues`, `SuccessIsRecorded`: through
  any number of runs, failures, crashes and edits, what the operator wrote stays, unless a
  write was interrupted or raced (the first of which `bootstrap_torn` shows); the
  token the auth service hands out once reaches the file and the next run; and a run
  that reports success has left every key filled: with what the operator has there, with
  what the run found there when it began (`found`) if that was not to be touched, and else
  with what the run used.

- `AnswersMatchVisibility`: `getFile`, `getMedia`, both lists and `createDownload` show a file
  just when `MaySee` says so at the moment they read its row, though each decides by
  statements of its own; the exceptions are named (a race, the dropped error of a
  `system_name`, and in the lists, nowhere else, a SYSTEM file without owner, section 7). `StreamServesItsDownload`: the raw route serves
  nobody but the owner of the download, and only the file of it. `DownloadsWork`: it does
  serve all of the file, or redirects to the store, until the download expires; the causes
  it names are that the user may not see the file any more, a failed call, a URL that never
  reached the row, a storage whose type changed, the redirect to itself of section 7, an
  upload that is not answered yet (or never will be), a row without a path, and a file
  trashed while the route is under way.
- `LastPatchWins`: a column holds what was last asked for unless a request that
  overlapped, or the publishing upload, overwrote it. `AnsweredIsApplied`: an answer with a
  row means that the patch took effect, and shows it. `RemovedRowsStay`: a patch that was
  under way when its row went changes nothing any more.
- `WalkMissesNothing`, `WalkRepeatsNothing`: what a client sees that follows the links, and
  just which shifts, ties, limits and offsets make it miss a row or see it twice; and it
  misses a row that an error dropped by `ListFiles` or `ListStorageMedia` kept from its page.
- `AnswersOfOwnBucket`: whatever the others ask for, a client is refused nothing that a
  bucket of its own would allow, and is allowed more only while its bucket is forgotten.
  `TableIsBounded`.
- `DialedIsPublic`: through redirects and changing look-ups. `PublishedIsWhole`,
  `SmallBodiesFit`: a row is published with the whole body, and only bodies above the limit
  are refused for their size, or one that just reaches it and ends late.
- `CopiesAreSmaller`, `CopiesKeepProportions`: of every image and every configuration of the
  bounds, with either rounding of a half.

Every property of every passing run has a *mutant*: a plausible bug in one
definition (a dropped guard, a forgotten call, a wrong order), kept beside the
definition and marked "Mutant", under which TLC finds the property violated in
that run.

## 5. Fairness

`FairSpec` assumes weak fairness of each handler's next step and of each worker's
next step: these are goroutines, and a goroutine that can run is run; a call ends
(the HTTP server, the database driver and the S3 client have timeouts). It assumes
weak fairness of `Restart` and `WorkerStart`: a supervisor (Docker's restart
policy) starts a stopped process again. The one strong assumption is on `Claim`: a
pool that keeps polling is at last answered with a job, that is, the database does
not refuse every claim for ever. Nothing is assumed of clients, of crashes, or of
which calls fail. Liveness properties that a crash or a dropped error really
breaks name that in their conclusion (`"crashed"`, `"stranded"`).

`FairAuthSpec` assumes weak fairness of each request's next step (a goroutine that
can run is run), and strong fairness of the two steps that wait for a row,
`UpdateUser` and `CacheToken`: PostgreSQL queues the transactions that wait for a
row lock and wakes them in turn, so one that is let in again and again is served.
Nothing is assumed of failures, expiry, revocation or new requests.

## 6. What is proved

For any sets of files, handlers and workers, any `Kind` and `Derive`, and any
`MaxFlaws` and `MaxRestarts`, under `IdsAssumption` (upload and derived ids are
apart, two files share no derived id, which is what `uuid.New()` gives) and
`RestartsAssumption`; for any requests, tokens, names and ids under
`AuthAssumption` (the auth service answers one name per token); for any values,
environments, failures and edits, with or without `SkipPersist`, under
`BootAssumption` (the token handed out is none that the operator or a placeholder
could have had); for any hosts, addresses, limits and bodies under `FetchAssumption`
(an admitted host that is an address is a public one), any clients, limiters and
table sizes under `RateAssumption`, any number of patches under `SettingsAssumption`;
for any users, files, downloads and requests in flight under `AccessAssumption` (there
are users and files at all; every user has a system), any finite set of rows, any
limits and offsets under `PagingAssumption` (0 < default <= maximum), and any sides and
sizes of images under `ResizerAssumption`:

| theorem | module | says |
|---|---|---|
| `TypeCorrect` | `FileMgrTypes` | `Spec => []TypeOK` |
| `Invariance` | `FileMgrSafety` | `Spec => []IInv` |
| `CreatedStaysStored` | `FileMgrSafety` | `Spec => []CreatedIsStored` |
| `FailedLeavesNothing` | `FileMgrSafety` | `Spec => []FailedUploadLeavesNothing` |
| `DeletionIsFinal` | `FileMgrSafety` | `Spec => []DeletionsAreFinal` |
| `PurgeIsComplete` | `FileMgrSafety` | `Spec => []PurgedLeavesNoObject` |
| `CreatedHasJob` | `FileMgrSafety` | `Spec => []CreatedIsQueued` |
| `ClaimsExclude` | `FileMgrSafety` | `Spec => []NoDoubleProcessing` |
| `DoneMeansMedia` | `FileMgrSafety` | `Spec => []DoneHasMedia` |
| `DerivedFilesStored` | `FileMgrSafety` | `Spec => []DerivedAreStored` |
| `Refinement` | `FileMgrSafety` | `Spec => ImplementsFileLife` |
| `AuthInvariance` | `AuthCacheProofs` | `AuthSpec => []AuthInv` |
| `TokensKept` | `AuthCacheProofs` | `AuthSpec => []TokensKeepTheirUser` |
| `RevokedStaysOut` | `AuthCacheProofs` | `AuthSpec => []RevokedIsOut` |
| `BootInvariance` | `BootstrapProofs` | `BootSpec => []BootInv` |
| `OperatorsValuesKept` | `BootstrapProofs` | `BootSpec => []KeepsOperatorValues` |
| `TokenStays` | `BootstrapProofs` | `BootSpec => []TokenIsKept` |
| `RestartGoesOn` | `BootstrapProofs` | `BootSpec => []RestartContinues` |
| `SuccessLeavesRecord` | `BootstrapProofs` | `BootSpec => []SuccessIsRecorded` |
| `DialsPublic` | `RequestsProofs` | `FetchSpec => []DialedIsPublic` |
| `PublishesWhole` | `RequestsProofs` | `FetchSpec => []PublishedIsWhole` |
| `SmallOnesFit` | `RequestsProofs` | `FetchSpec => []SmallBodiesFit` |
| `OwnBucket` | `RequestsProofs` | `RateSpec => []AnswersOfOwnBucket` |
| `TableBound` | `RequestsProofs` | `RateSpec => []TableIsBounded` |
| `LastPatch` | `RequestsProofs` | `SettingsSpec => []LastPatchWins` |
| `PatchAnswers` | `RequestsProofs` | `SettingsSpec => []AnsweredIsApplied` |
| `RemovedStays` | `RequestsProofs` | `SettingsSpec => RemovedRowsStay` |
| `CopiesShrink` | `RequestsProofs` | `ResizerSpec => []CopiesAreSmaller` |
| `CopiesAreProportional` | `RequestsProofs` | `ResizerSpec => []CopiesKeepProportions` |
| `AccessInvariance` | `AccessProofs` | `AccessSpec => []AccessInv` |
| `AnswersAreRight` | `AccessProofs` | `AccessSpec => []AnswersMatchVisibility` |
| `StreamsAreRight` | `AccessProofs` | `AccessSpec => []StreamServesItsDownload` |
| `DownloadsAreGood` | `AccessProofs` | `AccessSpec => []DownloadsWork` |
| `PagingInvariance` | `AccessProofs` | `PagingSpec => []PagingInv` |
| `WalksAreComplete` | `AccessProofs` | `PagingSpec => []WalkMissesNothing` |
| `WalksDoNotRepeat` | `AccessProofs` | `PagingSpec => []WalkRepeatsNothing` |
| `PartsAreTheirOwn` | `MCRequestsProofs` | `RequestsSpec` implies the specification of each part |
| `RequestsTypes` | `MCRequestsProofs` | `RequestsSpec => []RequestsTypeOK` |

**The argument.** None of the properties is inductive: each speaks of what is true
after a handler has answered, and says nothing of what the handlers in flight
know. `IInv` (module `FileMgrInv`) adds that:

- `TypeInv`: types, and the *shape* of handlers and workers (a handler at `publish` is
  an upload, a worker past its claim has a file).
- `RowsInv`: a row has its storage; media rows and jobs go with their row; a job's
  file is published and of a media category.
- `OwnInv`: an id belongs to one upload, and an unused id has neither row nor object.
  Without it a second upload could overwrite or roll back the first one's file.
- `HandlerInv`: what a handler may still rely on of what it read earlier. A handler at
  `put` or `publish` knows that its row is not published by anyone else; one in the
  rollback knows that the row is not published, unless the publishing reply was
  lost; a purge in progress knows that its file never is live again.
- `CreatedInv`, `JobbedInv`, `FailedInv`, `PurgeInv`, `AuditInv`: the properties,
  strengthened to uploads that are not yet answered (`Landed`) and purges that are
  between the object and the row.
- `JobInv`, `ApartInv`, `HeldInv`: a job is attempted at most once, by one worker, which
  is at the step it claims to be at, with its row locked while its transaction is
  open; a worker about to complete its job has seen its media row, or has read the file
  without its type (`Untyped`).
- `FreshInv`, `DerivedInv`: derived ids are not used before the one commit that
  inserts them, and the objects are there before it. This is why `NoDoubleProcessing`
  matters: two workers on one image would commit the same derived files twice.

`FileMgrTypes` proves `TypeInv` inductive, action by action. `FileMgrEffects` then
restates each action by its effect on each row, job, object, handler and worker
(`UploadPutDone`, ... , `NextDone`) and proves `NextDoes`: every step has one of
these effects. `FileMgrSafety` proves that each conjunct of `IInv` is preserved by
`NextDone`, one lemma per conjunct and one step per action, and derives the
theorems. Its last part maps every effect to a `FileLife` action or a stutter, and
needs `IInv` (that a rollback never meets a published row, unless the
`UPDATE`'s reply was lost, is `HandlerInv`; that derived ids are new is
`FreshInv`).

*Authentication*. `AuthInv` adds to the type and to `TokensKeepTheirUser` what a
request knows inside its transaction: `TxInv`, that it works on a committed row of its
own name or on an id nobody else has drawn (without it two inserts could meet on
one row), and `DoomInv`, that no request past `/auth/me`, and nothing else, vouches for
the token of a doomed one.

*Bootstrap*. `KeepsOperatorValues` says nothing of the time between the truncation and
the write, and nothing of what is about to be written; `OperatorInv` adds that a
protected value is not among the values to write once they are filtered, and is in
the image of the file. `TokenInv` follows the token from the answer through the
filter, the image and the write to the file, and from the file into the next run.
`SuccessIsRecorded` speaks of every written key at the end of a run; `RecordInv` says the
same of the steps before: what the file or the image read from it holds is the operator's
value, the one found, or the run's, and what is to be written fills a gap only
(`FillFacts`); and once the run writes for the last time, a key is filled in the image or
has a value to write (`LastFacts`). The history field `found`, the file as the run found
it, tells the second of these values from those the first of the two writes put there.

*Visibility and downloads.* A request is answered from what it read some steps before.
`ReadFacts` says, for each step, what the reads up to it imply for `could` (whether
`MaySee` held when the row was read): the copy and the grant together decide, unless a
change in between has set `raced` or a dropped error `failed`. `StepOps` says which request
can be at which step; without it a stream could be in the middle of a listing.
`DownloadFacts` and `UrlFits` follow a download from its insertion to its URL: the URL is the
one the storage's type calls for, or the row says that the type has changed since
(`retyped`); `OneCreates`, that no two requests write one URL, makes that inductive.
`WholeObjects` says that an answered upload has its whole object while its row is live,
which puts, rollbacks and purges of other uploads must not disturb, and `BlobFacts` carries
what a stream has read of its row to the moment it sends.

*Pages.* `WalkMissesNothing` and `WalkRepeatsNothing` are about a finished walk. `PagingInv`
gives the reason while it runs: a row still owed lies ahead of the walk (`Owed`: along
`next`, at the offset of the page to come or after it) or is in `dropped`, a row already shown behind it
(`ShownOnce`), in terms of the number of rows `Before` it. A row that goes moves rows to the
front and a row that comes moves them on; the history sets `back` and `on` name these rows,
and the lemmas count that `Before` only grows for a row not in `back` and only shrinks for
one not in `on`. Rows of one stamp may come in any order, so `Before` is the least place
such a row can have, and rows that are tied are in both sets.

*Copies.* `ResizerInv` is the conjunction of both properties for the copies made so far. The
lemmas are about the arithmetic: a side scaled by the factor that makes the shorter side that
of the box is exact (`ShorterIsExact`), the other within half a pixel and at least one
(`LongerHasPixels`), and a larger image has no lower tag (`TagGrows`); what would be larger
than the image is skipped.

*The parts together.* `MCRequests` parks five parts in an initial state while it explores the
sixth. `PartsStart` needs `ParkedAssumption` (the values in the parked states are among the
constants', which TLC evaluates); `PartsStep` says that a step of the whole is a step or a
stutter of each part. Hence `PartsAreTheirOwn`, by which every theorem about a part holds
of the composition that the run checks.

*Requests.* `FetchInv` says of a fetch under way how many requests it may still make, that
the bytes counted are part of the body (all of it once the reader has reported the end),
and that no reason to refuse is given before the upload is given up. `RateInv` compares
each client's bucket, in the table or forgotten, with its ideal one (`HeldIsOwed`):
never less, and equal unless the client is in `evicted`; that is more than the answers,
which are about the last request only. `SettingsInv` follows a patch between its read
and its write (`KnowsColumns`: its copy of a column is what was last named, or it has missed
who named it, or the column is lost already) and between its write and its second
read (`HasWritten`); ids of requests never exceed that of the row, so that no patch can
meet a grant made anew.

**Only model-checked**: the liveness properties (`UploadingIsTransient`,
`PendingIsClaimed`, `ClaimedIsSettled`, `StopReturns`, `AuthenticateReturns`), which the
prover cannot reach; the algorithms of `EnvFile`, whose folds over the characters
need an induction over data that the installed provers cannot do (`ReadsBack`,
`OtherLinesStay`); and the findings. TLC also checks `IInv` on the instance of `files_and_workers`.

## 7. Findings

- **`rollback_comment`**. `router_upload_cleanup.go:9` says that `rollbackUploadingFile`
  "deletes any object bytes at frow's real_path (best effort) and removes the
  UPLOADING database row". The `DELETE` runs on the request's context and its error
  is dropped; when the client has gone away (the usual reason for a failed upload)
  the context is cancelled and the row stays `UPLOADING` for ever. No sweeper
  exists.
- **`durable_comment`**. `migrations/000002:1` calls `media_processing_jobs` a "Durable
  queue". `ClaimMediaJob` commits `processing` at once, and nothing ever looks at a
  job in `processing` again: the job of a worker that dies is lost, and because of
  `ON CONFLICT (storage_file_id) DO NOTHING` it cannot be enqueued again.

- **`first_login`**. `docs/architecture.md:49` says the service "upserts
  **`core_customuser`**". It selects and, finding nothing, inserts; `username` has no
  unique index, so two first requests of one user leave two local users, and what
  is owned through one is not the other's.
- **`reactivation`**. The same line says "Inactive local users (`is_active = false`) are
  rejected". Only a cache hit looks at `is_active`; a miss sets it to true.
- **`bootstrap_torn`**. `.env.template:53` says "Existing non-empty values are never
  overwritten." The file is rewritten in place: a crash or a full disk after the
  truncation leaves it empty.
- **`download_loops`**. `router.go:587` says "streamDownload serves local files for a valid
  download row". With `APP_PUBLIC_BASE_URL` set the row holds an absolute URL of the raw
  route itself, and the raw route redirects to every URL that has a scheme.

Smaller disagreements, met while modelling and not worth a run of their own:

- `image_resizer.go:105` says a copy is made to "fit inside expectedW x expectedH". The factor
  follows one side (the shorter one of the image), so that the other may exceed the box;
  the unit tests expect that.
- `client.go:22-35`: one redirect fewer is followed than configured (the bound compares
  the requests made), and 0 means 8.
- `media.go:107` speaks of the "same visibility rules as files". The lists' SQL shows a
  SYSTEM file whose owner's row is gone (`IS DISTINCT FROM`), `fileVisible` hides it; and the
  media list loads each row again without asking for its visibility.
- `pageLinks` neither lowers a limit above 500 nor raises a negative offset as the lists do, so
  its links step over rows or show them twice; `WalkMissesNothing` and `WalkRepeatsNothing`
  except just these.

## 8. What is not modelled

`PROJECT.json` has one entry per component. Left out for good:

- pixel, EXIF and `ffprobe` data, and what `media_attach.go` adds to an answer;
- single statements nothing interleaves with: `createStorage`, `getStorage`,
  `listStorageUsers`, `getStorageUser`, and audit lines but those of deletions;
- the environment's proxy (`http_transport.go:13`), which would connect to the host of a
  URL itself, so that `Dial` would check the proxy's address only;
- changes of a storage's credentials, and deletion of a storage, in `FileAccess` (`FileApi`
  has the deletion); rows of one storage only;
- the length of a download's life (`download_exp.go`, a power of a logarithm): a download
  may expire at any time;
- `validateFetchURL` and `blockedIP`: predicates on text and bytes with unit tests; the
  model takes the sets they admit as constants;
- key building in the object store and the file name in a presigned URL;
- parsing the environment into clamped numbers (`env.go`), logging, command dispatch,
  response headers, shell glue, the OpenAPI description: no state, no protocol.

PostgreSQL's detection of the deadlock between `deleteStorage` and an open media
transaction is modelled as a failure of either, not as a wait, so that no property would
see it; and no property keeps an edit that the operator makes while a run writes the file.
`PROJECT.json` lists both among the hazards without one.

## 9. Running it

    tlc -workers 2 -config FileMgr_full.cfg MCFileMgr.tla
    tlc -workers 2 -config AuthCache.cfg MCAuthCache.tla
    tlc -workers 2 -config Bootstrap.cfg MCBootEnv.tla
    tlc -workers 2 -config Requests.cfg MCRequests.tla
    tlc -workers 2 -config FileAccess_loops.cfg MCFileAccess.tla
    tlapm FileMgrTypes.tla      # then FileMgrEffects, FileMgrSafety
    tlapm AuthCacheProofs.tla
    tlapm BootstrapProofs.tla
    tlapm RequestsProofs.tla
    tlapm AccessProofs.tla
    tlapm MCRequestsProofs.tla
