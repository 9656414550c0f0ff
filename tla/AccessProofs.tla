---------------------------- MODULE AccessProofs ----------------------------
(***************************************************************************)
(* Who is shown which file, and what the raw route serves, for any users,  *)
(* files, downloads and number of requests in flight; and what a walk      *)
(* through the pages of a list shows, for any rows, limits and offsets.    *)
(***************************************************************************)
EXTENDS FileAccess, Paging, FiniteSetTheorems, TLAPS

AccessRequests ==
    [op : Gets \cup Lists, u : Users, f : Files,
     d : Downloads \cup {NoDownload}, of : {"live", "trash"},
     pc : Steps, copy : Rows, mayRead : BOOLEAN, kind : Kinds,
     could : BOOLEAN, raced : BOOLEAN, failed : Failures,
     odd : Oddities, dl : Records, result : Results]

(* What MaySee asks of a row, apart from its state and the grant. *)
Admits(u, x) ==
    \/ x.vis = "PUBLIC"
    \/ x.vis = "USER" /\ x.owner = u
    \/ x.vis = "SYSTEM" /\ x.owner # NoOne /\ SystemOf[x.owner] # SystemOf[u]

Sending == {"insert", "urlStorage", "url", "storage", "send"}

(* Which requests get to a step, and which of them saw a call fail. *)
StepOps(q) ==
    /\ q.pc = "join" => q.op = "getMedia"
    /\ q.pc \in {"load", "grant", "verdict"} => q.op \in Gets
    /\ q.pc \in {"gate", "reload"} => q.op = "listMedia"
    /\ q.pc \in {"listGrant", "rows"} => q.op \in Lists
    /\ q.pc \in {"insert", "urlStorage", "url"} => q.op = "create"
    /\ q.pc \in {"lookup", "storage", "send"} => q.op = "stream"
    /\ q.op \in {"getMedia", "listMedia", "stream"} => q.of = "live"
    /\ q.pc \in Sending => q.failed \in {"no", "blind"}
    /\ q.pc = "rows" => q.failed = "no" \/ (q.failed = "yes" /\ q.op = "list" /\ ~q.mayRead)
    /\ q.pc \notin Sending \cup {"rows", "done"} => q.failed = "no"
    /\ q.pc \in {"gate", "listGrant"} => ~q.mayRead

(* What a request has read of rows and grants is what "could" says. *)
ReadFacts(q) ==
    /\ q.pc = "grant" /\ ~q.raced =>
          (q.could <=> q.u \in Admins \/ (q.u \in readers /\ Admits(q.u, q.copy)))
    /\ q.pc = "verdict" /\ ~q.raced => (q.could <=> q.u \in Admins \/ Admits(q.u, q.copy))
    /\ q.pc = "rows" /\ ~q.raced /\ q.failed = "no" => (q.mayRead <=> q.u \in readers)
    /\ q.pc = "reload" /\ ~q.raced /\ row[q.f].state = "live" =>
          \/ q.u \in Admins
          \/ /\ q.u \in readers
             /\ Admits(q.u, row[q.f]) \/ q.odd = "orphan"
    /\ q.pc \in Sending => q.could \/ q.raced \/ q.failed = "blind"

(* The URL of a download is the one the storage's type calls for. *)
UrlFits(x, k) ==
    /\ x.url = "raw" => k = "LOCAL" \/ x.retyped
    /\ x.url = "absolute raw" => AbsoluteBase

(* The download a request asks for or creates. *)
DownloadFacts(q) ==
    /\ q.pc = "lookup" =>
          q.d \in Downloads /\ (dls[q.d] = NoRecord \/ dls[q.d].url # "NULL" \/ dls[q.d].lost)
    /\ q.op = "stream" /\ q.pc \in {"load", "grant", "verdict", "storage", "send"} =>
          /\ q.dl.owner = q.u
          /\ q.dl.url = "NULL" => q.dl.lost
          /\ q.pc = "send" => UrlFits(q.dl, q.kind)
          /\ q.pc # "send" => UrlFits(q.dl, kind)
    /\ q.pc \in {"storage", "send"} => q.dl.f = q.f
    /\ q.pc \in {"urlStorage", "url"} =>
          /\ q.d \in Downloads
          /\ dls[q.d] = NoRecord \/ (dls[q.d].url = "NULL" /\ ~dls[q.d].lost)
    /\ q.pc = "url" => q.kind = kind \/ dls[q.d] = NoRecord \/ dls[q.d].retyped

(* A file that the raw route read when its upload was answered still has     *)
(* its object where the storage's type calls for it, while it is live.       *)
Sound(q, k) ==
    q.odd = "bare" \/ q.dl.retyped \/ (blob[q.f].upload = "done" /\ blob[q.f].store = k)

BlobFacts(q) ==
    q.op = "stream" =>
        /\ q.pc \in {"grant", "verdict", "storage"} => Sound(q, kind)
        /\ q.pc = "send" => Sound(q, q.kind)

(* What the run's invariants say of an answered request. *)
AnswerFacts(q) ==
    q.pc = "done" =>
        /\ q.op # "stream" /\ ~q.raced =>
              /\ q.could /\ q.failed = "no" => q.result \in {"shown", "created"}
              /\ q.result \in {"shown", "created"} =>
                    q.could \/ q.failed = "blind" \/ (q.op \in Lists /\ q.odd = "orphan")
        /\ q.result \in Sent =>
              /\ q.dl.owner = q.u /\ q.dl.f = q.f
              /\ q.could \/ q.raced \/ q.failed = "blind"
        /\ /\ q.op = "stream" /\ q.failed = "no" /\ ~q.raced
           /\ q.dl.f = q.f /\ q.dl.owner = q.u /\ ~q.dl.expired
           =>  \/ q.result \in {"served", "redirect"}
               \/ ~q.could
               \/ q.result = "broken" /\ (q.dl.retyped \/ q.dl.lost)
               \/ q.result = "loop" /\ AbsoluteBase
               \/ /\ q.result \in {"partial", "no path", "missing"}
                  /\ q.odd = "bare" \/ q.dl.retyped \/ row[q.f].state # "live"

AccessOK(q) ==
    StepOps(q) /\ ReadFacts(q) /\ DownloadFacts(q) /\ BlobFacts(q) /\ AnswerFacts(q)

Creating(q) == q.pc \in {"urlStorage", "url"}

(* No two requests write the URL of one download. *)
OneCreates ==
    \A r, s \in Reqs : r # s /\ Creating(areq[r]) /\ Creating(areq[s]) => areq[r].d # areq[s].d

(* An upload that was answered 201 has its object, while its row is live.    *)
WholeObjects ==
    \A f \in Files :
        blob[f].upload = "done" /\ row[f].state = "live" => blob[f].object = "whole"

AccessInv ==
    /\ AccessTypeOK
    /\ \A r \in Reqs : AccessOK(areq[r])
    /\ \A d \in Downloads : UrlFits(dls[d], kind)
    /\ OneCreates /\ WholeObjects

-----------------------------------------------------------------------------
(* What becomes of a request. *)

\* The history fields and the parameters of a request.
SameRequest(q, p) ==
    /\ q.op = p.op /\ q.u = p.u /\ q.f = p.f /\ q.d = p.d /\ q.of = p.of
    /\ q.raced = p.raced /\ q.odd = p.odd /\ q.dl = p.dl

LEMMA SomeResults ==
  {"hidden", "error", "shown", "created"} \subseteq Results
  BY DEF Results

\* An answer that is right stays right, for a file that is not live stays so.
LEMMA AnswersStay ==
  ASSUME NEW p, row[p.f].state # "live" => row'[p.f].state # "live"
  PROVE  AnswerFacts(p) => AnswerFacts(p)'
  BY DEF AnswerFacts

\* What was read of an upload stays, for one that was answered stays so.
LEMMA BlobStays ==
  ASSUME NEW p, kind' = kind, blob'[p.f].store = blob[p.f].store,
         blob[p.f].upload = "done" => blob'[p.f].upload = "done"
  PROVE  BlobFacts(p) => BlobFacts(p)'
  BY DEF BlobFacts, Sound

\* What was read stays, while nothing changes.
LEMMA FactsStay ==
  ASSUME NEW p, UNCHANGED <<row, readers, kind, blob>>
  PROVE  /\ StepOps(p) => StepOps(p)'
         /\ ReadFacts(p) => ReadFacts(p)'
         /\ BlobFacts(p) => BlobFacts(p)'
         /\ AnswerFacts(p) => AnswerFacts(p)'
  <1>1. StepOps(p) => StepOps(p)'
    BY DEF StepOps
  <1>2. ReadFacts(p) => ReadFacts(p)'
    BY DEF ReadFacts
  <1> QED
    BY <1>1, <1>2, BlobStays, AnswersStay

\* A request that only goes on to another step.
LEMMA GotoIs ==
  ASSUME NEW r \in Reqs, areq[r] \in AccessRequests, NEW step \in Steps
  PROVE  /\ Goto(r, step) \in AccessRequests /\ Goto(r, step).pc = step
         /\ SameRequest(Goto(r, step), areq[r])
         /\ Goto(r, step).copy = areq[r].copy /\ Goto(r, step).mayRead = areq[r].mayRead
         /\ Goto(r, step).kind = areq[r].kind /\ Goto(r, step).could = areq[r].could
         /\ Goto(r, step).failed = areq[r].failed /\ Goto(r, step).result = areq[r].result
  BY DEF Goto, AccessRequests, SameRequest

\* MaySee is a Boolean, the grant and Admits together.
LEMMA MaySeeIs ==
  ASSUME NEW u, NEW f, NEW state
  PROVE  /\ MaySee(u, f, state) \in BOOLEAN
         /\ MaySee(u, f, state) <=>
               row[f].state = state /\ (u \in Admins \/ (u \in readers /\ Admits(u, row[f])))
  BY DEF MaySee, Admits

\* An answered request forgets what it read, and keeps the rest.
LEMMA AnsweredIs ==
  ASSUME NEW r \in Reqs, areq[r] \in AccessRequests, NEW res \in Results
  PROVE  /\ Answered(r, res) \in AccessRequests /\ Answered(r, res).pc = "done"
         /\ SameRequest(Answered(r, res), areq[r]) /\ Answered(r, res).result = res
         /\ Answered(r, res).could = areq[r].could /\ Answered(r, res).failed = areq[r].failed
         /\ AnsweredNow(r, res) \in AccessRequests /\ AnsweredNow(r, res).pc = "done"
         /\ SameRequest(AnsweredNow(r, res), areq[r]) /\ AnsweredNow(r, res).result = res
         /\ AnsweredNow(r, res).could = CouldNow(r)
         /\ AnsweredNow(r, res).failed = areq[r].failed
         /\ Refused(r, res) \in AccessRequests /\ Refused(r, res).pc = "done"
         /\ SameRequest(Refused(r, res), areq[r]) /\ Refused(r, res).result = res
         /\ Refused(r, res).failed = "yes"
  <1>1. Fresh \in Rows /\ "done" \in Steps /\ "LOCAL" \in Kinds /\ "yes" \in Failures
    BY DEF Fresh, Rows, Visibilities, Steps, Waiting, Kinds, Failures
  <1>2. CouldNow(r) \in BOOLEAN
    BY MaySeeIs DEF CouldNow
  <1>3. /\ Answered(r, res) \in AccessRequests /\ Answered(r, res).pc = "done"
        /\ SameRequest(Answered(r, res), areq[r]) /\ Answered(r, res).result = res
        /\ Answered(r, res).could = areq[r].could /\ Answered(r, res).failed = areq[r].failed
    BY <1>1 DEF Answered, AccessRequests, SameRequest
  <1> QED
    BY <1>1, <1>2, <1>3 DEF AnsweredNow, Refused, AccessRequests, SameRequest

\* A step of one request that only reads keeps the invariant of all.
LEMMA ReadingRows ==
  ASSUME AccessInv, NEW r \in Reqs, NEW q \in AccessRequests, Reads(r, q), AccessOK(q),
         Creating(q) => Creating(areq[r]) /\ q.d = areq[r].d
  PROVE  AccessInv'
  <1>0. areq \in [Reqs -> AccessRequests]
    BY DEF AccessInv, AccessTypeOK, AccessRequests
  <1>1. /\ areq' \in [Reqs -> AccessRequests] /\ areq'[r] = q
        /\ \A s \in Reqs : s # r => areq'[s] = areq[s]
        /\ UNCHANGED <<row, readers, kind, blob, dls, changes>>
    BY <1>0 DEF Reads
  <1>2. AccessTypeOK'
    BY <1>1 DEF AccessInv, AccessTypeOK, AccessRequests
  <1>3. ASSUME NEW s \in Reqs PROVE AccessOK(areq[s])'
    <2>1. \A p : DownloadFacts(p) => DownloadFacts(p)'
      BY <1>1 DEF DownloadFacts
    <2>2. AccessOK(areq'[s])
      BY <1>1 DEF AccessInv
    <2> QED
      BY <1>1, <2>1, <2>2, FactsStay DEF AccessOK
  <1>4. \A d \in Downloads : UrlFits(dls[d], kind)'
    BY <1>1 DEF AccessInv, UrlFits
  <1>5. OneCreates' /\ WholeObjects'
    BY <1>1 DEF AccessInv, OneCreates, Creating, WholeObjects
  <1> QED
    BY <1>2, <1>3, <1>4, <1>5 DEF AccessInv

\* A step that answers a request keeps it if the answer is right.
LEMMA Answering ==
  ASSUME AccessInv, NEW r \in Reqs, NEW q \in AccessRequests, Reads(r, q), q.pc = "done",
         SameRequest(q, areq[r]), AnswerFacts(q)
  PROVE  AccessInv'
  <1>1. StepOps(areq[r])
    BY DEF AccessInv, AccessOK
  <1>2. StepOps(q)
    BY <1>1 DEF StepOps, SameRequest, Sending
  <1>3. ReadFacts(q) /\ DownloadFacts(q) /\ BlobFacts(q)
    BY DEF ReadFacts, DownloadFacts, BlobFacts, Sound, Sending
  <1> QED
    BY <1>2, <1>3, ReadingRows DEF AccessOK, Creating

\* A refusal after a failed call is right of every request.
LEMMA Refusing ==
  ASSUME AccessInv, NEW r \in Reqs, NEW res \in {"error", "hidden"}, Reads(r, Refused(r, res))
  PROVE  AccessInv'
  <1>1. areq[r] \in AccessRequests /\ res \in Results
    BY DEF AccessInv, AccessTypeOK, AccessRequests, Results
  <1>2. AnswerFacts(Refused(r, res))
    BY <1>1, AnsweredIs DEF AnswerFacts, Sent
  <1> QED
    BY <1>1, <1>2, AnsweredIs, Answering

-----------------------------------------------------------------------------
(* AccessRequests come and go. *)

\* A new request has read nothing.
LEMMA AskedIs ==
  ASSUME NEW op \in Gets \cup Lists, NEW u \in Users, NEW f \in Files,
         NEW d \in Downloads \cup {NoDownload}, NEW of \in {"live", "trash"}, NEW step \in Steps
  PROVE  /\ Asked(op, u, f, d, of, step) \in AccessRequests
         /\ Asked(op, u, f, d, of, step).pc = step /\ Asked(op, u, f, d, of, step).op = op
         /\ Asked(op, u, f, d, of, step).d = d /\ Asked(op, u, f, d, of, step).of = of
         /\ Asked(op, u, f, d, of, step).failed = "no" /\ ~Asked(op, u, f, d, of, step).mayRead
  <1>1. Fresh \in Rows /\ "LOCAL" \in Kinds /\ "no" \in Failures \cap Oddities /\ "none" \in Results
    BY DEF Fresh, Rows, Visibilities, Kinds, Failures, Oddities, Results
  <1>2. NoRecord \in Records
    BY DEF NoRecord, Records, Urls
  <1> QED
    BY <1>1, <1>2 DEF Asked, AccessRequests

\* A new request is in order at its first step.
LEMMA Asking ==
  ASSUME AccessInv, NEW r \in Reqs, NEW op \in Gets \cup Lists, NEW u \in Users, NEW f \in Files,
         NEW d \in Downloads \cup {NoDownload}, NEW of \in {"live", "trash"},
         NEW step \in {"idle", "load", "listGrant", "join", "gate", "lookup"},
         step = "join" => op = "getMedia", step = "load" => op \in Gets,
         step = "gate" => op = "listMedia", step = "listGrant" => op \in Lists,
         step = "lookup" => op = "stream" /\ d \in Downloads /\ (dls[d].url # "NULL" \/ dls[d].lost),
         op \in {"getMedia", "listMedia", "stream"} => of = "live",
         op = "stream" => step = "lookup",
         Reads(r, Asked(op, u, f, d, of, step))
  PROVE  AccessInv'
  <1> DEFINE q == Asked(op, u, f, d, of, step)
  <1>1. /\ q \in AccessRequests /\ q.pc = step /\ q.op = op /\ q.d = d /\ q.of = of
        /\ q.failed = "no"
        /\ ~q.mayRead
    BY AskedIs DEF Steps, Waiting
  <1> HIDE DEF q
  <1>2. StepOps(q)
    BY <1>1 DEF StepOps, Sending
  <1>3. ReadFacts(q) /\ DownloadFacts(q) /\ BlobFacts(q) /\ AnswerFacts(q)
    BY <1>1 DEF ReadFacts, DownloadFacts, BlobFacts, Sound, AnswerFacts, Sent, Sending
  <1>4. ~Creating(q)
    BY <1>1 DEF Creating
  <1> QED
    BY <1>1, <1>2, <1>3, <1>4, ReadingRows DEF AccessOK, q

LEMMA AskKeeps ==
  ASSUME AccessInv, NEW r \in Reqs, NEW u \in Users, NEW f \in Files, Ask(r, u, f)
  PROVE  AccessInv'
  <1>1. PICK first \in {<<"get", "load">>, <<"list", "listGrant">>, <<"getMedia", "join">>,
                        <<"listMedia", "gate">>, <<"create", "load">>} :
              Reads(r, Asked(first[1], u, f, NoDownload, "live", first[2]))
    BY DEF Ask
  <1> QED
    BY <1>1, Asking DEF Gets, Lists

LEMMA AskTrashKeeps ==
  ASSUME AccessInv, NEW r \in Reqs, NEW u \in Users, NEW f \in Files, AskTrash(r, u, f)
  PROVE  AccessInv'
  <1>1. PICK first \in {<<"get", "load">>, <<"list", "listGrant">>} :
              Reads(r, Asked(first[1], u, f, NoDownload, "trash", first[2]))
    BY DEF AskTrash
  <1> QED
    BY <1>1, Asking DEF Gets, Lists

LEMMA AskRawKeeps ==
  ASSUME AccessInv, NEW r \in Reqs, NEW u \in Users, NEW f \in Files, NEW d \in Downloads,
         AskRaw(r, u, f, d)
  PROVE  AccessInv'
  BY Asking DEF AskRaw, Gets

LEMMA DeliverKeeps ==
  ASSUME AccessInv, NEW r \in Reqs, Deliver(r)
  PROVE  AccessInv'
  <1>1. (CHOOSE u \in Users : TRUE) \in Users /\ (CHOOSE f \in Files : TRUE) \in Files
    BY AccessAssumption
  <1> QED
    BY <1>1, Asking DEF Deliver, Idle, Gets

-----------------------------------------------------------------------------
(* GetFile and GetStorageMedia. *)

\* What the invariant says of one request.
LEMMA TheRequest ==
  ASSUME AccessInv, NEW r \in Reqs
  PROVE  /\ areq[r] \in AccessRequests /\ StepOps(areq[r]) /\ ReadFacts(areq[r])
         /\ DownloadFacts(areq[r]) /\ BlobFacts(areq[r]) /\ AnswerFacts(areq[r])
  BY DEF AccessInv, AccessTypeOK, AccessOK, AccessRequests

\* "hidden" is right of a row that could not be seen.
LEMMA HiddenIsRight ==
  ASSUME NEW q \in AccessRequests, q.result = "hidden", ~q.could
  PROVE  AnswerFacts(q)
  BY DEF AnswerFacts, Sent

\* So it is of a row that cannot be seen now.
LEMMA Hiding ==
  ASSUME AccessInv, NEW r \in Reqs, Reads(r, AnsweredNow(r, "hidden")), ~CouldNow(r)
  PROVE  AccessInv'
  <1>1. areq[r] \in AccessRequests /\ "hidden" \in Results
    BY TheRequest DEF Results
  <1> QED
    BY <1>1, AnsweredIs, HiddenIsRight, Answering

LEMMA JoinKeeps ==
  ASSUME AccessInv, NEW r \in Reqs, Join(r)
  PROVE  AccessInv'
  <1>0. /\ areq[r] \in AccessRequests /\ areq[r].pc = "join" /\ areq[r].op = "getMedia"
        /\ areq[r].of = "live" /\ areq[r].failed = "no"
    BY TheRequest DEF Join, On, StepOps, Sending
  <1>1. CASE Reads(r, Goto(r, "load"))
    <2>1. /\ Goto(r, "load") \in AccessRequests /\ Goto(r, "load").pc = "load"
          /\ Goto(r, "load").op = "getMedia" /\ Goto(r, "load").of = "live"
          /\ Goto(r, "load").failed = "no"
      BY <1>0, GotoIs DEF SameRequest, Steps
    <2>2. AccessOK(Goto(r, "load")) /\ ~Creating(Goto(r, "load"))
      BY <2>1
      DEF AccessOK, StepOps, ReadFacts, DownloadFacts, BlobFacts, Sound, AnswerFacts, Sent,
         Creating, Sending, Gets
    <2> QED
      BY <1>1, <2>1, <2>2, ReadingRows
  <1>2. CASE row[areq[r].f].state # "live" /\ Reads(r, AnsweredNow(r, "hidden"))
    BY <1>0, <1>2, Hiding, MaySeeIs DEF CouldNow
  <1>3. CASE Reads(r, Refused(r, "error"))
    BY <1>3, Refusing
  <1> QED
    BY <1>1, <1>2, <1>3 DEF Join

LEMMA LoadKeeps ==
  ASSUME AccessInv, NEW r \in Reqs, Load(r)
  PROVE  AccessInv'
  <1> DEFINE odd == IF areq[r].op = "stream" /\ ~Uploaded(areq[r].f) THEN "bare" ELSE "no"
             q == [Goto(r, "grant") EXCEPT !.copy = row[areq[r].f], !.could = CouldNow(r),
                                           !.odd = odd]
  <1>0. /\ areq[r] \in AccessRequests /\ areq[r].pc = "load" /\ StepOps(areq[r])
        /\ DownloadFacts(areq[r]) /\ BlobFacts(areq[r])
    BY TheRequest DEF Load, On
  <1>1. CASE row[areq[r].f].state = areq[r].of /\ Reads(r, q)
    <2>1. row[areq[r].f] \in Rows
      BY <1>0 DEF AccessInv, AccessTypeOK, AccessRequests
    <2>2. /\ q \in AccessRequests /\ q.pc = "grant" /\ q.op = areq[r].op /\ q.u = areq[r].u
          /\ q.f = areq[r].f /\ q.of = areq[r].of /\ q.dl = areq[r].dl /\ q.odd = odd
          /\ q.failed = areq[r].failed /\ q.copy = row[q.f] /\ q.could = CouldNow(r)
      <3>1. "grant" \in Steps /\ CouldNow(r) \in BOOLEAN /\ odd \in Oddities
        BY MaySeeIs DEF Steps, CouldNow, Oddities
      <3>2. /\ Goto(r, "grant") \in AccessRequests /\ Goto(r, "grant").pc = "grant"
            /\ SameRequest(Goto(r, "grant"), areq[r])
            /\ Goto(r, "grant").failed = areq[r].failed
        BY <1>0, <3>1, GotoIs
      <3> QED
        BY <2>1, <3>1, <3>2 DEF SameRequest, AccessRequests
    <2>3. q.could <=> q.u \in Admins \/ (q.u \in readers /\ Admits(q.u, q.copy))
      BY <1>1, <2>2, MaySeeIs DEF CouldNow
    <2> HIDE DEF q
    <2>4. StepOps(q)
      BY <1>0, <2>2 DEF StepOps, Sending
    <2>5. ReadFacts(q) /\ AnswerFacts(q)
      BY <2>2, <2>3 DEF ReadFacts, AnswerFacts, Sending
    <2>6. DownloadFacts(q)
      BY <1>0, <2>2 DEF DownloadFacts
    <2>7. BlobFacts(q)
      BY <1>0, <2>2 DEF BlobFacts, Sound, Uploaded
    <2> QED
      BY <1>1, <2>2, <2>4, <2>5, <2>6, <2>7, ReadingRows DEF AccessOK, Creating
  <1>2. CASE row[areq[r].f].state # areq[r].of /\ Reads(r, AnsweredNow(r, "hidden"))
    BY <1>2, Hiding, MaySeeIs DEF CouldNow
  <1>3. CASE Reads(r, Refused(r, "error"))
    BY <1>3, Refusing
  <1> QED
    BY <1>1, <1>2, <1>3 DEF Load

LEMMA GrantKeeps ==
  ASSUME AccessInv, NEW r \in Reqs, Grant(r)
  PROVE  AccessInv'
  <1>0. /\ areq[r] \in AccessRequests /\ areq[r].pc = "grant" /\ StepOps(areq[r])
        /\ ReadFacts(areq[r])
        /\ DownloadFacts(areq[r]) /\ BlobFacts(areq[r])
    BY TheRequest DEF Grant, On
  <1>1. CASE (areq[r].u \in Admins \/ areq[r].u \in readers) /\ Reads(r, Goto(r, "verdict"))
    <2> DEFINE q == Goto(r, "verdict")
    <2>1. /\ q \in AccessRequests /\ q.pc = "verdict" /\ SameRequest(q, areq[r])
          /\ q.failed = areq[r].failed /\ q.copy = areq[r].copy /\ q.could = areq[r].could
      BY <1>0, GotoIs DEF Steps
    <2> HIDE DEF q
    <2>2. StepOps(q)
      BY <1>0, <2>1 DEF StepOps, SameRequest, Sending
    <2>3. ReadFacts(q) /\ AnswerFacts(q)
      BY <1>0, <1>1, <2>1 DEF ReadFacts, AnswerFacts, Sending, SameRequest
    <2>4. DownloadFacts(q) /\ BlobFacts(q)
      BY <1>0, <2>1 DEF DownloadFacts, BlobFacts, Sound, SameRequest
    <2> QED
      BY <1>1, <2>1, <2>2, <2>3, <2>4, ReadingRows DEF AccessOK, Creating, q
  <1>2. CASE Reads(r, Refused(r, "hidden"))
    BY <1>2, Refusing
  <1>3. CASE /\ ~(areq[r].u \in Admins \/ areq[r].u \in readers)
             /\ Reads(r, Answered(r, "hidden"))
    <2> DEFINE q == Answered(r, "hidden")
    <2>1. /\ q \in AccessRequests /\ q.pc = "done" /\ SameRequest(q, areq[r])
          /\ q.result = "hidden"
          /\ q.could = areq[r].could /\ q.failed = areq[r].failed
      BY <1>0, AnsweredIs, SomeResults
    <2> HIDE DEF q
    <2>2. AnswerFacts(q)
      BY <1>0, <1>3, <2>1 DEF AnswerFacts, Sent, ReadFacts, SameRequest
    <2> QED
      BY <1>3, <2>1, <2>2, Answering DEF q
  <1> QED
    BY <1>1, <1>2, <1>3 DEF Grant, IsAdmin

-----------------------------------------------------------------------------
\* With both system names at hand fileVisible's switch is MaySee's.
LEMMA VisibleIs ==
  ASSUME NEW u, NEW x
  PROVE  Visible(u, x, FALSE, FALSE) <=> u \in Admins \/ Admits(u, x)
  BY DEF Visible, Admits

\* What Verdict makes of a request, but for "failed".
LEMMA VerdictRight ==
  ASSUME AccessInv, NEW r \in Reqs, On(r, "verdict"), NEW noViewer \in BOOLEAN,
         NEW noOwner \in BOOLEAN, NEW q \in AccessRequests,
         SameRequest(q, areq[r]), q.could = areq[r].could,
         q.failed = IF noViewer \/ noOwner THEN "blind" ELSE areq[r].failed,
         IF Visible(areq[r].u, areq[r].copy, noViewer, noOwner)
         THEN \/ areq[r].op \in {"get", "getMedia"} /\ q.pc = "done" /\ q.result = "shown"
              \/ areq[r].op = "create" /\ q.pc = "insert"
              \/ areq[r].op = "stream" /\ areq[r].dl.f = areq[r].f /\ q.pc = "storage"
              \/ /\ areq[r].op = "stream" /\ areq[r].dl.f # areq[r].f
                 /\ q.pc = "done" /\ q.result = "hidden"
         ELSE q.pc = "done" /\ q.result = "hidden",
         Reads(r, q)
  PROVE  AccessInv'
  <1>0. /\ areq[r].pc = "verdict" /\ StepOps(areq[r]) /\ ReadFacts(areq[r])
        /\ DownloadFacts(areq[r]) /\ BlobFacts(areq[r])
        /\ areq[r].failed = "no" /\ areq[r].op \in Gets
    BY TheRequest DEF On, StepOps, Sending
  <1>1. /\ q.failed \in {"no", "blind"}
        /\ q.failed = "no" /\ ~q.raced =>
              (Visible(areq[r].u, areq[r].copy, noViewer, noOwner) <=> q.could)
    BY <1>0, VisibleIs DEF ReadFacts, SameRequest
  <1>2. CASE q.pc = "done"
    <2>1. AnswerFacts(q)
      BY <1>0, <1>1, <1>2 DEF AnswerFacts, Sent, SameRequest, Gets, Lists
    <2> QED
      BY <1>2, <2>1, Answering
  <1>3. CASE q.pc \in {"insert", "storage"}
    <2>1. StepOps(q)
      BY <1>0, <1>1, <1>3 DEF StepOps, SameRequest, Sending
    <2>2. ReadFacts(q) /\ AnswerFacts(q)
      BY <1>0, <1>1, <1>3 DEF ReadFacts, AnswerFacts, SameRequest, Sending
    <2>3. DownloadFacts(q) /\ BlobFacts(q)
      BY <1>0, <1>3 DEF DownloadFacts, BlobFacts, Sound, SameRequest
    <2> QED
      BY <1>3, <2>1, <2>2, <2>3, ReadingRows DEF AccessOK, Creating
  <1> QED
    BY <1>2, <1>3

LEMMA VerdictKeeps ==
  ASSUME AccessInv, NEW r \in Reqs, Verdict(r)
  PROVE  AccessInv'
  <1>0. areq[r] \in AccessRequests /\ On(r, "verdict") /\ areq[r].op \in Gets
    BY TheRequest DEF Verdict, On, StepOps
  <1>1. PICK noViewer \in BOOLEAN, noOwner \in BOOLEAN :
          LET next == IF Visible(areq[r].u, areq[r].copy, noViewer, noOwner)
                      THEN Found(r) ELSE Answered(r, "hidden")
          IN Reads(r, [next EXCEPT !.failed = IF noViewer \/ noOwner THEN "blind" ELSE @])
    BY DEF Verdict
  <1> DEFINE seen == Visible(areq[r].u, areq[r].copy, noViewer, noOwner)
             next == IF seen THEN Found(r) ELSE Answered(r, "hidden")
             q == [next EXCEPT !.failed = IF noViewer \/ noOwner THEN "blind" ELSE @]
  <1>2. /\ next \in AccessRequests /\ SameRequest(next, areq[r]) /\ next.could = areq[r].could
        /\ next.failed = areq[r].failed
        /\ IF seen
           THEN \/ areq[r].op \in {"get", "getMedia"} /\ next.pc = "done" /\ next.result = "shown"
                \/ areq[r].op = "create" /\ next.pc = "insert"
                \/ areq[r].op = "stream" /\ areq[r].dl.f = areq[r].f /\ next.pc = "storage"
                \/ /\ areq[r].op = "stream" /\ areq[r].dl.f # areq[r].f
                   /\ next.pc = "done" /\ next.result = "hidden"
           ELSE next.pc = "done" /\ next.result = "hidden"
    <2>1. {"shown", "hidden"} \subseteq Results /\ {"insert", "storage"} \subseteq Steps
      BY DEF Results, Steps
    <2>2. CASE ~seen
      BY <1>0, <2>1, <2>2, AnsweredIs
    <2>3. CASE seen /\ areq[r].op \in {"get", "getMedia"}
      BY <1>0, <2>1, <2>3, AnsweredIs DEF Found
    <2>4. CASE seen /\ areq[r].op = "create"
      BY <1>0, <2>1, <2>4, GotoIs DEF Found
    <2>5. CASE seen /\ areq[r].op = "stream"
      BY <1>0, <2>1, <2>5, GotoIs, AnsweredIs DEF Found
    <2> QED
      BY <1>0, <2>2, <2>3, <2>4, <2>5 DEF Gets
  <1> HIDE DEF next
  <1>3. /\ q \in AccessRequests /\ q.pc = next.pc /\ q.result = next.result
        /\ q.could = areq[r].could
        /\ SameRequest(q, areq[r])
        /\ q.failed = IF noViewer \/ noOwner THEN "blind" ELSE areq[r].failed
    BY <1>2 DEF AccessRequests, SameRequest, Failures
  <1>4. Reads(r, q)
    BY <1>1 DEF next
  <1> HIDE DEF q
  <1> QED
    BY <1>0, <1>2, <1>3, <1>4, VerdictRight

-----------------------------------------------------------------------------
(* ListFiles and ListStorageMedia. *)

\* A request that goes on to a step of the lists, with or without the grant.
LEMMA Listing ==
  ASSUME AccessInv, NEW r \in Reqs, NEW q \in AccessRequests, Reads(r, q),
         q.pc \in {"listGrant", "rows", "reload"},
         StepOps(q), ReadFacts(q)
  PROVE  AccessInv'
  <1>1. DownloadFacts(q) /\ BlobFacts(q) /\ AnswerFacts(q)
    BY DEF DownloadFacts, BlobFacts, Sound, AnswerFacts, Sent
  <1> QED
    BY <1>1, ReadingRows DEF AccessOK, Creating

LEMMA GateKeeps ==
  ASSUME AccessInv, NEW r \in Reqs, Gate(r)
  PROVE  AccessInv'
  <1>0. areq[r] \in AccessRequests /\ areq[r].pc = "gate" /\ StepOps(areq[r])
    BY TheRequest DEF Gate, On
  <1>1. CASE Reads(r, Goto(r, "listGrant"))
    <2> DEFINE q == Goto(r, "listGrant")
    <2>1. /\ q \in AccessRequests /\ q.pc = "listGrant" /\ SameRequest(q, areq[r])
          /\ q.failed = areq[r].failed /\ q.mayRead = areq[r].mayRead
      BY <1>0, GotoIs DEF Steps
    <2> HIDE DEF q
    <2>2. StepOps(q) /\ ReadFacts(q)
      BY <1>0, <2>1 DEF StepOps, ReadFacts, SameRequest, Sending, Lists
    <2> QED
      BY <1>1, <2>1, <2>2, Listing DEF q
  <1>2. CASE Reads(r, Refused(r, "hidden"))
    BY <1>2, Refusing
  <1>3. CASE /\ ~(areq[r].u \in Admins \/ areq[r].u \in readers)
             /\ Reads(r, AnsweredNow(r, "hidden"))
    BY <1>3, Hiding, MaySeeIs DEF CouldNow
  <1> QED
    BY <1>1, <1>2, <1>3 DEF Gate, IsAdmin

LEMMA ListGrantKeeps ==
  ASSUME AccessInv, NEW r \in Reqs, ListGrant(r)
  PROVE  AccessInv'
  <1>0. areq[r] \in AccessRequests /\ areq[r].pc = "listGrant" /\ StepOps(areq[r])
    BY TheRequest DEF ListGrant, On
  <1>g. /\ Goto(r, "rows") \in AccessRequests /\ Goto(r, "rows").pc = "rows"
        /\ SameRequest(Goto(r, "rows"), areq[r]) /\ Goto(r, "rows").failed = areq[r].failed
        /\ Goto(r, "rows").mayRead = areq[r].mayRead
    BY <1>0, GotoIs DEF Steps
  <1>1. CASE Reads(r, [Goto(r, "rows") EXCEPT !.mayRead = areq[r].u \in readers])
    <2> DEFINE q == [Goto(r, "rows") EXCEPT !.mayRead = areq[r].u \in readers]
    <2>1. /\ q \in AccessRequests /\ q.pc = "rows" /\ SameRequest(q, areq[r])
          /\ q.failed = areq[r].failed /\ (q.mayRead <=> areq[r].u \in readers)
      <3> DEFINE b == areq[r].u \in readers
      <3>1. b \in BOOLEAN /\ (b <=> areq[r].u \in readers)
        OBVIOUS
      <3> HIDE DEF b
      <3> QED
        BY <1>g, <3>1 DEF AccessRequests, SameRequest
    <2> HIDE DEF q
    <2>2. StepOps(q) /\ ReadFacts(q)
      BY <1>0, <2>1 DEF StepOps, ReadFacts, SameRequest, Sending
    <2> QED
      BY <1>1, <2>1, <2>2, Listing DEF q
  <1>2. CASE Reads(r, Refused(r, "error"))
    BY <1>2, Refusing
  <1>3. CASE areq[r].op = "list" /\ Reads(r, [Goto(r, "rows") EXCEPT !.failed = "yes"])
    <2> DEFINE q == [Goto(r, "rows") EXCEPT !.failed = "yes"]
    <2>1. /\ q \in AccessRequests /\ q.pc = "rows" /\ SameRequest(q, areq[r])
          /\ q.failed = "yes" /\ q.mayRead = areq[r].mayRead
      BY <1>g DEF AccessRequests, SameRequest, Failures
    <2> HIDE DEF q
    <2>2. StepOps(q) /\ ReadFacts(q)
      BY <1>0, <1>3, <2>1 DEF StepOps, ReadFacts, SameRequest, Sending, Lists
    <2> QED
      BY <1>3, <2>1, <2>2, Listing DEF q
  <1> QED
    BY <1>1, <1>2, <1>3 DEF ListGrant

\* The WHERE clause is MaySee, and admits a SYSTEM file without an owner as well.
LEMMA ClauseIs ==
  ASSUME NEW u \in Users, NEW x \in Rows, NEW mayRead \in BOOLEAN
  PROVE  VisClause(u, x, mayRead) <=>
            \/ u \in Admins
            \/ mayRead /\ (Admits(u, x) \/ (x.vis = "SYSTEM" /\ x.owner = NoOne))
  BY AccessAssumption DEF VisClause, OwnerSystem, Admits, Rows

LEMMA ListRowsKeeps ==
  ASSUME AccessInv, NEW r \in Reqs, ListRows(r)
  PROVE  AccessInv'
  <1>0. /\ areq[r] \in AccessRequests /\ areq[r].pc = "rows" /\ StepOps(areq[r])
        /\ ReadFacts(areq[r])
        /\ areq[r].op \in Lists
    BY TheRequest DEF ListRows, On, StepOps
  <1>1. /\ row[areq[r].f] \in Rows /\ areq[r].u \in Users /\ areq[r].mayRead \in BOOLEAN
    BY <1>0 DEF AccessInv, AccessTypeOK, AccessRequests
  <1>2. Listed(r) <=>
          /\ row[areq[r].f].state = areq[r].of
          /\ \/ areq[r].u \in Admins
             \/ /\ areq[r].mayRead
                /\ \/ Admits(areq[r].u, row[areq[r].f])
                   \/ row[areq[r].f].vis = "SYSTEM" /\ row[areq[r].f].owner = NoOne
    BY <1>1, ClauseIs DEF Listed
  <1>3. CouldNow(r) <=>
          /\ row[areq[r].f].state = areq[r].of
          /\ areq[r].u \in Admins \/ (areq[r].u \in readers /\ Admits(areq[r].u, row[areq[r].f]))
    BY MaySeeIs DEF CouldNow
  <1>4. areq[r].failed = "no" \/ (areq[r].failed = "yes" /\ ~areq[r].mayRead)
    BY <1>0 DEF StepOps
  <1>5. ~areq[r].raced /\ areq[r].failed = "no" => (areq[r].mayRead <=> areq[r].u \in readers)
    BY <1>0 DEF ReadFacts
  <1>6. CASE ~Listed(r) /\ Reads(r, AnsweredNow(r, "hidden"))
    <2> DEFINE q == AnsweredNow(r, "hidden")
    <2>1. /\ q \in AccessRequests /\ q.pc = "done" /\ SameRequest(q, areq[r])
          /\ q.result = "hidden"
          /\ q.could = CouldNow(r) /\ q.failed = areq[r].failed
      BY <1>0, AnsweredIs, SomeResults
    <2> HIDE DEF q
    <2>2. AnswerFacts(q)
      BY <1>0, <1>2, <1>3, <1>4, <1>5, <1>6, <2>1 DEF AnswerFacts, Sent, SameRequest, Lists
    <2> QED
      BY <1>6, <2>1, <2>2, Answering DEF q
  <1> DEFINE x == row[areq[r].f]
             odd == IF x.vis = "SYSTEM" /\ x.owner = NoOne THEN "orphan" ELSE "no"
  <1>o. odd \in Oddities
    BY DEF Oddities
  <1>7. CASE Listed(r) /\ areq[r].op = "list" /\ Reads(r, [AnsweredNow(r, "shown") EXCEPT !.odd = odd])
    <2> DEFINE q == [AnsweredNow(r, "shown") EXCEPT !.odd = odd]
    <2>1. /\ q \in AccessRequests /\ q.pc = "done" /\ q.op = areq[r].op
          /\ q.raced = areq[r].raced
          /\ q.of = areq[r].of /\ q.odd = odd /\ q.result = "shown"
          /\ q.could = CouldNow(r) /\ q.failed = areq[r].failed
      <3>1. /\ AnsweredNow(r, "shown") \in AccessRequests /\ AnsweredNow(r, "shown").pc = "done"
            /\ SameRequest(AnsweredNow(r, "shown"), areq[r])
            /\ AnsweredNow(r, "shown").result = "shown"
            /\ AnsweredNow(r, "shown").could = CouldNow(r)
            /\ AnsweredNow(r, "shown").failed = areq[r].failed
        BY <1>0, AnsweredIs, SomeResults
      <3> QED
        BY <1>o, <3>1 DEF AccessRequests, SameRequest
    <2> HIDE DEF q
    <2>2. AnswerFacts(q)
      BY <1>0, <1>2, <1>3, <1>4, <1>5, <1>7, <2>1 DEF AnswerFacts, Sent, Lists
    <2>3. StepOps(q) /\ ReadFacts(q) /\ DownloadFacts(q) /\ BlobFacts(q) /\ ~Creating(q)
      BY <1>0, <1>7, <2>1 DEF StepOps, ReadFacts, DownloadFacts, BlobFacts, Sending, Creating
    <2> QED
      BY <1>7, <2>1, <2>2, <2>3, ReadingRows DEF AccessOK, q
  <1>8. CASE Listed(r) /\ areq[r].op = "listMedia" /\ Reads(r, [Goto(r, "reload") EXCEPT !.odd = odd])
    <2> DEFINE q == [Goto(r, "reload") EXCEPT !.odd = odd]
    <2>1. /\ q \in AccessRequests /\ q.pc = "reload" /\ q.op = areq[r].op
          /\ q.raced = areq[r].raced
          /\ q.u = areq[r].u /\ q.f = areq[r].f /\ q.of = areq[r].of /\ q.odd = odd
          /\ q.failed = areq[r].failed
      <3>1. /\ Goto(r, "reload") \in AccessRequests /\ Goto(r, "reload").pc = "reload"
            /\ SameRequest(Goto(r, "reload"), areq[r])
            /\ Goto(r, "reload").failed = areq[r].failed
        BY <1>0, GotoIs DEF Steps
      <3> QED
        BY <1>o, <3>1 DEF AccessRequests, SameRequest
    <2> HIDE DEF q
    <2>2. StepOps(q)
      BY <1>0, <1>8, <2>1 DEF StepOps, Sending
    <2>3. ReadFacts(q)
      BY <1>0, <1>2, <1>4, <1>5, <1>8, <2>1 DEF ReadFacts, StepOps, Sending
    <2> QED
      BY <1>8, <2>1, <2>2, <2>3, Listing DEF q
  <1>9. CASE Reads(r, Refused(r, "error"))
    BY <1>9, Refusing
  <1> QED
    BY <1>6, <1>7, <1>8, <1>9 DEF ListRows

LEMMA ReloadKeeps ==
  ASSUME AccessInv, NEW r \in Reqs, Reload(r)
  PROVE  AccessInv'
  <1>0. /\ areq[r] \in AccessRequests /\ areq[r].pc = "reload" /\ StepOps(areq[r])
        /\ ReadFacts(areq[r])
        /\ areq[r].op = "listMedia" /\ areq[r].of = "live"
    BY TheRequest DEF Reload, On, StepOps
  <1>1. CouldNow(r) <=>
          /\ row[areq[r].f].state = "live"
          /\ areq[r].u \in Admins \/ (areq[r].u \in readers /\ Admits(areq[r].u, row[areq[r].f]))
    BY <1>0, MaySeeIs DEF CouldNow
  <1>2. CASE row[areq[r].f].state = "live" /\ Reads(r, AnsweredNow(r, "shown"))
    <2> DEFINE q == AnsweredNow(r, "shown")
    <2>1. /\ q \in AccessRequests /\ q.pc = "done" /\ SameRequest(q, areq[r])
          /\ q.result = "shown"
          /\ q.could = CouldNow(r)
      BY <1>0, AnsweredIs, SomeResults
    <2> HIDE DEF q
    <2>2. AnswerFacts(q)
      BY <1>0, <1>1, <1>2, <2>1 DEF AnswerFacts, Sent, ReadFacts, SameRequest, Lists
    <2> QED
      BY <1>2, <2>1, <2>2, Answering DEF q
  <1>3. CASE row[areq[r].f].state # "live" /\ Reads(r, AnsweredNow(r, "hidden"))
    BY <1>1, <1>3, Hiding
  <1>4. CASE Reads(r, Refused(r, "hidden"))
    BY <1>4, Refusing
  <1> QED
    BY <1>2, <1>3, <1>4 DEF Reload

-----------------------------------------------------------------------------
(* createDownload. *)

\* What a step keeps that changes one download d and one request r, no row, grant or type.
LEMMA WritingRows ==
  ASSUME AccessInv, NEW r \in Reqs, NEW q \in AccessRequests, NEW d \in Downloads, NEW x \in Records,
         areq' = [areq EXCEPT ![r] = q], dls' = [dls EXCEPT ![d] = x],
         UNCHANGED <<row, readers, kind, blob, changes>>,
         StepOps(q), ReadFacts(q), BlobFacts(q), AnswerFacts(q), UrlFits(x, kind),
         \A s \in Reqs : DownloadFacts(areq[s])',
         Creating(q) => \A s \in Reqs \ {r} : Creating(areq[s]) => areq[s].d # q.d
  PROVE  AccessInv'
  <1>0. areq \in [Reqs -> AccessRequests] /\ dls \in [Downloads -> Records]
    BY DEF AccessInv, AccessTypeOK, AccessRequests
  <1>1. /\ areq' \in [Reqs -> AccessRequests] /\ areq'[r] = q
        /\ \A s \in Reqs : s # r => areq'[s] = areq[s]
        /\ dls' \in [Downloads -> Records] /\ dls'[d] = x
        /\ \A e \in Downloads : e # d => dls'[e] = dls[e]
    BY <1>0
  <1>2. AccessTypeOK'
    BY <1>1 DEF AccessInv, AccessTypeOK, AccessRequests
  <1>3. ASSUME NEW s \in Reqs PROVE AccessOK(areq[s])'
    <2>1. StepOps(areq'[s]) /\ ReadFacts(areq'[s]) /\ BlobFacts(areq'[s]) /\ AnswerFacts(areq'[s])
      BY <1>1 DEF AccessInv, AccessOK
    <2> QED
      BY <2>1, FactsStay DEF AccessOK
  <1>4. \A e \in Downloads : UrlFits(dls[e], kind)'
    BY <1>1 DEF AccessInv, UrlFits
  <1>5. OneCreates' /\ WholeObjects'
    BY <1>1 DEF AccessInv, OneCreates, Creating, WholeObjects
  <1> QED
    BY <1>2, <1>3, <1>4, <1>5 DEF AccessInv

LEMMA InsertKeeps ==
  ASSUME AccessInv, NEW r \in Reqs, InsertDownload(r)
  PROVE  AccessInv'
  <1>0. /\ areq[r] \in AccessRequests /\ areq[r].pc = "insert" /\ StepOps(areq[r])
        /\ ReadFacts(areq[r])
        /\ areq[r].op = "create" /\ areq \in [Reqs -> AccessRequests]
        /\ dls \in [Downloads -> Records]
    BY TheRequest DEF InsertDownload, On, StepOps, AccessInv, AccessTypeOK, AccessRequests
  <1>1. CASE Reads(r, Refused(r, "error"))
    BY <1>1, Refusing
  <1>2. ASSUME NEW d \in FreeDownloads,
               dls' = [dls EXCEPT ![d] = [NoRecord EXCEPT
                               !.f = areq[r].f, !.owner = areq[r].u, !.expired = FALSE]],
               areq' = [areq EXCEPT ![r] = [Goto(r, "urlStorage") EXCEPT !.d = d]],
               UNCHANGED <<row, readers, kind, blob, changes>>
        PROVE  AccessInv'
    <2> DEFINE x == [NoRecord EXCEPT !.f = areq[r].f, !.owner = areq[r].u, !.expired = FALSE]
               q == [Goto(r, "urlStorage") EXCEPT !.d = d]
    <2>1. d \in Downloads /\ \A s \in Reqs : areq[s].d = d => areq[s].pc \in Waiting
      BY DEF FreeDownloads, Ended
    <2>2. /\ x \in Records /\ x.url = "NULL" /\ ~x.lost
      BY <1>0 DEF Records, NoRecord, AccessRequests, Urls
    <2>3. /\ q \in AccessRequests /\ q.pc = "urlStorage" /\ q.d = d /\ q.op = "create"
          /\ q.of = areq[r].of /\ q.raced = areq[r].raced
          /\ q.could = areq[r].could /\ q.failed = areq[r].failed
      <3>1. /\ Goto(r, "urlStorage") \in AccessRequests
            /\ Goto(r, "urlStorage").pc = "urlStorage"
            /\ SameRequest(Goto(r, "urlStorage"), areq[r])
            /\ Goto(r, "urlStorage").could = areq[r].could
            /\ Goto(r, "urlStorage").failed = areq[r].failed
        BY <1>0, GotoIs DEF Steps
      <3> QED
        BY <1>0, <2>1, <3>1 DEF AccessRequests, SameRequest
    <2> HIDE DEF q, x
    <2>4. /\ StepOps(q) /\ ReadFacts(q) /\ BlobFacts(q) /\ AnswerFacts(q)
          /\ UrlFits(x, kind)
      BY <1>0, <2>2, <2>3 DEF StepOps, ReadFacts, BlobFacts, AnswerFacts, UrlFits, Sending
    <2>5. /\ dls'[d] = x /\ areq'[r] = q
          /\ \A e \in Downloads : e # d => dls'[e] = dls[e]
          /\ \A s \in Reqs : s # r => areq'[s] = areq[s]
          /\ areq' = [areq EXCEPT ![r] = q] /\ dls' = [dls EXCEPT ![d] = x]
      BY <1>0, <1>2, <2>1 DEF q, x
    <2>6. ASSUME NEW s \in Reqs PROVE DownloadFacts(areq[s])'
      <3>1. CASE s = r
        BY <2>1, <2>2, <2>3, <2>5, <3>1 DEF DownloadFacts
      <3>2. CASE s # r
        <4>1. DownloadFacts(areq[s]) /\ areq'[s] = areq[s] /\ kind' = kind
          BY <1>2, <2>5, <3>2, TheRequest
        <4>2. areq[s].pc \in {"lookup", "urlStorage", "url"} => areq[s].d # d
          BY <2>1 DEF Waiting
        <4> QED
          BY <2>5, <4>1, <4>2 DEF DownloadFacts, UrlFits
      <3> QED
        BY <3>1, <3>2
    <2>7. \A s \in Reqs \ {r} : Creating(areq[s]) => areq[s].d # q.d
      BY <2>1, <2>3 DEF Creating, Waiting
    <2> QED
      BY <1>2, <2>1, <2>2, <2>3, <2>4, <2>5, <2>6, <2>7, WritingRows
  <1> QED
    BY <1>1, <1>2 DEF InsertDownload

LEMMA UrlStorageKeeps ==
  ASSUME AccessInv, NEW r \in Reqs, UrlStorage(r)
  PROVE  AccessInv'
  <1>0. /\ areq[r] \in AccessRequests /\ areq[r].pc = "urlStorage" /\ StepOps(areq[r])
        /\ ReadFacts(areq[r]) /\ DownloadFacts(areq[r]) /\ BlobFacts(areq[r])
    BY TheRequest DEF UrlStorage, On
  <1>1. CASE Reads(r, [Goto(r, "url") EXCEPT !.kind = kind])
    <2> DEFINE q == [Goto(r, "url") EXCEPT !.kind = kind]
    <2>1. /\ q \in AccessRequests /\ q.pc = "url" /\ SameRequest(q, areq[r]) /\ q.kind = kind
          /\ q.could = areq[r].could /\ q.failed = areq[r].failed
      <3>1. /\ Goto(r, "url") \in AccessRequests /\ Goto(r, "url").pc = "url"
            /\ SameRequest(Goto(r, "url"), areq[r])
            /\ Goto(r, "url").could = areq[r].could /\ Goto(r, "url").failed = areq[r].failed
        BY <1>0, GotoIs DEF Steps
      <3>2. kind \in Kinds
        BY DEF AccessInv, AccessTypeOK
      <3> QED
        BY <3>1, <3>2 DEF AccessRequests, SameRequest
    <2> HIDE DEF q
    <2>2. StepOps(q) /\ ReadFacts(q) /\ AnswerFacts(q)
      BY <1>0, <2>1 DEF StepOps, ReadFacts, AnswerFacts, SameRequest, Sending
    <2>3. DownloadFacts(q) /\ BlobFacts(q) /\ Creating(areq[r]) /\ q.d = areq[r].d
      BY <1>0, <2>1 DEF DownloadFacts, BlobFacts, Sound, SameRequest, Creating
    <2> QED
      BY <1>1, <2>1, <2>2, <2>3, ReadingRows DEF AccessOK, q
  <1>2. CASE Reads(r, Refused(r, "error"))
    BY <1>2, Refusing
  <1> QED
    BY <1>1, <1>2 DEF UrlStorage

\* The URL written is that of the storage's type, or the row is marked since.
LEMMA UrlForFits ==
  ASSUME NEW x, NEW k \in Kinds, NEW j, x.url = UrlFor(k), k = j \/ x.retyped
  PROVE  UrlFits(x, j) /\ x.url \in Urls \ {"NULL"}
  BY AccessAssumption DEF UrlFor, UrlFits, Kinds, Urls

LEMMA WriteUrlKeeps ==
  ASSUME AccessInv, NEW r \in Reqs, WriteUrl(r)
  PROVE  AccessInv'
  <1> DEFINE d == areq[r].d
             q == Answered(r, "created")
  <1>0. /\ areq[r] \in AccessRequests /\ areq[r].pc = "url" /\ StepOps(areq[r])
        /\ ReadFacts(areq[r])
        /\ areq[r].op = "create" /\ DownloadFacts(areq[r]) /\ BlobFacts(areq[r])
        /\ areq \in [Reqs -> AccessRequests] /\ dls \in [Downloads -> Records]
    BY TheRequest DEF WriteUrl, On, StepOps, AccessInv, AccessTypeOK, AccessRequests
  <1>1. /\ q \in AccessRequests /\ q.pc = "done" /\ SameRequest(q, areq[r])
        /\ q.result = "created"
        /\ q.could = areq[r].could /\ q.failed = areq[r].failed
    BY <1>0, AnsweredIs, SomeResults
  <1>2. areq' = [areq EXCEPT ![r] = q] /\ UNCHANGED <<row, readers, kind, blob, changes>>
    BY DEF WriteUrl
  <1> HIDE DEF q
  <1>3. /\ StepOps(q) /\ ReadFacts(q) /\ AnswerFacts(q) /\ DownloadFacts(q) /\ BlobFacts(q)
        /\ ~Creating(q)
    BY <1>0, <1>1
    DEF StepOps, ReadFacts, AnswerFacts, Sent, DownloadFacts, BlobFacts, Sound, Creating,
       SameRequest, Sending, Lists
  <1>4. CASE UNCHANGED dls
    BY <1>1, <1>2, <1>3, <1>4, ReadingRows DEF AccessOK, Reads
  <1>5. ASSUME NEW x \in Records, dls' = [dls EXCEPT ![d] = x], UrlFits(x, kind),
               x.url # "NULL" \/ x.lost
        PROVE  AccessInv'
    <2>1. d \in Downloads
      BY <1>0 DEF DownloadFacts
    <2> HIDE DEF d
    <2>2. /\ dls'[d] = x /\ areq'[r] = q
          /\ \A e \in Downloads : e # d => dls'[e] = dls[e]
          /\ \A s \in Reqs : s # r => areq'[s] = areq[s]
      BY <1>0, <1>2, <1>5, <2>1
    <2>3. ASSUME NEW s \in Reqs PROVE DownloadFacts(areq[s])'
      <3>1. CASE s = r
        BY <1>1, <2>2, <3>1 DEF DownloadFacts
      <3>2. CASE s # r
        <4>1. DownloadFacts(areq[s]) /\ areq'[s] = areq[s] /\ kind' = kind
          BY <1>2, <2>2, <3>2, TheRequest
        <4>2. areq[s].pc \in {"urlStorage", "url"} => areq[s].d # d
          BY <1>0, <3>2 DEF AccessInv, OneCreates, Creating, d
        <4> QED
          BY <1>5, <2>1, <2>2, <4>1, <4>2 DEF DownloadFacts, UrlFits
      <3> QED
        BY <3>1, <3>2
    <2> QED
      BY <1>1, <1>2, <1>3, <1>5, <2>1, <2>3, WritingRows
  <1>6. CASE dls[d] # NoRecord /\ dls' = [dls EXCEPT ![d].url = UrlFor(areq[r].kind)]
    <2> DEFINE x == [dls[d] EXCEPT !.url = UrlFor(areq[r].kind)]
    <2>1. d \in Downloads /\ areq[r].kind \in Kinds /\ dls[d] \in Records
          /\ (areq[r].kind = kind \/ dls[d].retyped)
      BY <1>0, <1>6 DEF DownloadFacts, AccessRequests
    <2>2. x.url = UrlFor(areq[r].kind) /\ x.retyped = dls[d].retyped
      BY <2>1 DEF Records
    <2> HIDE DEF x
    <2>3. UrlFits(x, kind) /\ x.url \in Urls /\ x.url # "NULL"
      BY <2>1, <2>2, UrlForFits
    <2>4. x \in Records
      BY <2>1, <2>2, <2>3 DEF Records, x
    <2>5. dls' = [dls EXCEPT ![d] = x]
      BY <1>0, <1>6, <2>1 DEF x
    <2> QED
      BY <1>5, <2>3, <2>4, <2>5
  <1>7. CASE dls[d] # NoRecord /\ dls' = [dls EXCEPT ![d].lost = TRUE]
    <2> DEFINE x == [dls[d] EXCEPT !.lost = TRUE]
    <2>1. d \in Downloads /\ dls[d] \in Records /\ UrlFits(dls[d], kind)
      BY <1>0 DEF DownloadFacts, AccessInv
    <2>2. x \in Records /\ x.lost /\ x.url = dls[d].url /\ x.retyped = dls[d].retyped
      BY <2>1 DEF Records
    <2>3. dls' = [dls EXCEPT ![d] = x]
      BY <1>0, <1>7, <2>1
    <2> HIDE DEF x
    <2>4. UrlFits(x, kind)
      BY <2>1, <2>2 DEF UrlFits
    <2> QED
      BY <1>5, <2>2, <2>3, <2>4
  <1> QED
    BY <1>4, <1>6, <1>7 DEF WriteUrl

-----------------------------------------------------------------------------
(* streamDownload. *)

LEMMA LookupKeeps ==
  ASSUME AccessInv, NEW r \in Reqs, Lookup(r)
  PROVE  AccessInv'
  <1> DEFINE d == areq[r].d
             seen == [areq EXCEPT ![r].dl = dls[areq[r].d]][r]
  <1>0. /\ areq[r] \in AccessRequests /\ areq[r].pc = "lookup" /\ StepOps(areq[r])
        /\ DownloadFacts(areq[r]) /\ BlobFacts(areq[r])
        /\ areq[r].op = "stream" /\ areq[r].failed = "no" /\ areq \in [Reqs -> AccessRequests]
    BY TheRequest DEF Lookup, On, StepOps, Sending, AccessInv, AccessTypeOK, AccessRequests
  <1>1. /\ d \in Downloads /\ dls[d] \in Records /\ UrlFits(dls[d], kind)
        /\ dls[d] = NoRecord \/ dls[d].url # "NULL" \/ dls[d].lost
    BY <1>0 DEF DownloadFacts, AccessInv, AccessTypeOK
  <1>2. CASE Valid(d, areq[r].u) /\ Reads(r, [seen EXCEPT !.pc = "load"])
    <2> DEFINE q == [seen EXCEPT !.pc = "load"]
    <2>1. "load" \in Steps
      BY DEF Steps
    <2>2. /\ q \in AccessRequests /\ q.pc = "load" /\ q.op = "stream" /\ q.of = areq[r].of
          /\ q.failed = "no" /\ q.u = areq[r].u /\ q.dl = dls[d]
      BY <1>0, <1>1, <2>1 DEF AccessRequests
    <2> HIDE DEF q
    <2>3. StepOps(q) /\ ReadFacts(q) /\ AnswerFacts(q) /\ ~Creating(q)
      BY <1>0, <2>2 DEF StepOps, ReadFacts, AnswerFacts, Creating, Sending, Gets
    <2>4. DownloadFacts(q) /\ BlobFacts(q)
      BY <1>1, <1>2, <2>2 DEF DownloadFacts, BlobFacts, Sound, Valid, UrlFits
    <2> QED
      BY <1>2, <2>2, <2>3, <2>4, ReadingRows DEF AccessOK, q
  <1>3. CASE ~Valid(d, areq[r].u) /\ Reads(r, [Answered(r, "hidden") EXCEPT !.dl = dls[d]])
    <2> DEFINE q == [Answered(r, "hidden") EXCEPT !.dl = dls[d]]
    <2>1. /\ q \in AccessRequests /\ q.pc = "done" /\ q.op = "stream" /\ q.of = areq[r].of
          /\ q.u = areq[r].u /\ q.dl = dls[d] /\ q.result = "hidden"
      <3>1. /\ Answered(r, "hidden") \in AccessRequests /\ Answered(r, "hidden").pc = "done"
            /\ SameRequest(Answered(r, "hidden"), areq[r])
            /\ Answered(r, "hidden").result = "hidden"
        BY <1>0, AnsweredIs, SomeResults
      <3> QED
        BY <1>0, <1>1, <3>1 DEF AccessRequests, SameRequest
    <2> HIDE DEF q
    <2>2. q.dl.expired \/ q.dl.owner # q.u
      BY <1>3, <2>1 DEF Valid, NoRecord
    <2>3. AnswerFacts(q)
      BY <2>1, <2>2 DEF AnswerFacts, Sent
    <2>4. StepOps(q) /\ ReadFacts(q) /\ DownloadFacts(q) /\ BlobFacts(q) /\ ~Creating(q)
      BY <1>0, <2>1 DEF StepOps, ReadFacts, DownloadFacts, BlobFacts, Sound, Creating, Sending
    <2> QED
      BY <1>3, <2>1, <2>3, <2>4, ReadingRows DEF AccessOK, q
  <1>4. CASE Reads(r, Refused(r, "hidden"))
    BY <1>4, Refusing
  <1> QED
    BY <1>2, <1>3, <1>4 DEF Lookup

LEMMA RawStorageKeeps ==
  ASSUME AccessInv, NEW r \in Reqs, RawStorage(r)
  PROVE  AccessInv'
  <1>0. /\ areq[r] \in AccessRequests /\ areq[r].pc = "storage" /\ StepOps(areq[r])
        /\ ReadFacts(areq[r]) /\ DownloadFacts(areq[r]) /\ BlobFacts(areq[r])
        /\ areq[r].op = "stream"
    BY TheRequest DEF RawStorage, On, StepOps
  <1>1. CASE Reads(r, [Goto(r, "send") EXCEPT !.kind = kind])
    <2> DEFINE q == [Goto(r, "send") EXCEPT !.kind = kind]
    <2>1. /\ q \in AccessRequests /\ q.pc = "send" /\ SameRequest(q, areq[r]) /\ q.kind = kind
          /\ q.could = areq[r].could /\ q.failed = areq[r].failed
      <3>1. /\ Goto(r, "send") \in AccessRequests /\ Goto(r, "send").pc = "send"
            /\ SameRequest(Goto(r, "send"), areq[r])
            /\ Goto(r, "send").could = areq[r].could /\ Goto(r, "send").failed = areq[r].failed
        BY <1>0, GotoIs DEF Steps
      <3>2. kind \in Kinds
        BY DEF AccessInv, AccessTypeOK
      <3> QED
        BY <3>1, <3>2 DEF AccessRequests, SameRequest
    <2> HIDE DEF q
    <2>2. StepOps(q) /\ ReadFacts(q) /\ AnswerFacts(q) /\ ~Creating(q)
      BY <1>0, <2>1 DEF StepOps, ReadFacts, AnswerFacts, Creating, SameRequest, Sending
    <2>3. DownloadFacts(q) /\ BlobFacts(q)
      BY <1>0, <2>1 DEF DownloadFacts, BlobFacts, Sound, UrlFits, SameRequest
    <2> QED
      BY <1>1, <2>1, <2>2, <2>3, ReadingRows DEF AccessOK, q
  <1>2. CASE Reads(r, Refused(r, "error"))
    BY <1>2, Refusing
  <1> QED
    BY <1>1, <1>2 DEF RawStorage

\* FileAttachment finds the whole object of an answered upload of a live row.
LEMMA Attaching ==
  ASSUME AccessInv, NEW f \in Files
  PROVE  /\ Attached(f) \in {"missing", "partial", "served"}
         /\ blob[f].upload = "done" /\ blob[f].store = "LOCAL" /\ row[f].state = "live" =>
               Attached(f) = "served"
  BY DEF AccessInv, AccessTypeOK, Blobs, WholeObjects, Attached

LEMMA SendKeeps ==
  ASSUME AccessInv, NEW r \in Reqs, Send(r)
  PROVE  AccessInv'
  <1> DEFINE f == areq[r].f
             dl == areq[r].dl
  <1>0. /\ areq[r] \in AccessRequests /\ areq[r].pc = "send" /\ StepOps(areq[r])
        /\ ReadFacts(areq[r]) /\ DownloadFacts(areq[r]) /\ BlobFacts(areq[r])
        /\ areq[r].op = "stream" /\ f \in Files /\ dl.url \in Urls /\ areq[r].kind \in Kinds
    BY TheRequest DEF Send, On, StepOps, AccessRequests, Records
  <1>1. /\ dl.f = f /\ dl.owner = areq[r].u /\ (dl.url = "NULL" => dl.lost)
        /\ UrlFits(dl, areq[r].kind) /\ Sound(areq[r], areq[r].kind)
        /\ areq[r].could \/ areq[r].raced \/ areq[r].failed = "blind"
    BY <1>0 DEF DownloadFacts, BlobFacts, ReadFacts, Sending
  <1>2. ASSUME NEW res \in Sent, Reads(r, Answered(r, res)),
               res = "loop" => AbsoluteBase,
               res = "broken" => dl.retyped \/ dl.lost,
               res \in {"partial", "no path", "missing"} =>
                  areq[r].odd = "bare" \/ dl.retyped \/ row[f].state # "live"
        PROVE  AccessInv'
    <2> DEFINE q == Answered(r, res)
    <2>1. /\ q \in AccessRequests /\ q.pc = "done" /\ SameRequest(q, areq[r]) /\ q.result = res
          /\ q.could = areq[r].could /\ q.failed = areq[r].failed
      <3>1. res \in Results
        BY DEF Sent, Results
      <3> QED
        BY <1>0, <3>1, AnsweredIs
    <2> HIDE DEF q
    <2>2. AnswerFacts(q)
      BY <1>0, <1>1, <1>2, <2>1 DEF AnswerFacts, Sent, SameRequest
    <2> QED
      BY <1>2, <2>1, <2>2, Answering DEF q
  <1>3. CASE External(dl.url)
    <2>1. PICK res \in {"redirect", "loop"} :
             Reads(r, Answered(r, res)) /\ (res = "loop" => dl.url = "absolute raw")
      BY <1>3 DEF Send, External
    <2> QED
      BY <1>1, <1>2, <2>1 DEF UrlFits, Sent
  <1>4. CASE ~External(dl.url) /\ blob[f].upload = "no path"
    <2>1. areq[r].odd = "bare" \/ dl.retyped
      BY <1>1, <1>4 DEF Sound
    <2>2. Reads(r, Answered(r, "no path"))
      BY <1>4 DEF Send
    <2> QED
      BY <1>2, <2>1, <2>2 DEF Sent
  <1>5. CASE ~External(dl.url) /\ blob[f].upload # "no path" /\ areq[r].kind = "LOCAL"
    <2>1. /\ Attached(f) \in {"missing", "partial", "served"}
          /\ \/ Attached(f) = "served" \/ areq[r].odd = "bare" \/ dl.retyped
             \/ row[f].state # "live"
      BY <1>0, <1>1, <1>5, Attaching DEF Sound
    <2>2. Reads(r, Answered(r, Attached(f)))
      BY <1>5 DEF Send, Kinds
    <2> QED
      BY <1>2, <2>1, <2>2 DEF Sent
  <1>6. CASE ~External(dl.url) /\ blob[f].upload # "no path" /\ areq[r].kind = "AMAZON_S3"
    <2>1. dl.retyped \/ dl.lost
      BY <1>0, <1>1, <1>6 DEF UrlFits, External, Urls
    <2>2. Reads(r, Answered(r, "broken")) \/ Reads(r, Refused(r, "error"))
      BY <1>6 DEF Send
    <2> QED
      BY <1>2, <2>1, <2>2, Refusing DEF Sent
  <1> QED
    BY <1>0, <1>3, <1>4, <1>5, <1>6 DEF Kinds

-----------------------------------------------------------------------------
(* What other requests change. *)

\* A change counts once.
LEMMA Counted ==
  ASSUME AccessInv, Change
  PROVE  changes' \in 0..MaxChanges
  BY AccessAssumption DEF AccessInv, AccessTypeOK, Change

\* A change of no download and no storage leaves the facts about them.
LEMMA OtherRequests ==
  ASSUME UNCHANGED <<kind, blob, dls>>, NEW r \in Reqs, areq'[r] = areq[r]
  PROVE  /\ StepOps(areq[r]) => StepOps(areq[r])'
         /\ DownloadFacts(areq[r]) => DownloadFacts(areq[r])'
         /\ BlobFacts(areq[r]) => BlobFacts(areq[r])'
  <1>1. \A p : /\ StepOps(p) => StepOps(p)'
               /\ DownloadFacts(p) => DownloadFacts(p)'
               /\ BlobFacts(p) => BlobFacts(p)'
    BY BlobStays DEF StepOps, DownloadFacts
  <1>2. /\ StepOps(areq[r]) => StepOps(areq'[r])
        /\ DownloadFacts(areq[r]) => DownloadFacts(areq'[r])
        /\ BlobFacts(areq[r]) => BlobFacts(areq'[r])
    OBVIOUS
  <1> QED
    BY <1>1, <1>2

\* An object stays whole while no row becomes live.
LEMMA WholeStays ==
  ASSUME WholeObjects, UNCHANGED blob,
         \A f \in Files : row'[f].state = "live" => row[f].state = "live"
  PROVE  WholeObjects'
  BY DEF WholeObjects

\* Between two reads of a request a change is noted.
LEMMA Racing ==
  ASSUME AccessInv, NEW between \in SUBSET Reqs, Race(between)
  PROVE  /\ areq' \in [Reqs -> AccessRequests]
         /\ \A r \in Reqs :
               /\ r \notin between => areq'[r] = areq[r]
               /\ r \in between => /\ areq'[r].raced
                                   /\ areq'[r] = [areq[r] EXCEPT !.raced = TRUE]
  <1>1. ASSUME NEW r \in Reqs
        PROVE  /\ areq[r] \in AccessRequests
               /\ [areq[r] EXCEPT !.raced = TRUE] \in AccessRequests
               /\ [areq[r] EXCEPT !.raced = TRUE].raced
    BY TheRequest DEF AccessRequests
  <1> DEFINE raced(r) == [areq[r] EXCEPT !.raced = TRUE]
  <1>2. areq' = [r \in Reqs |-> IF r \in between THEN raced(r) ELSE areq[r]]
    BY DEF Race
  <1>3. \A r \in Reqs : raced(r) \in AccessRequests /\ raced(r).raced
    BY <1>1
  <1> HIDE DEF raced
  <1>4. /\ areq' \in [Reqs -> AccessRequests]
        /\ \A r \in Reqs :
              /\ r \notin between => areq'[r] = areq[r]
              /\ r \in between => areq'[r].raced /\ areq'[r] = raced(r)
    BY <1>1, <1>2, <1>3
  <1> QED
    BY <1>4 DEF raced

LEMMA VisibilityKeeps ==
  ASSUME AccessInv, NEW f \in Files, NEW v \in Visibilities, ChangeVisibility(f, v)
  PROVE  AccessInv'
  <1> DEFINE between == {r \in Reqs : areq[r].f = f /\ On(r, "reload")}
  <1>1. /\ Race(between) /\ row' = [row EXCEPT ![f].vis = v]
        /\ UNCHANGED <<readers, kind, blob, dls>> /\ Change
    BY DEF ChangeVisibility
  <1>2. /\ areq' \in [Reqs -> AccessRequests]
        /\ \A r \in Reqs :
              /\ r \notin between => areq'[r] = areq[r]
              /\ r \in between => /\ areq'[r].raced /\ areq'[r].pc = "reload"
                                  /\ StepOps(areq[r]) => StepOps(areq'[r])
    <2>1. between \in SUBSET Reqs
      OBVIOUS
    <2>2. ASSUME NEW r \in between PROVE StepOps(areq[r]) => StepOps([areq[r] EXCEPT !.raced = TRUE])
      BY TheRequest DEF AccessRequests, StepOps
    <2>3. ASSUME NEW r \in between PROVE [areq[r] EXCEPT !.raced = TRUE].pc = "reload"
      BY TheRequest DEF AccessRequests, On
    <2> QED
      BY <1>1, <2>1, <2>2, <2>3, Racing
  <1>3. /\ row \in [Files -> Rows] /\ row' \in [Files -> Rows]
        /\ \A g \in Files : row'[g].owner = row[g].owner /\ row'[g].state = row[g].state
        /\ \A g \in Files : g # f => row'[g] = row[g]
    BY <1>1 DEF AccessInv, AccessTypeOK, Rows
  <1>4. AccessTypeOK'
    BY <1>1, <1>2, <1>3, Counted DEF AccessInv, AccessTypeOK, AccessRequests
  <1>5. ASSUME NEW r \in Reqs PROVE AccessOK(areq[r])'
    <2>1. /\ areq[r] \in AccessRequests /\ StepOps(areq[r]) /\ ReadFacts(areq[r])
          /\ DownloadFacts(areq[r]) /\ BlobFacts(areq[r]) /\ AnswerFacts(areq[r])
          /\ areq[r].f \in Files
      BY TheRequest DEF AccessRequests
    <2>2. CASE r \in between
      BY <1>1, <1>2, <2>1, <2>2
      DEF AccessOK, StepOps, ReadFacts, DownloadFacts, BlobFacts, Sound, AnswerFacts, Sent,
         Sending
    <2>3. CASE r \notin between
      <3>1. areq'[r] = areq[r] /\ (areq[r].pc = "reload" => areq[r].f # f)
        BY <1>2, <2>3 DEF On
      <3>2. StepOps(areq[r])' /\ DownloadFacts(areq[r])' /\ BlobFacts(areq[r])'
        BY <1>1, <2>1, <3>1, OtherRequests
      <3>4. AnswerFacts(areq[r])'
        BY <1>3, <2>1, <3>1, AnswersStay
      <3>3. ReadFacts(areq[r])'
        BY <1>1, <1>3, <2>1, <3>1 DEF ReadFacts
      <3> QED
        BY <3>2, <3>3, <3>4 DEF AccessOK
    <2> QED
      BY <2>2, <2>3
  <1>6. OneCreates' /\ WholeObjects'
    BY <1>1, <1>2, <1>3, WholeStays DEF AccessInv, OneCreates, Creating
  <1> QED
    BY <1>1, <1>4, <1>5, <1>6 DEF AccessInv, UrlFits

LEMMA TrashKeeps ==
  ASSUME AccessInv, NEW f \in Files, Trash(f)
  PROVE  AccessInv'
  <1>1. /\ row' = [row EXCEPT ![f].state = "trash"]
        /\ UNCHANGED <<readers, kind, blob, dls, areq>>
        /\ Change
    BY DEF Trash
  <1>2. /\ row \in [Files -> Rows] /\ row' \in [Files -> Rows]
        /\ \A g \in Files : row'[g].owner = row[g].owner
        /\ \A g \in Files : row'[g].state = "live" => row'[g] = row[g]
    BY <1>1 DEF AccessInv, AccessTypeOK, Rows
  <1>3. AccessTypeOK'
    BY <1>1, <1>2, Counted DEF AccessInv, AccessTypeOK
  <1>4. ASSUME NEW r \in Reqs PROVE AccessOK(areq[r])'
    <2>1. /\ StepOps(areq[r]) /\ ReadFacts(areq[r]) /\ DownloadFacts(areq[r])
          /\ BlobFacts(areq[r])
          /\ AnswerFacts(areq[r]) /\ areq[r].f \in Files
      BY TheRequest DEF AccessRequests
    <2>2. StepOps(areq[r])' /\ DownloadFacts(areq[r])' /\ BlobFacts(areq[r])'
      BY <1>1, <2>1, OtherRequests
    <2>3. ReadFacts(areq[r])'
      BY <1>1, <1>2, <2>1 DEF ReadFacts
    <2>4. AnswerFacts(areq[r])'
      BY <1>1, <1>2, <2>1, AnswersStay
    <2> QED
      BY <2>2, <2>3, <2>4 DEF AccessOK
  <1>5. WholeObjects'
    BY <1>1, <1>2, WholeStays DEF AccessInv
  <1> QED
    BY <1>1, <1>3, <1>4, <1>5 DEF AccessInv, UrlFits, OneCreates, Creating

\* A deleted row takes the downloads of its file with it; a file without a row has no owner.
LEMMA DeleteKeeps ==
  ASSUME AccessInv, NEW f \in Files, DeleteRow(f), changes' \in 0..MaxChanges
  PROVE  AccessInv'
  <1>1. /\ row' = [row EXCEPT ![f] = Fresh] /\ UNCHANGED <<readers, kind, blob, areq>>
        /\ dls' = [d \in Downloads |-> IF dls[d].f = f THEN NoRecord ELSE dls[d]]
    BY DEF DeleteRow
  <1>2. /\ row \in [Files -> Rows] /\ row' \in [Files -> Rows]
        /\ \A g \in Files : row'[g].owner \in {NoOne, row[g].owner}
        /\ \A g \in Files : row'[g].state = "live" => row'[g] = row[g]
    BY <1>1 DEF AccessInv, AccessTypeOK, Rows, Fresh, Visibilities
  <1>3. /\ dls' \in [Downloads -> Records]
        /\ \A d \in Downloads : dls'[d] \in {NoRecord, dls[d]}
    BY <1>1 DEF AccessInv, AccessTypeOK, Records, NoRecord, Urls
  <1>4. AccessTypeOK'
    BY <1>1, <1>2, <1>3 DEF AccessInv, AccessTypeOK
  <1>5. ASSUME NEW r \in Reqs PROVE AccessOK(areq[r])'
    <2>1. /\ StepOps(areq[r]) /\ ReadFacts(areq[r]) /\ DownloadFacts(areq[r])
          /\ BlobFacts(areq[r])
          /\ AnswerFacts(areq[r]) /\ areq[r].f \in Files /\ areq'[r] = areq[r]
      BY <1>1, TheRequest DEF AccessRequests
    <2>2. StepOps(areq[r])'
      BY <2>1 DEF StepOps
    <2>3. DownloadFacts(areq[r])'
      BY <1>1, <1>3, <2>1 DEF DownloadFacts, UrlFits
    <2>6. BlobFacts(areq[r])'
      BY <1>1, <2>1, BlobStays
    <2>4. ReadFacts(areq[r])'
      BY <1>1, <1>2, <2>1 DEF ReadFacts
    <2>5. AnswerFacts(areq[r])'
      BY <1>2, <2>1, AnswersStay
    <2> QED
      BY <2>2, <2>3, <2>4, <2>5, <2>6 DEF AccessOK
  <1>6. \A d \in Downloads : UrlFits(dls[d], kind)'
    BY <1>1, <1>3 DEF AccessInv, UrlFits, NoRecord
  <1>7. WholeObjects'
    BY <1>1, <1>2, WholeStays DEF AccessInv
  <1> QED
    BY <1>1, <1>4, <1>5, <1>6, <1>7 DEF AccessInv, OneCreates, Creating

LEMMA PurgeKeeps ==
  ASSUME AccessInv, NEW f \in Files, Purge(f)
  PROVE  AccessInv'
  BY Counted, DeleteKeeps DEF Purge

LEMMA RollbackRowKeeps ==
  ASSUME AccessInv, NEW f \in Files, RollbackRow(f)
  PROVE  AccessInv'
  BY DeleteKeeps DEF RollbackRow, AccessInv, AccessTypeOK

\* What a step of an upload or the deletion of an object keeps.
LEMMA BlobKeeps ==
  ASSUME AccessInv, NEW f \in Files, NEW x \in Blobs, blob' = [blob EXCEPT ![f] = x],
         UNCHANGED <<row, readers, kind, dls, areq, changes>>,
         x.store = blob[f].store, blob[f].upload = "done" => x.upload = "done",
         x.upload = "done" /\ row[f].state = "live" => x.object = "whole"
  PROVE  AccessInv'
  <1>1. /\ blob \in [Files -> Blobs] /\ blob'[f] = x
        /\ \A g \in Files : g # f => blob'[g] = blob[g]
    BY DEF AccessInv, AccessTypeOK
  <1>2. AccessTypeOK' /\ WholeObjects' /\ OneCreates'
    BY <1>1 DEF AccessInv, AccessTypeOK, WholeObjects, OneCreates, Creating
  <1>3. ASSUME NEW r \in Reqs PROVE AccessOK(areq[r])'
    <2>1. /\ AccessOK(areq[r]) /\ areq'[r] = areq[r] /\ areq[r].f \in Files
      BY TheRequest DEF AccessOK, AccessRequests
    <2>2. \A p : /\ StepOps(p) => StepOps(p)'
                 /\ ReadFacts(p) => ReadFacts(p)'
                 /\ DownloadFacts(p) => DownloadFacts(p)'
      BY DEF StepOps, ReadFacts, DownloadFacts
    <2>3. BlobFacts(areq[r]) => BlobFacts(areq[r])'
      BY <1>1, <2>1, BlobStays
    <2>4. AnswerFacts(areq[r]) => AnswerFacts(areq[r])'
      BY <2>1, AnswersStay
    <2> QED
      BY <2>1, <2>2, <2>3, <2>4 DEF AccessOK
  <1>4. \A d \in Downloads : UrlFits(dls[d], kind)'
    BY DEF AccessInv, UrlFits
  <1> QED
    BY <1>2, <1>3, <1>4 DEF AccessInv

LEMMA UploadKeeps ==
  ASSUME AccessInv, NEW f \in Files,
         Put(f) \/ PublishUpload(f) \/ Rollback(f) \/ PurgeObject(f)
  PROVE  AccessInv'
  <1>0. blob \in [Files -> Blobs] /\ blob[f] \in Blobs
    BY DEF AccessInv, AccessTypeOK
  <1>1. CASE Put(f)
    <2> DEFINE o == IF blob[f].object = "none" /\ blob[f].store = "LOCAL" THEN "part" ELSE "whole"
               x == [blob[f] EXCEPT !.object = o]
    <2>1. blob' = [blob EXCEPT ![f] = x]
      BY <1>0, <1>1 DEF Put
    <2>2. x \in Blobs /\ x.store = blob[f].store /\ x.upload = "open"
      BY <1>0, <1>1 DEF Put, Blobs
    <2> HIDE DEF x
    <2> QED
      BY <1>1, <2>1, <2>2, BlobKeeps DEF Put
  <1>2. CASE PublishUpload(f)
    <2> DEFINE x == [blob[f] EXCEPT !.upload = "done"]
    <2>1. blob' = [blob EXCEPT ![f] = x]
      BY <1>0, <1>2 DEF PublishUpload
    <2>2. x \in Blobs /\ x.store = blob[f].store /\ x.upload = "done" /\ x.object = "whole"
      BY <1>0, <1>2 DEF PublishUpload, Blobs, Uploads
    <2> HIDE DEF x
    <2> QED
      BY <1>2, <2>1, <2>2, BlobKeeps DEF PublishUpload
  <1>3. CASE Rollback(f)
    <2>1. PICK object \in {"none", blob[f].object} :
             blob' = [blob EXCEPT ![f].upload = "over", ![f].object = object]
      BY <1>3 DEF Rollback
    <2> DEFINE x == [blob[f] EXCEPT !.upload = "over", !.object = object]
    <2>2. blob' = [blob EXCEPT ![f] = x]
      BY <1>0, <2>1
    <2>3. x \in Blobs /\ x.store = blob[f].store /\ x.upload = "over"
      BY <1>0, <2>1 DEF Blobs, Uploads
    <2> HIDE DEF x
    <2> QED
      BY <1>3, <2>2, <2>3, BlobKeeps DEF Rollback
  <1>4. CASE PurgeObject(f)
    <2> DEFINE x == [blob[f] EXCEPT !.object = "none"]
    <2>1. blob' = [blob EXCEPT ![f] = x]
      BY <1>0, <1>4 DEF PurgeObject
    <2>2. x \in Blobs /\ x.store = blob[f].store /\ x.upload = blob[f].upload
      BY <1>0 DEF Blobs
    <2> HIDE DEF x
    <2> QED
      BY <1>4, <2>1, <2>2, BlobKeeps DEF PurgeObject
  <1> QED
    BY <1>1, <1>2, <1>3, <1>4

\* A grant is noted by the requests that have asked for it and not yet used the answer.
LEMMA GrantChangeKeeps ==
  ASSUME AccessInv, NEW u \in Subjects, ChangeGrant(u)
  PROVE  AccessInv'
  <1> DEFINE between == {r \in Reqs : areq[r].u = u /\ areq[r].pc \in {"grant", "rows", "reload"}}
  <1>1. /\ Race(between) /\ Change /\ UNCHANGED <<row, kind, blob, dls>>
        /\ readers' = IF u \in readers THEN readers \ {u} ELSE readers \cup {u}
    BY DEF ChangeGrant
  <1>2. readers' \in SUBSET Subjects /\ \A w : w # u => (w \in readers' <=> w \in readers)
    BY <1>1 DEF AccessInv, AccessTypeOK
  <1>3. /\ areq' \in [Reqs -> AccessRequests]
        /\ \A r \in Reqs :
              /\ r \notin between => areq'[r] = areq[r]
              /\ r \in between => /\ areq'[r].raced /\ areq'[r].pc \in {"grant", "rows", "reload"}
                                  /\ areq'[r].op = areq[r].op /\ areq'[r].u = areq[r].u
                                  /\ areq'[r].dl = areq[r].dl /\ areq'[r].pc = areq[r].pc
                                  /\ areq'[r].odd = areq[r].odd /\ areq'[r].f = areq[r].f
                                  /\ StepOps(areq[r]) => StepOps(areq'[r])
    <2>1. between \in SUBSET Reqs
      OBVIOUS
    <2>2. ASSUME NEW r \in between
          PROVE  /\ StepOps(areq[r]) => StepOps([areq[r] EXCEPT !.raced = TRUE])
                 /\ [areq[r] EXCEPT !.raced = TRUE].pc = areq[r].pc
                 /\ [areq[r] EXCEPT !.raced = TRUE].op = areq[r].op
                 /\ [areq[r] EXCEPT !.raced = TRUE].u = areq[r].u
                 /\ [areq[r] EXCEPT !.raced = TRUE].dl = areq[r].dl
                 /\ [areq[r] EXCEPT !.raced = TRUE].odd = areq[r].odd
                 /\ [areq[r] EXCEPT !.raced = TRUE].f = areq[r].f
      BY TheRequest DEF AccessRequests, StepOps
    <2>3. /\ areq' \in [Reqs -> AccessRequests]
          /\ \A r \in Reqs :
                /\ r \notin between => areq'[r] = areq[r]
                /\ r \in between => /\ areq'[r].raced
                                    /\ areq'[r] = [areq[r] EXCEPT !.raced = TRUE]
      BY <1>1, <2>1, Racing
    <2>4. \A r \in between : areq[r].pc \in {"grant", "rows", "reload"}
      OBVIOUS
    <2> HIDE DEF between
    <2>5. ASSUME NEW r \in Reqs, r \in between
          PROVE  /\ areq'[r].raced /\ areq'[r].pc \in {"grant", "rows", "reload"}
                 /\ areq'[r].op = areq[r].op /\ areq'[r].u = areq[r].u
                 /\ areq'[r].dl = areq[r].dl /\ areq'[r].pc = areq[r].pc
                 /\ areq'[r].odd = areq[r].odd /\ areq'[r].f = areq[r].f
                 /\ StepOps(areq[r]) => StepOps(areq'[r])
      <3>1. areq'[r] = [areq[r] EXCEPT !.raced = TRUE] /\ areq'[r].raced
        BY <2>3, <2>5
      <3>2. areq[r].pc \in {"grant", "rows", "reload"}
        BY <2>4, <2>5
      <3> QED
        BY <2>2, <2>5, <3>1, <3>2
    <2> QED
      BY <2>3, <2>5
  <1>4. AccessTypeOK'
    BY <1>1, <1>2, <1>3, Counted DEF AccessInv, AccessTypeOK, AccessRequests
  <1>5. ASSUME NEW r \in Reqs PROVE AccessOK(areq[r])'
    <2>1. /\ areq[r] \in AccessRequests /\ StepOps(areq[r]) /\ ReadFacts(areq[r])
          /\ DownloadFacts(areq[r]) /\ BlobFacts(areq[r]) /\ AnswerFacts(areq[r])
      BY TheRequest
    <2>2. CASE r \in between
      <3>1. StepOps(areq[r])' /\ ReadFacts(areq[r])' /\ AnswerFacts(areq[r])'
        BY <1>3, <2>1, <2>2 DEF StepOps, ReadFacts, AnswerFacts, Sending
      <3>2. DownloadFacts(areq[r])' /\ BlobFacts(areq[r])'
        BY <1>1, <1>3, <2>1, <2>2 DEF DownloadFacts, BlobFacts, Sound, UrlFits
      <3> QED
        BY <3>1, <3>2 DEF AccessOK
    <2>3. CASE r \notin between
      <3>1. areq'[r] = areq[r] /\ (areq[r].pc \in {"grant", "rows", "reload"} => areq[r].u # u)
        BY <1>3, <2>3
      <3>2. StepOps(areq[r])' /\ DownloadFacts(areq[r])' /\ BlobFacts(areq[r])'
        BY <1>1, <2>1, <3>1, OtherRequests
      <3>3. ReadFacts(areq[r])'
        BY <1>1, <1>2, <2>1, <3>1 DEF ReadFacts
      <3>4. AnswerFacts(areq[r])'
        BY <1>1, <2>1, <3>1, AnswersStay
      <3> QED
        BY <3>2, <3>3, <3>4 DEF AccessOK
    <2> QED
      BY <2>2, <2>3
  <1>6. OneCreates' /\ WholeObjects'
    BY <1>1, <1>3, WholeStays DEF AccessInv, OneCreates, Creating
  <1> QED
    BY <1>1, <1>4, <1>5, <1>6 DEF AccessInv, UrlFits

\* A new type marks the downloads whose URL is of the old one, and the copies of
\* them that requests still judge by the storage's type.
LEMMA TypeMarks ==
  ASSUME AccessInv, ChangeType
  PROVE  /\ areq' \in [Reqs -> AccessRequests]
         /\ \A r \in Reqs :
               \/ areq'[r] = areq[r] /\ areq[r].pc \notin {"storage", "load", "grant", "verdict"}
               \/ /\ areq[r].pc \in {"storage", "load", "grant", "verdict"}
                  /\ areq'[r] = [areq[r] EXCEPT
                                    !.dl = [areq[r].dl EXCEPT !.retyped = (areq[r].op = "stream")]]
         /\ dls' \in [Downloads -> Records]
         /\ \A d \in Downloads :
               \/ dls'[d] = dls[d] /\ (dls[d] = NoRecord \/ dls[d].url = "NULL")
                  /\ (dls[d] = NoRecord \/ \E r \in Reqs : areq[r].pc = "urlStorage" /\ areq[r].d = d)
               \/ /\ dls[d] # NoRecord /\ dls'[d].retyped
                  /\ dls'[d].url = dls[d].url /\ dls'[d].lost = dls[d].lost
  <1>0. areq \in [Reqs -> AccessRequests] /\ dls \in [Downloads -> Records]
    BY DEF AccessInv, AccessTypeOK, AccessRequests
  <1> DEFINE marked(r) == [areq[r] EXCEPT
                             !.dl = [areq[r].dl EXCEPT !.retyped = (areq[r].op = "stream")]]
             At(r) == areq[r].pc \in {"storage", "load", "grant", "verdict"}
             held(d) == \E r \in Reqs : areq[r].pc = "urlStorage" /\ areq[r].d = d
             mark(d) == [dls[d] EXCEPT !.retyped = TRUE]
  <1>1. \A r \in Reqs : marked(r) \in AccessRequests
    <2>1. ASSUME NEW r \in Reqs, NEW b \in BOOLEAN
          PROVE  [areq[r] EXCEPT !.dl = [areq[r].dl EXCEPT !.retyped = b]] \in AccessRequests
      <3>1. areq[r] \in AccessRequests /\ areq[r].dl \in Records
        BY <1>0 DEF AccessRequests
      <3>2. [areq[r].dl EXCEPT !.retyped = b] \in Records
        BY <3>1 DEF Records
      <3> QED
        BY <3>1, <3>2 DEF AccessRequests
    <2> QED
      BY <2>1
  <1>2. areq' = [r \in Reqs |-> IF At(r) THEN marked(r) ELSE areq[r]]
    BY <1>0 DEF ChangeType, On, AccessRequests
  <1>3. dls' = [d \in Downloads |-> IF dls[d] = NoRecord \/ held(d) THEN dls[d] ELSE mark(d)]
    BY DEF ChangeType, On
  <1>4. \A d \in Downloads : /\ mark(d) \in Records /\ mark(d).retyped
                             /\ mark(d).url = dls[d].url /\ mark(d).lost = dls[d].lost
    BY <1>0 DEF Records
  <1>5. \A d \in Downloads : held(d) => dls[d] = NoRecord \/ dls[d].url = "NULL"
    BY TheRequest DEF DownloadFacts
  <1> HIDE DEF marked, mark, held
  <1>6. /\ areq' \in [Reqs -> AccessRequests]
        /\ \A r \in Reqs : \/ areq'[r] = areq[r] /\ ~At(r)
                           \/ At(r) /\ areq'[r] = marked(r)
    BY <1>0, <1>1, <1>2
  <1>7. /\ dls' \in [Downloads -> Records]
        /\ \A d \in Downloads :
              \/ dls'[d] = dls[d] /\ (dls[d] = NoRecord \/ held(d))
              \/ dls[d] # NoRecord /\ dls'[d] = mark(d)
    BY <1>0, <1>3, <1>4
  <1>8. \A d \in Downloads :
              \/ dls'[d] = dls[d] /\ (dls[d] = NoRecord \/ dls[d].url = "NULL")
                 /\ (dls[d] = NoRecord \/ held(d))
              \/ /\ dls[d] # NoRecord /\ dls'[d].retyped
                 /\ dls'[d].url = dls[d].url /\ dls'[d].lost = dls[d].lost
    BY <1>4, <1>5, <1>7
  <1> QED
    BY <1>6, <1>7, <1>8 DEF marked, held

LEMMA TypeKeeps ==
  ASSUME AccessInv, ChangeType
  PROVE  AccessInv'
  <1>1. kind' \in Kinds /\ UNCHANGED <<row, readers, blob>> /\ Change
    BY DEF ChangeType
  <1>2. AccessTypeOK'
    BY <1>1, TypeMarks, Counted DEF AccessInv, AccessTypeOK, AccessRequests
  <1>3. ASSUME NEW r \in Reqs PROVE AccessOK(areq[r])'
    <2>1. /\ areq[r] \in AccessRequests /\ StepOps(areq[r]) /\ ReadFacts(areq[r])
          /\ DownloadFacts(areq[r]) /\ BlobFacts(areq[r]) /\ AnswerFacts(areq[r])
      BY TheRequest
    <2>2. CASE areq'[r] = areq[r] /\ areq[r].pc \notin {"storage", "load", "grant", "verdict"}
      <3>1. StepOps(areq[r])' /\ ReadFacts(areq[r])'
        BY <1>1, <2>1, <2>2 DEF StepOps, ReadFacts
      <3>5. AnswerFacts(areq[r])'
        BY <1>1, <2>1, <2>2, AnswersStay
      <3>6. BlobFacts(areq[r])'
        BY <1>1, <2>1, <2>2 DEF BlobFacts, Sound
      <3>2. ASSUME areq[r].pc \notin {"lookup", "urlStorage", "url"} PROVE DownloadFacts(areq[r])'
        <4>1. \A p : p = areq[r] =>
                 (/\ p.pc = "send" /\ UrlFits(p.dl, p.kind) => UrlFits(p.dl, p.kind)'
                  /\ p.pc \notin {"lookup", "urlStorage", "url", "storage", "load", "grant", "verdict"})
          BY <2>2, <3>2 DEF UrlFits
        <4> QED
          BY <2>1, <2>2, <3>2, <4>1 DEF DownloadFacts
      <3>3. ASSUME areq[r].pc = "lookup" PROVE DownloadFacts(areq[r])'
        <4>1. areq[r].d \in Downloads
              /\ (dls[areq[r].d] = NoRecord \/ dls[areq[r].d].url # "NULL" \/ dls[areq[r].d].lost)
          BY <2>1, <3>3 DEF DownloadFacts
        <4>2. \/ dls'[areq[r].d] = dls[areq[r].d]
              \/ /\ dls[areq[r].d] # NoRecord
                 /\ dls'[areq[r].d].url = dls[areq[r].d].url
                 /\ dls'[areq[r].d].lost = dls[areq[r].d].lost
          BY <4>1, TypeMarks
        <4> QED
          BY <2>2, <3>3, <4>1, <4>2 DEF DownloadFacts
      <3>4. ASSUME areq[r].pc \in {"urlStorage", "url"} PROVE DownloadFacts(areq[r])'
        <4> DEFINE d == areq[r].d
        <4>1. d \in Downloads /\ (dls[d] = NoRecord \/ (dls[d].url = "NULL" /\ ~dls[d].lost))
          BY <2>1, <3>4 DEF DownloadFacts
        <4>2. \/ dls'[d] = dls[d] /\ (dls[d] = NoRecord
                                        \/ \E s \in Reqs : areq[s].pc = "urlStorage" /\ areq[s].d = d)
              \/ /\ dls[d] # NoRecord /\ dls'[d].retyped
                 /\ dls'[d].url = dls[d].url /\ dls'[d].lost = dls[d].lost
          BY <4>1, TypeMarks
        <4>3. areq[r].pc = "url" =>
                 ~ \E s \in Reqs : areq[s].pc = "urlStorage" /\ areq[s].d = d
          BY DEF AccessInv, OneCreates, Creating
        <4> HIDE DEF d
        <4>4. areq'[r].d = d /\ areq'[r].pc = areq[r].pc
          BY <2>2 DEF d
        <4> QED
          BY <3>4, <4>1, <4>2, <4>3, <4>4 DEF DownloadFacts
      <3> QED
        BY <3>1, <3>2, <3>3, <3>4, <3>5, <3>6 DEF AccessOK
    <2>3. CASE /\ areq[r].pc \in {"storage", "load", "grant", "verdict"}
               /\ areq'[r] = [areq[r] EXCEPT
                                !.dl = [areq[r].dl EXCEPT !.retyped = (areq[r].op = "stream")]]
      <3>1. /\ areq'[r].pc = areq[r].pc /\ areq'[r].op = areq[r].op /\ areq'[r].of = areq[r].of
            /\ areq'[r].failed = areq[r].failed /\ areq'[r].mayRead = areq[r].mayRead
            /\ areq'[r].raced = areq[r].raced /\ areq'[r].could = areq[r].could
            /\ areq'[r].u = areq[r].u /\ areq'[r].f = areq[r].f /\ areq'[r].copy = areq[r].copy
            /\ areq'[r].dl.f = areq[r].dl.f /\ areq'[r].dl.owner = areq[r].dl.owner
            /\ areq'[r].dl.url = areq[r].dl.url /\ areq'[r].dl.lost = areq[r].dl.lost
            /\ areq[r].op = "stream" => areq'[r].dl.retyped
        <4> DEFINE x == [areq[r].dl EXCEPT !.retyped = (areq[r].op = "stream")]
        <4>1. areq[r].dl \in Records
          BY <2>1 DEF AccessRequests
        <4>2. /\ x.f = areq[r].dl.f /\ x.owner = areq[r].dl.owner /\ x.url = areq[r].dl.url
              /\ x.lost = areq[r].dl.lost /\ x.retyped = (areq[r].op = "stream")
          BY <4>1 DEF Records
        <4> HIDE DEF x
        <4>3. areq'[r] = [areq[r] EXCEPT !.dl = x]
          BY <2>3 DEF x
        <4> QED
          BY <2>1, <4>2, <4>3 DEF AccessRequests
      <3>2. StepOps(areq[r])' /\ ReadFacts(areq[r])' /\ AnswerFacts(areq[r])'
        BY <1>1, <2>1, <2>3, <3>1 DEF StepOps, ReadFacts, AnswerFacts
      <3>3. DownloadFacts(areq[r])' /\ BlobFacts(areq[r])'
        BY <2>1, <2>3, <3>1 DEF DownloadFacts, BlobFacts, Sound, UrlFits
      <3> QED
        BY <3>2, <3>3 DEF AccessOK
    <2> QED
      BY <2>2, <2>3, TypeMarks
  <1>4. ASSUME NEW d \in Downloads PROVE UrlFits(dls[d], kind)'
    <2>1. UrlFits(dls[d], kind)
      BY DEF AccessInv
    <2>2. \/ dls'[d] = dls[d] /\ (dls[d] = NoRecord \/ dls[d].url = "NULL")
          \/ dls'[d].retyped /\ dls'[d].url = dls[d].url
      BY TypeMarks
    <2>3. CASE dls'[d] = dls[d] /\ (dls[d] = NoRecord \/ dls[d].url = "NULL")
      <3>1. dls'[d].url = "NULL"
        BY <2>3 DEF NoRecord
      <3> QED
        BY <3>1 DEF UrlFits
    <2>4. CASE dls'[d].retyped /\ dls'[d].url = dls[d].url
      BY <2>1, <2>4 DEF UrlFits
    <2> QED
      BY <2>2, <2>3, <2>4
  <1>5. OneCreates' /\ WholeObjects'
    <2>1. \A r \in Reqs : areq'[r].pc = areq[r].pc /\ areq'[r].d = areq[r].d
      BY TheRequest, TypeMarks DEF AccessRequests
    <2> QED
      BY <1>1, <2>1, WholeStays DEF AccessInv, OneCreates, Creating
  <1> QED
    BY <1>2, <1>3, <1>4, <1>5 DEF AccessInv

LEMMA ExpireKeeps ==
  ASSUME AccessInv, NEW d \in Downloads, Expire(d)
  PROVE  AccessInv'
  <1>1. /\ UNCHANGED <<row, readers, kind, blob, areq, changes>> /\ dls[d] # NoRecord
        /\ dls' = [dls EXCEPT ![d].expired = TRUE]
    BY DEF Expire
  <1>2. /\ dls' \in [Downloads -> Records]
        /\ \A e \in Downloads :
              /\ dls[e] = NoRecord => dls'[e] = NoRecord
              /\ dls'[e].url = dls[e].url /\ dls'[e].lost = dls[e].lost
              /\ dls'[e].retyped = dls[e].retyped
    <2>1. dls \in [Downloads -> Records]
      BY DEF AccessInv, AccessTypeOK
    <2>2. /\ [dls[d] EXCEPT !.expired = TRUE] \in Records
          /\ [dls[d] EXCEPT !.expired = TRUE].url = dls[d].url
          /\ [dls[d] EXCEPT !.expired = TRUE].lost = dls[d].lost
          /\ [dls[d] EXCEPT !.expired = TRUE].retyped = dls[d].retyped
      BY <2>1 DEF Records
    <2> QED
      BY <1>1, <2>1, <2>2
  <1>3. AccessTypeOK'
    BY <1>1, <1>2 DEF AccessInv, AccessTypeOK
  <1>4. ASSUME NEW r \in Reqs PROVE AccessOK(areq[r])'
    <2>1. /\ StepOps(areq[r]) /\ ReadFacts(areq[r]) /\ DownloadFacts(areq[r])
          /\ BlobFacts(areq[r])
          /\ AnswerFacts(areq[r]) /\ areq'[r] = areq[r]
      BY <1>1, TheRequest
    <2>2. /\ StepOps(areq[r])' /\ ReadFacts(areq[r])' /\ BlobFacts(areq[r])'
          /\ AnswerFacts(areq[r])'
      BY <1>1, <2>1, FactsStay
    <2>3. DownloadFacts(areq[r])'
      <3>1. \A x : UrlFits(x, kind) => UrlFits(x, kind')
        BY <1>1 DEF UrlFits
      <3>2. areq[r].d \in Downloads =>
               /\ dls[areq[r].d] = NoRecord => dls'[areq[r].d] = NoRecord
               /\ dls'[areq[r].d].url = dls[areq[r].d].url
               /\ dls'[areq[r].d].lost = dls[areq[r].d].lost
               /\ dls'[areq[r].d].retyped = dls[areq[r].d].retyped
        BY <1>2
      <3> QED
        BY <1>1, <2>1, <3>1, <3>2 DEF DownloadFacts
    <2> QED
      BY <2>2, <2>3 DEF AccessOK
  <1>5. \A e \in Downloads : UrlFits(dls[e], kind)'
    BY <1>1, <1>2 DEF AccessInv, UrlFits
  <1> QED
    BY <1>1, <1>3, <1>4, <1>5 DEF AccessInv, OneCreates, Creating, WholeObjects

-----------------------------------------------------------------------------
(* The invariant. *)

LEMMA AccessStart ==
  ASSUME AccessInit
  PROVE  AccessInv
  <1>1. Idle \in AccessRequests /\ Idle.pc = "idle" /\ Idle.op = "get" /\ Idle.failed = "no"
    BY AccessAssumption, AskedIs DEF Idle, Gets, Steps, Waiting
  <1>2. NoRecord \in Records /\ NoRecord.url = "NULL"
    BY DEF NoRecord, Records, Urls
  <1>3. AccessTypeOK
    <2>1. row \in [Files -> Rows]
      BY DEF AccessInit, Rows
    <2>3. blob \in [Files -> Blobs]
      <3>1. PICK ups \in [Files -> Uploads \ {"over"}] :
               blob = [f \in Files |->
                         [upload |-> ups[f], store |-> kind,
                          object |-> IF ups[f] = "done" THEN "whole" ELSE "none"]]
        BY DEF AccessInit
      <3>2. kind \in Kinds
        BY DEF AccessInit
      <3>3. \A f \in Files : ups[f] \in Uploads
        OBVIOUS
      <3> QED
        BY <3>1, <3>2, <3>3 DEF Blobs
    <2>2. areq \in [Reqs -> AccessRequests]
      BY <1>1 DEF AccessInit
    <2> QED
      BY <1>2, <2>1, <2>2, <2>3, AccessAssumption DEF AccessInit, AccessTypeOK, AccessRequests
  <1>4. ASSUME NEW r \in Reqs PROVE AccessOK(areq[r]) /\ ~Creating(areq[r])
    <2>1. areq[r] = Idle
      BY DEF AccessInit
    <2> QED
      BY <1>1, <2>1
      DEF AccessOK, StepOps, ReadFacts, DownloadFacts, BlobFacts, Sound, AnswerFacts, Sent,
         Sending, Creating
  <1>5. \A d \in Downloads : UrlFits(dls[d], kind)
    BY <1>2 DEF AccessInit, UrlFits
  <1>6. WholeObjects
    BY DEF AccessInit, WholeObjects
  <1> QED
    BY <1>3, <1>4, <1>5, <1>6 DEF AccessInv, OneCreates

LEMMA AccessKeeps ==
  ASSUME AccessInv, [AccessNext]_accessVars
  PROVE  AccessInv'
  <1>1. ASSUME NEW r \in Reqs, AccessStep(r) PROVE AccessInv'
    BY <1>1, JoinKeeps, LoadKeeps, GrantKeeps, VerdictKeeps, GateKeeps, ListGrantKeeps,
       ListRowsKeeps, ReloadKeeps, InsertKeeps, UrlStorageKeeps, WriteUrlKeeps, LookupKeeps,
       RawStorageKeeps, SendKeeps
    DEF AccessStep
  <1>2. ASSUME NEW r \in Reqs, Deliver(r) PROVE AccessInv'
    BY <1>2, DeliverKeeps
  <1>3. ASSUME NEW r \in Reqs, NEW u \in Users, NEW f \in Files, Ask(r, u, f) \/ AskTrash(r, u, f)
        PROVE  AccessInv'
    BY <1>3, AskKeeps, AskTrashKeeps
  <1>4. ASSUME NEW r \in Reqs, NEW u \in Users, NEW f \in Files, NEW d \in Downloads,
               AskRaw(r, u, f, d)
        PROVE  AccessInv'
    BY <1>4, AskRawKeeps
  <1>5. ASSUME NEW f \in Files,
               \/ Put(f) \/ PublishUpload(f) \/ Rollback(f) \/ RollbackRow(f)
               \/ Trash(f) \/ PurgeObject(f) \/ Purge(f)
               \/ \E v \in Visibilities : ChangeVisibility(f, v)
        PROVE  AccessInv'
    BY <1>5, UploadKeeps, RollbackRowKeeps, TrashKeeps, PurgeKeeps, VisibilityKeeps
  <1>6. ASSUME NEW u \in Subjects, ChangeGrant(u) PROVE AccessInv'
    BY <1>6, GrantChangeKeeps
  <1>7. CASE ChangeType
    BY <1>7, TypeKeeps
  <1>8. ASSUME NEW d \in Downloads, Expire(d) PROVE AccessInv'
    BY <1>8, ExpireKeeps
  <1>9. CASE UNCHANGED accessVars
    <2>1. UNCHANGED <<row, readers, kind, blob, dls, areq, changes>>
      BY <1>9 DEF accessVars
    <2>2. AccessTypeOK' /\ OneCreates' /\ WholeObjects'
      BY <2>1 DEF AccessInv, AccessTypeOK, OneCreates, Creating, WholeObjects
    <2>3. ASSUME NEW r \in Reqs PROVE AccessOK(areq[r])'
      <3>1. /\ StepOps(areq[r]) /\ ReadFacts(areq[r]) /\ DownloadFacts(areq[r])
            /\ BlobFacts(areq[r])
            /\ AnswerFacts(areq[r]) /\ areq'[r] = areq[r]
        BY <2>1, TheRequest
      <3>2. StepOps(areq[r])' /\ DownloadFacts(areq[r])' /\ BlobFacts(areq[r])'
        BY <2>1, <3>1, OtherRequests
      <3>3. ReadFacts(areq[r])' /\ AnswerFacts(areq[r])'
        BY <2>1, <3>1, FactsStay
      <3> QED
        BY <3>2, <3>3 DEF AccessOK
    <2>4. \A d \in Downloads : UrlFits(dls[d], kind)'
      BY <2>1 DEF AccessInv, UrlFits
    <2> QED
      BY <2>2, <2>3, <2>4 DEF AccessInv
  <1> QED
    BY <1>1, <1>2, <1>3, <1>4, <1>5, <1>6, <1>7, <1>8, <1>9 DEF AccessNext

(* The inductive invariant of FileAccess: its state has the types declared,  *)
(* what a request in flight has read of rows and grants is what "could" says *)
(* unless something changed in between, the URL of a download is one its     *)
(* storage's type calls for unless the row is marked, no two requests write  *)
(* the URL of one download, an upload that was answered keeps its object     *)
(* while its row is live, and an answered request got the answer the run's   *)
(* invariants ask for.                                                       *)
THEOREM AccessInvariance == AccessSpec => []AccessInv
  <1>1. AccessInit => AccessInv
    BY AccessStart
  <1>2. AccessInv /\ [AccessNext]_accessVars => AccessInv'
    BY AccessKeeps
  <1> QED
    BY <1>1, <1>2, PTL DEF AccessSpec

(* The row, the grants, the storage's type, the downloads and the requests   *)
(* keep their types.                                                         *)
THEOREM AccessTypes == AccessSpec => []AccessTypeOK
  <1>1. AccessInv => AccessTypeOK
    BY DEF AccessInv
  <1> QED
    BY <1>1, AccessInvariance, PTL

(* getFile, getMedia, listFiles, listMedia and createDownload show a file to *)
(* those who could see it when its row was read, and to nobody else, however *)
(* rows and grants change around the request.                                *)
THEOREM AnswersAreRight == AccessSpec => []AnswersMatchVisibility
  <1>1. AccessInv => AnswersMatchVisibility
    BY DEF AccessInv, AccessOK, AnswerFacts, AnswersMatchVisibility, Done, On
  <1> QED
    BY <1>1, AccessInvariance, PTL

(* streamDownload answers only the owner of a download, with the file of     *)
(* that download.                                                            *)
THEOREM StreamsAreRight == AccessSpec => []StreamServesItsDownload
  <1>1. AccessInv => StreamServesItsDownload
    BY DEF AccessInv, AccessOK, AnswerFacts, StreamServesItsDownload, Done, On
  <1> QED
    BY <1>1, AccessInvariance, PTL

(* A download createDownload answered works until it expires, but for the    *)
(* exceptions DownloadsWork lists.                                           *)
THEOREM DownloadsAreGood == AccessSpec => []DownloadsWork
  <1>1. AccessInv => DownloadsWork
    BY DEF AccessInv, AccessOK, AnswerFacts, DownloadsWork, Done, On
  <1> QED
    BY <1>1, AccessInvariance, PTL

-----------------------------------------------------------------------------
(* Paging. *)

Walks ==
    [pc : {"count", "select", "done"}, list : Listings, way : Ways, limit : Int, offset : Int,
     total : 0..Cardinality(Ids), denied : BOOLEAN, dropped : SUBSET Ids, got : [Ids -> Nat],
     asked : Limits, first : Offsets,
     stayed : SUBSET Ids, due : SUBSET Ids, back : SUBSET Ids, on : SUBSET Ids,
     stale : BOOLEAN]

(* A row still to be shown lies ahead of the walk, unless it may have moved  *)
(* past it or an error kept it from its page; and when there is no page left,*)
(* there is no such row.                                                     *)
Owed(r) ==
    walk.asked <= MaxLimit /\ walk.got[r] = 0 /\ r \notin walk.dropped =>
        CASE walk.pc = "done" ->
                 IF walk.way = "next" THEN r \in walk.back \/ walk.stale ELSE r \in walk.on
          [] walk.pc # "done" /\ walk.way = "next" ->
                 r \in walk.back \/ Before(r) >= ListOffset(walk.offset)
          [] walk.pc # "done" /\ walk.way = "previous" ->
                 r \in walk.on \/ Before(r) < ListOffset(walk.offset) + LinkLimit(walk.limit)

(* A row shown lies behind the walk, unless it may have moved ahead of it.   *)
ShownOnce(r) ==
    /\ walk.way = "next" /\ walk.first >= 0 /\ r \notin walk.on =>
          /\ walk.got[r] <= 1
          /\ walk.pc # "done" /\ walk.got[r] = 1 => Before(r) < walk.offset
    /\ walk.way = "previous" /\ walk.first % LinkLimit(walk.asked) = 0 /\ r \notin walk.back =>
          /\ walk.got[r] <= 1
          /\ walk.pc # "done" /\ walk.got[r] = 1 =>
                Before(r) >= ListOffset(walk.offset) + LinkLimit(walk.limit)

PagingInv ==
    /\ PagingTypeOK /\ walk \in Walks
    /\ walk.limit \in {walk.asked, LinkLimit(walk.asked)}
    /\ Tied(stamp) \cap walk.stayed \subseteq walk.on \cap walk.back
    /\ walk.pc = "select" /\ walk.denied => walk.total = 0
    /\ walk.pc = "select" /\ ~walk.stale /\ ~walk.denied => Cardinality(Present) <= walk.total
    /\ walk.way = "next" /\ walk.first >= 0 => walk.offset >= 0
    /\ walk.way = "previous" /\ walk.first % LinkLimit(walk.asked) = 0 =>
          walk.offset % LinkLimit(walk.asked) = 0
    /\ \A r \in walk.due : Owed(r)
    /\ \A r \in walk.stayed : ShownOnce(r)

-----------------------------------------------------------------------------
(* The order of the rows. *)

Ahead(r) == {q \in Present : stamp[q] > stamp[r]}

\* Rows, and those before one of them, are finitely many.
LEMMA RowsAreFinite ==
  ASSUME Present \subseteq Ids
  PROVE  /\ IsFiniteSet(Present) /\ Cardinality(Present) \in Nat
         /\ Cardinality(Present) <= Cardinality(Ids) /\ Cardinality(Ids) \in Nat
         /\ \A r : /\ IsFiniteSet(Ahead(r)) /\ Ahead(r) \subseteq Present
                   /\ Before(r) = Cardinality(Ahead(r)) /\ Before(r) \in Nat
  <1>1. IsFiniteSet(Ids)
    BY PagingAssumption
  <1>2. IsFiniteSet(Present) /\ Cardinality(Present) <= Cardinality(Ids)
    BY <1>1, FS_Subset
  <1>3. ASSUME NEW r
        PROVE  /\ IsFiniteSet(Ahead(r)) /\ Ahead(r) \subseteq Present
               /\ Before(r) = Cardinality(Ahead(r))
    <2>1. Ahead(r) \in SUBSET Present /\ Before(r) = Cardinality(Ahead(r))
      BY DEF Ahead, Before
    <2> QED
      BY <1>2, <2>1, FS_Subset
  <1> QED
    BY <1>1, <1>2, <1>3, FS_CardinalityType

LEMMA StampsAreNumbers ==
  ASSUME stamp \in [Present -> Stamps], NEW q \in Present
  PROVE  stamp[q] \in Int
  <1>1. Stamps \subseteq Nat
    BY PagingAssumption
  <1>2. \A s \in Stamps : s \in Int
    BY <1>1
  <1>3. stamp[q] \in Stamps
    OBVIOUS
  <1> QED
    BY <1>2, <1>3

\* A row with a stamp of its own is among the first n iff fewer than n are before it.
LEMMA FrontIs ==
  ASSUME Present \subseteq Ids, stamp \in [Present -> Stamps],
         NEW r \in Present, r \notin Tied(stamp), NEW n \in Nat, NEW front \in Fronts(n)
  PROVE  r \in front <=> Before(r) < n
  <1>1. /\ front \in SUBSET Present
        /\ Cardinality(front) = IF n < Cardinality(Present) THEN n ELSE Cardinality(Present)
        /\ \A p \in front, q \in Present : stamp[q] > stamp[p] => q \in front
    BY DEF Fronts
  <1>2. \A q \in Present : stamp[q] \in Int
    BY StampsAreNumbers
  <1>3. \A q \in Present : q # r => stamp[q] # stamp[r]
    BY DEF Tied, Present
  <1>4. IsFiniteSet(front) /\ (Cardinality(front) = Cardinality(Present) => front = Present)
    BY <1>1, RowsAreFinite, FS_Subset
  <1>5. ASSUME r \in front PROVE Before(r) < n
    <2>1. Ahead(r) \cup {r} \in SUBSET front /\ r \notin Ahead(r)
      BY <1>1, <1>2, <1>5 DEF Ahead
    <2>2. Cardinality(Ahead(r) \cup {r}) <= Cardinality(front)
      BY <1>4, <2>1, FS_Subset
    <2>3. Cardinality(Ahead(r) \cup {r}) = Before(r) + 1
      BY <2>1, RowsAreFinite, FS_AddElement
    <2> QED
      BY <1>1, <2>2, <2>3, RowsAreFinite
  <1>6. ASSUME r \notin front PROVE ~(Before(r) < n)
    <2>1. front \in SUBSET Ahead(r)
      BY <1>1, <1>2, <1>3, <1>6 DEF Ahead
    <2>2. Cardinality(front) <= Before(r)
      BY <2>1, RowsAreFinite, FS_Subset
    <2>3. Cardinality(front) = n
      BY <1>1, <1>4, <1>6
    <2> QED
      BY <2>2, <2>3, RowsAreFinite
  <1> QED
    BY <1>5, <1>6

\* Fewer rows are before a row than there are.
LEMMA BeforeIsLess ==
  ASSUME Present \subseteq Ids, stamp \in [Present -> Stamps], NEW r \in Present
  PROVE  Before(r) < Cardinality(Present)
  <1>1. stamp[r] \in Int
    BY StampsAreNumbers
  <1>2. r \notin Ahead(r)
    BY <1>1 DEF Ahead
  <1>3. Cardinality(Ahead(r)) <= Cardinality(Present)
        /\ (Cardinality(Present) = Cardinality(Ahead(r)) => Present = Ahead(r))
    BY RowsAreFinite, FS_Subset
  <1> QED
    BY <1>2, <1>3, RowsAreFinite

-----------------------------------------------------------------------------
(* Limits and offsets. *)

\* The limits of lists and links are positive; within the greatest they agree.
LEMMA LimitsAre ==
  ASSUME NEW l \in Int
  PROVE  /\ ListLimit(l) \in Nat \ {0} /\ LinkLimit(l) \in Nat \ {0}
         /\ ListLimit(l) <= LinkLimit(l)
         /\ l <= MaxLimit => ListLimit(l) = LinkLimit(l) /\ LinkLimit(l) <= MaxLimit
         /\ LinkLimit(LinkLimit(l)) = LinkLimit(l)
  BY PagingAssumption DEF ListLimit, LinkLimit

\* The offset of a list.
LEMMA OffsetIs ==
  ASSUME NEW o \in Int
  PROVE  /\ ListOffset(o) \in Nat /\ ListOffset(o) >= o
         /\ o >= 0 => ListOffset(o) = o
         /\ o <= 0 => ListOffset(o) = 0
  BY DEF ListOffset

\* From a multiple of the limit a step back ends at a multiple.
LEMMA StepsBack ==
  ASSUME NEW o \in Int, NEW l \in Nat \ {0}, o % l = 0, o > 0
  PROVE  o >= l /\ (o - l) % l = 0
  <1>1. \E k \in Int : o = k * l
    OBVIOUS
  <1>2. PICK k \in Int : o = l * k
    BY <1>1
  <1>3. o - l = l * (k - 1)
    BY <1>2
  <1>4. ASSUME NEW p \in Int, NEW j \in Int, p = l * j PROVE p % l = 0
    BY <1>4
  <1>5. (o - l) % l = 0
    BY <1>3, <1>4
  <1>6. o >= l
    OBVIOUS
  <1> QED
    BY <1>5, <1>6

(* The offset of the request a link leads to. *)
Following(t, l, o) == CHOOSE p \in Link(t, l, o) : TRUE

\* A link is one offset.
LEMMA LinkIs ==
  ASSUME NEW t, NEW l \in Int, NEW o \in Int
  PROVE  /\ walk.way = "next" /\ o + LinkLimit(l) < t =>
               Link(t, l, o) # {} /\ Following(t, l, o) = o + LinkLimit(l)
         /\ walk.way = "next" /\ ~(o + LinkLimit(l) < t) => Link(t, l, o) = {}
         /\ walk.way = "previous" /\ o > 0 =>
               /\ Link(t, l, o) # {}
               /\ Following(t, l, o) = IF o < LinkLimit(l) THEN 0 ELSE o - LinkLimit(l)
         /\ walk.way = "previous" /\ ~(o > 0) => Link(t, l, o) = {}
  <1>1. \A p : (CHOOSE q \in {p} : TRUE) = p
    OBVIOUS
  <1>2. "next" # "previous"
    OBVIOUS
  <1> QED
    BY <1>1, <1>2 DEF Following, Link, NextLink, PreviousLink

-----------------------------------------------------------------------------
(* The walk. *)

\* What the numbers of a walk are.
LEMMA WalkIs ==
  ASSUME PagingInv
  PROVE  /\ Present \subseteq Ids /\ stamp \in [Present -> Stamps] /\ walk \in Walks
         /\ walk.limit \in Int /\ walk.offset \in Int /\ walk.asked \in Int
         /\ walk.first \in Int
         /\ walk.total \in Int /\ walk.got \in [Ids -> Nat]
         /\ walk.due \subseteq walk.stayed /\ walk.stayed \subseteq Present
         /\ shifts \in 0..MaxShifts
         /\ LinkLimit(walk.limit) = LinkLimit(walk.asked)
         /\ walk.asked <= MaxLimit => walk.limit <= MaxLimit
  <1>1. /\ Present \subseteq Ids /\ stamp \in [Present -> Stamps] /\ walk \in Walks
        /\ walk.due \subseteq walk.stayed /\ walk.stayed \subseteq Present
        /\ shifts \in 0..MaxShifts /\ walk.limit \in {walk.asked, LinkLimit(walk.asked)}
        /\ walk.asked \in Limits /\ walk.first \in Offsets
    BY DEF PagingInv, PagingTypeOK
  <1>2. walk.asked \in Int /\ walk.first \in Int
    BY <1>1, PagingAssumption
  <1>3. walk.limit \in Int /\ walk.offset \in Int /\ walk.total \in Int /\ walk.got \in [Ids -> Nat]
    BY <1>1, RowsAreFinite DEF Walks
  <1>4. /\ LinkLimit(walk.limit) = LinkLimit(walk.asked)
        /\ walk.asked <= MaxLimit => walk.limit <= MaxLimit
    BY <1>1, <1>2, LimitsAre
  <1> QED
    BY <1>1, <1>2, <1>3, <1>4

LEMMA CountKeeps ==
  ASSUME PagingInv, Count
  PROVE  PagingInv'
  <1> PICK denied \in BOOLEAN :
            walk' = [walk EXCEPT !.pc = "select", !.denied = denied, !.stale = FALSE,
                                 !.total = IF denied THEN 0 ELSE Cardinality(Present)]
    BY DEF Count
  <1> DEFINE total == IF denied THEN 0 ELSE Cardinality(Present)
  <1>0. UNCHANGED <<stamp, shifts>> /\ walk.pc = "count"
    BY DEF Count
  <1>1. Cardinality(Present) \in 0..Cardinality(Ids) /\ total \in 0..Cardinality(Ids)
    BY WalkIs, RowsAreFinite
  <1>2. /\ walk' \in Walks /\ walk'.pc = "select" /\ walk'.total = total
        /\ walk'.denied = denied /\ walk'.dropped = walk.dropped
        /\ walk'.way = walk.way /\ walk'.limit = walk.limit /\ walk'.offset = walk.offset
        /\ walk'.got = walk.got /\ walk'.asked = walk.asked /\ walk'.first = walk.first
        /\ walk'.stayed = walk.stayed /\ walk'.due = walk.due
        /\ walk'.back = walk.back /\ walk'.on = walk.on
    BY <1>0, <1>1, WalkIs DEF Walks
  <1>3. Present' = Present /\ \A r : Before(r)' = Before(r)
    BY <1>0 DEF Present, Before
  <1>4. PagingTypeOK'
    BY <1>0, <1>2, <1>3, WalkIs DEF PagingInv, PagingTypeOK, Walks
  <1>5. ASSUME NEW r \in walk.due PROVE Owed(r)'
    BY <1>0, <1>2, <1>3 DEF PagingInv, Owed
  <1>6. ASSUME NEW r \in walk.stayed PROVE ShownOnce(r)'
    BY <1>0, <1>2, <1>3 DEF PagingInv, ShownOnce
  <1>7. /\ denied => walk'.total = 0
        /\ ~denied => Cardinality(Present)' <= walk'.total
    BY <1>1, <1>2, <1>3, WalkIs, RowsAreFinite
  <1> QED
    BY <1>0, <1>2, <1>4, <1>5, <1>6, <1>7 DEF PagingInv

\* The page that is shown and the request that follows.
LEMMA SelectIs ==
  ASSUME PagingInv, SelectPage
  PROVE  \E skipped \in Fronts(ListOffset(walk.offset)),
            shown \in Fronts(ListOffset(walk.offset) + ListLimit(walk.limit)) :
           LET link == Link(walk.total, walk.limit, walk.offset) IN
           /\ skipped \subseteq shown
           /\ walk' \in Walks
           /\ walk.dropped \subseteq walk'.dropped
           /\ walk.denied => Cut(link, skipped, shown) \subseteq walk'.dropped
           /\ \A r \in Ids :
                 \/ walk'.got[r] = walk.got[r] + IF r \in shown \ skipped THEN 1 ELSE 0
                 \/ /\ walk'.got[r] = walk.got[r]
                    /\ r \in walk'.dropped \/ walk.denied
           /\ walk'.pc = IF link = {} THEN "done" ELSE "count"
           /\ walk'.limit = LinkLimit(walk.limit)
           /\ walk'.offset = IF link = {} THEN walk.offset
                             ELSE Following(walk.total, walk.limit, walk.offset)
           /\ walk'.way = walk.way /\ walk'.total = walk.total /\ walk'.denied = walk.denied
           /\ walk'.asked = walk.asked /\ walk'.first = walk.first
           /\ walk'.stayed = walk.stayed /\ walk'.due = walk.due
           /\ walk'.back = walk.back /\ walk'.on = walk.on /\ walk'.stale = walk.stale
  <1> DEFINE o == ListOffset(walk.offset)
             link == Link(walk.total, walk.limit, walk.offset)
             next == IF link = {} THEN walk.offset
                     ELSE Following(walk.total, walk.limit, walk.offset)
  <1>a. PICK skipped \in Fronts(o), shown \in Fronts(o + ListLimit(walk.limit)) :
           LET page == IF walk.denied THEN {} ELSE shown \ skipped
               cut == IF walk.denied THEN Cut(link, skipped, shown) ELSE {}
           IN \E unread \in SUBSET page :
           /\ skipped \subseteq shown
           /\ unread # {} => walk.list = "media"
           /\ walk' = [walk EXCEPT
                  !.got = [r \in Ids |-> @[r] + IF r \in page \ unread THEN 1 ELSE 0],
                  !.dropped = @ \cup unread \cup cut,
                  !.pc = IF link = {} THEN "done" ELSE "count",
                  !.limit = LinkLimit(@),
                  !.offset = IF link = {} THEN @ ELSE CHOOSE o2 \in link : TRUE]
    BY DEF SelectPage
  <1> DEFINE page == IF walk.denied THEN {} ELSE shown \ skipped
             cut == IF walk.denied THEN Cut(link, skipped, shown) ELSE {}
  <1>1. PICK unread \in SUBSET page :
           /\ skipped \subseteq shown
           /\ walk' = [walk EXCEPT
                  !.got = [r \in Ids |-> @[r] + IF r \in page \ unread THEN 1 ELSE 0],
                  !.dropped = @ \cup unread \cup cut,
                  !.pc = IF link = {} THEN "done" ELSE "count",
                  !.limit = LinkLimit(@),
                  !.offset = IF link = {} THEN @ ELSE CHOOSE o2 \in link : TRUE]
    BY <1>a
  <1> DEFINE got == [r \in Ids |-> walk.got[r] + IF r \in page \ unread THEN 1 ELSE 0]
             dropped == walk.dropped \cup unread \cup cut
             pc == IF link = {} THEN "done" ELSE "count"
             limit == LinkLimit(walk.limit)
  <1>2. walk' = [walk EXCEPT !.got = got, !.dropped = dropped, !.pc = pc, !.limit = limit,
                             !.offset = next]
    BY <1>1, WalkIs DEF Walks, Following
  <1>3. /\ walk \in Walks /\ walk.way \in Ways /\ walk.limit \in Int /\ walk.offset \in Int
        /\ walk.total \in Int
    BY WalkIs DEF Walks
  <1>4. /\ got \in [Ids -> Nat] /\ dropped \subseteq Ids
        /\ \A r \in Ids :
              \/ got[r] = walk.got[r] + IF r \in shown \ skipped THEN 1 ELSE 0
              \/ got[r] = walk.got[r] /\ (r \in dropped \/ walk.denied)
        /\ walk.dropped \subseteq dropped
        /\ walk.denied => Cut(link, skipped, shown) \subseteq dropped
    <2>1. walk.got \in [Ids -> Nat] /\ walk.dropped \subseteq Ids
      BY WalkIs DEF Walks
    <2>2. shown \subseteq Present /\ Present \subseteq Ids
      BY WalkIs DEF Fronts
    <2>3. page \subseteq shown /\ cut \subseteq Present
      BY <2>2 DEF Cut
    <2>4. dropped \subseteq Ids
      BY <2>1, <2>2, <2>3
    <2>5. ASSUME NEW r \in Ids
          PROVE  \/ got[r] = walk.got[r] + IF r \in shown \ skipped THEN 1 ELSE 0
                 \/ got[r] = walk.got[r] /\ (r \in dropped \/ walk.denied)
      BY <2>1
    <2>6. got \in [Ids -> Nat]
      BY <2>1
    <2> QED
      BY <2>4, <2>5, <2>6
  <1>5. pc \in {"count", "select", "done"} /\ limit \in Int
    BY <1>3, LimitsAre
  <1>6. next \in Int
    <2>1. \/ link = {}
          \/ link # {} /\ Following(walk.total, walk.limit, walk.offset) \in Int
      BY <1>3, <1>5, LinkIs DEF Ways
    <2> QED
      BY <1>3, <2>1
  <1> HIDE DEF got, dropped, pc, limit, next
  <1>7. /\ walk' \in Walks /\ walk'.got = got /\ walk'.dropped = dropped /\ walk'.pc = pc
        /\ walk'.limit = limit
        /\ walk'.offset = next
        /\ walk'.way = walk.way /\ walk'.total = walk.total /\ walk'.denied = walk.denied
        /\ walk'.asked = walk.asked /\ walk'.first = walk.first
        /\ walk'.stayed = walk.stayed /\ walk'.due = walk.due
        /\ walk'.back = walk.back /\ walk'.on = walk.on /\ walk'.stale = walk.stale
    BY <1>2, <1>3, <1>4, <1>5, <1>6 DEF Walks
  <1>8. /\ skipped \subseteq shown
        /\ walk' \in Walks
        /\ walk.dropped \subseteq walk'.dropped
        /\ walk.denied => Cut(link, skipped, shown) \subseteq walk'.dropped
        /\ \A r \in Ids :
              \/ walk'.got[r] = walk.got[r] + IF r \in shown \ skipped THEN 1 ELSE 0
              \/ walk'.got[r] = walk.got[r] /\ (r \in walk'.dropped \/ walk.denied)
        /\ walk'.pc = IF link = {} THEN "done" ELSE "count"
        /\ walk'.limit = LinkLimit(walk.limit)
        /\ walk'.offset = IF link = {} THEN walk.offset
                          ELSE Following(walk.total, walk.limit, walk.offset)
        /\ walk'.way = walk.way /\ walk'.total = walk.total /\ walk'.denied = walk.denied
        /\ walk'.asked = walk.asked /\ walk'.first = walk.first
        /\ walk'.stayed = walk.stayed /\ walk'.due = walk.due
        /\ walk'.back = walk.back /\ walk'.on = walk.on /\ walk'.stale = walk.stale
    BY <1>1, <1>4, <1>7 DEF pc, limit, next
  <1> HIDE DEF link, o
  <1> QED
    BY <1>1, <1>8 DEF link, o

LEMMA SelectKeeps ==
  ASSUME PagingInv, SelectPage
  PROVE  PagingInv'
  <1> DEFINE o == ListOffset(walk.offset)
             l == LinkLimit(walk.limit)
             m == ListLimit(walk.limit)
             link == Link(walk.total, walk.limit, walk.offset)
             p == walk'.offset
  <1>0. walk.pc = "select" /\ UNCHANGED <<stamp, shifts>> /\ walk.way \in Ways
    BY WalkIs DEF SelectPage, Walks
  <1>1. PICK skipped \in Fronts(o), shown \in Fronts(o + m) :
           /\ skipped \subseteq shown
           /\ walk' \in Walks
           /\ walk.dropped \subseteq walk'.dropped
           /\ walk.denied => Cut(link, skipped, shown) \subseteq walk'.dropped
           /\ \A r \in Ids :
                 \/ walk'.got[r] = walk.got[r] + IF r \in shown \ skipped THEN 1 ELSE 0
                 \/ /\ walk'.got[r] = walk.got[r]
                    /\ r \in walk'.dropped \/ walk.denied
           /\ walk'.pc = IF link = {} THEN "done" ELSE "count"
           /\ walk'.limit = l
           /\ walk'.offset = IF link = {} THEN walk.offset
                             ELSE Following(walk.total, walk.limit, walk.offset)
           /\ walk'.way = walk.way /\ walk'.total = walk.total /\ walk'.denied = walk.denied
           /\ walk'.asked = walk.asked /\ walk'.first = walk.first
           /\ walk'.stayed = walk.stayed /\ walk'.due = walk.due
           /\ walk'.back = walk.back /\ walk'.on = walk.on /\ walk'.stale = walk.stale
    BY SelectIs
  <1>2. /\ l \in Nat \ {0} /\ m \in Nat \ {0} /\ m <= l /\ LinkLimit(l) = l
        /\ walk.asked <= MaxLimit => m = l
        /\ l = LinkLimit(walk.asked)
    BY WalkIs, LimitsAre
  <1>3. o \in Nat /\ o >= walk.offset /\ walk.offset \in Int /\ (walk.offset >= 0 => o = walk.offset)
        /\ (walk.offset <= 0 => o = 0)
    BY WalkIs, OffsetIs
  <1>4. /\ walk.way = "next" /\ walk.offset + l < walk.total =>
              walk'.pc = "count" /\ p = walk.offset + l
        /\ walk.way = "next" /\ ~(walk.offset + l < walk.total) =>
              walk'.pc = "done" /\ link = {} /\ p = walk.offset
        /\ walk.way = "previous" /\ walk.offset > 0 =>
              walk'.pc = "count" /\ p = IF walk.offset < l THEN 0 ELSE walk.offset - l
        /\ walk.way = "previous" /\ ~(walk.offset > 0) =>
              walk'.pc = "done" /\ p = walk.offset
    BY <1>1, WalkIs, LinkIs
  <1>5. Present' = Present /\ \A r : Before(r)' = Before(r)
    BY <1>0 DEF Present, Before
  <1>6. ASSUME NEW r \in walk.stayed, r \notin walk.on \/ r \notin walk.back
        PROVE  /\ Before(r) \in Nat /\ walk.got[r] \in Nat /\ r \in Present
               /\ r \in skipped <=> Before(r) < o
               /\ r \in shown <=> Before(r) < o + m
               /\ \/ walk'.got[r] = walk.got[r]
                                   + (IF Before(r) < o + m /\ ~(Before(r) < o) THEN 1 ELSE 0)
                  \/ walk'.got[r] = walk.got[r] /\ (r \in walk'.dropped \/ walk.denied)
    <2>1. r \in Present /\ r \in Ids /\ r \notin Tied(stamp)
      BY <1>6, WalkIs DEF PagingInv
    <2>2. (r \in skipped <=> Before(r) < o) /\ (r \in shown <=> Before(r) < o + m)
      BY <1>1, <1>2, <1>3, <2>1, WalkIs, FrontIs
    <2> QED
      BY <1>1, <2>1, <2>2, WalkIs, RowsAreFinite
  <1>7. p \in Int /\ ListOffset(p) \in Nat /\ ListOffset(p) >= p /\ (p >= 0 => ListOffset(p) = p)
        /\ (p <= 0 => ListOffset(p) = 0)
    BY <1>1, OffsetIs DEF Walks
  <1> HIDE DEF o, l, m, link, p
  <1>8. ASSUME NEW r \in walk.due PROVE Owed(r)'
    <2>1. CASE walk.way = "next"
      <3>1. SUFFICES ASSUME walk.asked <= MaxLimit, walk'.got[r] = 0, r \notin walk.back,
                            walk'.pc = "done" => ~walk.stale, r \notin walk'.dropped
                     PROVE  walk'.pc # "done" /\ Before(r) >= ListOffset(p)
        BY <1>1, <1>5, <2>1 DEF Owed, p
      <3>2. r \in walk.stayed /\ r \in Present
        BY WalkIs
      <3>3. /\ Before(r) \in Nat /\ walk.got[r] = 0
            /\ ~walk.denied => ~(Before(r) < o + m /\ ~(Before(r) < o))
        BY <1>6, <3>1, <3>2
      <3>4. Before(r) >= o
        BY <1>0, <1>1, <2>1, <3>1, <3>3 DEF PagingInv, Owed, o
      <3>d. CASE walk.denied
        <4>1. walk.total = 0
          BY <1>0, <3>d DEF PagingInv
        <4>2. r \notin skipped
          BY <1>3, <1>6, <3>1, <3>2, <3>3, <3>4
        <4>3. link # {}
          BY <1>1, <2>1, <3>1, <3>2, <3>d, <4>2 DEF Cut, Ways
        <4>4. walk.offset + l < 0
          BY <1>4, <2>1, <4>1, <4>3
        <4>5. walk'.pc = "count" /\ p = walk.offset + l
          BY <1>4, <2>1, <4>1, <4>4
        <4> QED
          BY <1>2, <1>3, <1>7, <3>3, <4>4, <4>5
      <3>5. ASSUME ~walk.denied PROVE Before(r) >= o + l
        BY <1>2, <1>3, <3>1, <3>3, <3>4, <3>5
      <3>6. CASE ~walk.denied /\ walk.offset + l < walk.total
        BY <1>2, <1>3, <1>4, <1>7, <2>1, <3>3, <3>5, <3>6
      <3>7. CASE ~walk.denied /\ ~(walk.offset + l < walk.total)
        <4>1. Cardinality(Present) <= walk.total
          BY <1>0, <1>4, <2>1, <3>1, <3>7 DEF PagingInv
        <4>2. Before(r) < Cardinality(Present) /\ Cardinality(Present) \in Nat
          BY <3>2, WalkIs, BeforeIsLess, RowsAreFinite
        <4> QED
          BY <1>2, <1>3, <3>3, <3>5, <3>7, <4>1, <4>2, WalkIs
      <3> QED
        BY <3>d, <3>6, <3>7
    <2>2. CASE walk.way = "previous"
      <3>1. SUFFICES ASSUME walk.asked <= MaxLimit, walk'.got[r] = 0, r \notin walk.on,
                            r \notin walk'.dropped
                     PROVE  walk'.pc # "done" /\ Before(r) < ListOffset(p) + l
        BY <1>1, <1>2, <1>5, <2>2 DEF Owed, p
      <3>2. r \in walk.stayed
        BY WalkIs
      <3>3. /\ Before(r) \in Nat /\ walk.got[r] = 0
            /\ ~(Before(r) < o + m /\ ~(Before(r) < o))
        <4>1. walk.denied => r \notin shown \ skipped
          BY <1>1, <2>2, <3>1 DEF Cut
        <4> QED
          BY <1>6, <3>1, <3>2, <4>1
      <3>4. Before(r) < o + l
        BY <1>0, <1>1, <2>2, <3>1, <3>3 DEF PagingInv, Owed, o, l
      <3>5. Before(r) < o
        BY <1>2, <3>1, <3>3, <3>4
      <3>6. walk.offset > 0
        BY <1>3, <3>3, <3>5
      <3> QED
        BY <1>2, <1>3, <1>4, <1>7, <2>2, <3>3, <3>5, <3>6
    <2> QED
      BY <1>0, <2>1, <2>2 DEF Ways
  <1>9. walk.way = "next" /\ walk.first >= 0 => walk.offset >= 0 /\ p >= walk.offset
        /\ (walk'.pc # "done" => p = walk.offset + l)
    BY <1>2, <1>3, <1>4 DEF PagingInv
  <1>10. walk.way = "previous" /\ walk.first % LinkLimit(walk.asked) = 0 =>
           p % l = 0 /\ (walk'.pc # "done" => p = walk.offset - l /\ p >= 0)
    <2>1. SUFFICES ASSUME walk.way = "previous", walk.first % LinkLimit(walk.asked) = 0
                   PROVE  p % l = 0 /\ (walk'.pc # "done" => p = walk.offset - l /\ p >= 0)
      OBVIOUS
    <2>2. walk.offset % l = 0
      BY <1>2, <2>1 DEF PagingInv
    <2>3. CASE walk.offset > 0
      <3>1. walk.offset >= l /\ (walk.offset - l) % l = 0
        BY <1>2, <1>3, <2>2, <2>3, StepsBack
      <3>2. p = walk.offset - l
        BY <1>2, <1>3, <1>4, <2>1, <2>3, <3>1
      <3> QED
        BY <1>2, <1>3, <3>1, <3>2
    <2>4. CASE ~(walk.offset > 0)
      BY <1>4, <2>1, <2>2, <2>4
    <2> QED
      BY <2>3, <2>4
  <1>11. ASSUME NEW r \in walk.stayed PROVE ShownOnce(r)'
    <2>1. ASSUME walk.way = "next", walk.first >= 0, r \notin walk.on
          PROVE  walk'.got[r] <= 1 /\ (walk'.pc # "done" /\ walk'.got[r] = 1 => Before(r) < p)
      <3>1. /\ Before(r) \in Nat /\ walk.got[r] \in Nat
            /\ \/ walk'.got[r] = walk.got[r]
               \/ walk'.got[r] = walk.got[r] + 1 /\ Before(r) < o + m /\ ~(Before(r) < o)
        BY <1>6, <2>1
      <3>2. walk.got[r] <= 1 /\ (walk.got[r] = 1 => Before(r) < walk.offset)
        BY <1>0, <2>1 DEF PagingInv, ShownOnce
      <3> QED
        BY <1>2, <1>3, <1>7, <1>9, <2>1, <3>1, <3>2
    <2>2. ASSUME walk.way = "previous", walk.first % LinkLimit(walk.asked) = 0, r \notin walk.back
          PROVE  /\ walk'.got[r] <= 1
                 /\ walk'.pc # "done" /\ walk'.got[r] = 1 => Before(r) >= ListOffset(p) + l
      <3>1. /\ Before(r) \in Nat /\ walk.got[r] \in Nat
            /\ \/ walk'.got[r] = walk.got[r]
               \/ walk'.got[r] = walk.got[r] + 1 /\ Before(r) < o + m /\ ~(Before(r) < o)
        BY <1>6, <2>2
      <3>2. walk.got[r] <= 1 /\ (walk.got[r] = 1 => Before(r) >= o + l)
        BY <1>0, <2>2 DEF PagingInv, ShownOnce, o, l
      <3>3. walk'.pc # "done" => ListOffset(p) + l = walk.offset /\ walk.offset >= 0
        BY <1>2, <1>3, <1>7, <1>10, <2>2
      <3> QED
        BY <1>2, <1>3, <1>7, <3>1, <3>2, <3>3
    <2> QED
      BY <1>1, <1>2, <1>5, <2>1, <2>2 DEF ShownOnce, p
  <1>12. PagingTypeOK'
    <2>1. walk'.total \in 0..Cardinality(Ids) /\ walk'.got \in [Ids -> Nat]
          /\ walk'.asked \in Limits /\ walk'.first \in Offsets /\ walk'.limit \in Int
          /\ walk'.offset \in Int /\ walk'.way \in Ways
          /\ walk'.pc \in {"count", "select", "done"}
          /\ walk'.back \subseteq Ids /\ walk'.on \subseteq Ids /\ walk'.stale \in BOOLEAN
          /\ walk'.list \in Listings /\ walk'.dropped \subseteq Ids /\ walk'.denied \in BOOLEAN
      BY <1>1 DEF Walks
    <2> QED
      BY <1>0, <1>1, <1>5, <2>1, WalkIs DEF PagingTypeOK
  <1>13. Tied(stamp)' = Tied(stamp)
    BY <1>0
  <1>14. walk'.pc # "select"
    BY <1>1
  <1>15. walk'.limit \in {walk'.asked, LinkLimit(walk'.asked)}
    BY <1>1, <1>2
  <1>16. Tied(stamp)' \cap walk'.stayed \subseteq walk'.on \cap walk'.back
    BY <1>1, <1>13 DEF PagingInv
  <1>17. walk'.way = "next" /\ walk'.first >= 0 => walk'.offset >= 0
    BY <1>1, <1>3, <1>7, <1>9 DEF p
  <1>18. walk'.way = "previous" /\ walk'.first % LinkLimit(walk'.asked) = 0 =>
            walk'.offset % LinkLimit(walk'.asked) = 0
    <2>1. walk'.way = walk.way /\ walk'.first = walk.first /\ walk'.asked = walk.asked
      BY <1>1
    <2> QED
      BY <1>2, <1>10, <2>1 DEF p
  <1>19. (\A r \in walk'.due : Owed(r)') /\ (\A r \in walk'.stayed : ShownOnce(r)')
    BY <1>1, <1>8, <1>11
  <1> QED
    BY <1>1, <1>12, <1>14, <1>15, <1>16, <1>17, <1>18, <1>19 DEF PagingInv

\* A page that fails leaves the walk where it was.
LEMMA FailKeeps ==
  ASSUME PagingInv, PageFails
  PROVE  PagingInv'
  <1>0. walk' = [walk EXCEPT !.pc = "count"] /\ UNCHANGED <<stamp, shifts>> /\ walk.pc = "select"
    BY DEF PageFails
  <1>1. /\ walk' \in Walks /\ walk'.pc = "count"
        /\ UNCHANGED <<walk.way, walk.limit, walk.offset, walk.got, walk.asked, walk.first,
                       walk.stayed, walk.due, walk.back, walk.on, walk.dropped>>
    BY <1>0, WalkIs DEF Walks
  <1>2. Present' = Present /\ \A r : Before(r)' = Before(r)
    BY <1>0 DEF Present, Before
  <1>3. PagingTypeOK'
    BY <1>0, <1>1, <1>2, WalkIs DEF PagingInv, PagingTypeOK, Walks
  <1>4. ASSUME NEW r \in walk.due PROVE Owed(r)'
    BY <1>0, <1>1, <1>2 DEF PagingInv, Owed
  <1>5. ASSUME NEW r \in walk.stayed PROVE ShownOnce(r)'
    BY <1>0, <1>1, <1>2 DEF PagingInv, ShownOnce
  <1> QED
    BY <1>0, <1>1, <1>3, <1>4, <1>5 DEF PagingInv

-----------------------------------------------------------------------------
(* Rows come and go. *)

\* A row that comes moves the rows of no greater stamp towards the end.
LEMMA ComesIs ==
  ASSUME PagingInv, NEW r \in Ids, NEW s \in Stamps, RowComes(r, s)
  PROVE  /\ r \notin Present /\ Present' = Present \cup {r} /\ stamp' \in [Present' -> Stamps]
         /\ Present' \subseteq Ids
         /\ \A q \in Present :
               /\ Before(q) \in Nat /\ Before(q)' \in Nat /\ Before(q) <= Before(q)'
               /\ ~(stamp[q] <= s) => Before(q)' = Before(q)
               /\ q \in Tied(stamp)' => q \in Tied(stamp) \/ stamp[q] <= s
  <1>0. /\ r \notin Present /\ stamp' = [q \in Present \cup {r} |-> IF q = r THEN s ELSE stamp[q]]
        /\ Present \subseteq Ids /\ stamp \in [Present -> Stamps]
    BY WalkIs DEF RowComes
  <1>1. Present' = Present \cup {r}
    BY <1>0 DEF Present
  <1>2. /\ stamp' \in [Present \cup {r} -> Stamps] /\ Present' \subseteq Ids
        /\ stamp'[r] = s /\ \A q \in Present : stamp'[q] = stamp[q]
    BY <1>0, <1>1
  <1>3. s \in Int /\ \A q \in Present : stamp[q] \in Int
    <2>1. \A n \in Stamps : n \in Int
      BY PagingAssumption
    <2> QED
      BY <2>1, <1>0, StampsAreNumbers
  <1>4. ASSUME NEW q \in Present
        PROVE  /\ Before(q) \in Nat /\ Before(q)' \in Nat /\ Before(q) <= Before(q)'
               /\ ~(stamp[q] <= s) => Before(q)' = Before(q)
               /\ q \in Tied(stamp)' => q \in Tied(stamp) \/ stamp[q] <= s
    <2> DEFINE A == {p \in Present : stamp[p] > stamp[q]}
               B == {p \in Present' : stamp'[p] > stamp'[q]}
    <2>1. Before(q) = Cardinality(A) /\ Before(q)' = Cardinality(B)
      BY DEF Before
    <2>2. A \subseteq B /\ B \in SUBSET Ids
      BY <1>0, <1>1, <1>2
    <2>3. IsFiniteSet(B) /\ Cardinality(B) \in Nat
      BY <2>2, PagingAssumption, FS_Subset, FS_CardinalityType
    <2>4. IsFiniteSet(A) /\ Cardinality(A) \in Nat /\ Cardinality(A) <= Cardinality(B)
      BY <2>2, <2>3, FS_Subset, FS_CardinalityType
    <2>5. ~(stamp[q] <= s) => B = A
      BY <1>0, <1>1, <1>2, <1>3
    <2>6. q \in Tied(stamp)' => q \in Tied(stamp) \/ stamp[q] <= s
      <3>1. ASSUME q \in Tied(stamp)', ~(stamp[q] <= s) PROVE q \in Tied(stamp)
        <4>1. PICK p \in Present' \ {q} : stamp'[p] = stamp'[q]
          BY <3>1 DEF Tied, Present
        <4>2. p \in Present \ {q} /\ stamp[p] = stamp[q]
          BY <1>1, <1>2, <1>3, <3>1, <4>1
        <4> QED
          BY <4>2 DEF Tied, Present
      <3> QED
        BY <3>1
    <2> QED
      BY <2>1, <2>3, <2>4, <2>5, <2>6
  <1> QED
    BY <1>0, <1>1, <1>2, <1>4

\* A row that goes moves the rows of no greater stamp towards the front.
LEMMA GoesIs ==
  ASSUME PagingInv, NEW r \in Ids, RowGoes(r)
  PROVE  /\ r \in Present /\ Present' = Present \ {r} /\ stamp' \in [Present' -> Stamps]
         /\ \A q \in Present' :
               /\ Before(q) \in Nat /\ Before(q)' \in Nat /\ Before(q)' <= Before(q)
               /\ ~(stamp[q] <= stamp[r]) => Before(q)' = Before(q)
               /\ q \in Tied(stamp)' => q \in Tied(stamp)
  <1>0. /\ r \in Present /\ stamp' = [q \in Present \ {r} |-> stamp[q]]
        /\ Present \subseteq Ids /\ stamp \in [Present -> Stamps]
    BY WalkIs DEF RowGoes
  <1>1. Present' = Present \ {r}
    BY <1>0 DEF Present
  <1>2. stamp' \in [Present \ {r} -> Stamps] /\ \A q \in Present' : stamp'[q] = stamp[q]
    BY <1>0, <1>1
  <1>3. \A q \in Present : stamp[q] \in Int
    BY <1>0, StampsAreNumbers
  <1>4. ASSUME NEW q \in Present'
        PROVE  /\ Before(q) \in Nat /\ Before(q)' \in Nat /\ Before(q)' <= Before(q)
               /\ ~(stamp[q] <= stamp[r]) => Before(q)' = Before(q)
               /\ q \in Tied(stamp)' => q \in Tied(stamp)
    <2> DEFINE A == {p \in Present : stamp[p] > stamp[q]}
               B == {p \in Present' : stamp'[p] > stamp'[q]}
    <2>1. Before(q) = Cardinality(A) /\ Before(q)' = Cardinality(B)
      BY DEF Before
    <2>2. B \subseteq A /\ A \in SUBSET Ids
      BY <1>0, <1>1, <1>2
    <2>3. IsFiniteSet(A) /\ Cardinality(A) \in Nat
      BY <2>2, PagingAssumption, FS_Subset, FS_CardinalityType
    <2>4. IsFiniteSet(B) /\ Cardinality(B) \in Nat /\ Cardinality(B) <= Cardinality(A)
      BY <2>2, <2>3, FS_Subset, FS_CardinalityType
    <2>5. ~(stamp[q] <= stamp[r]) => B = A
      BY <1>0, <1>1, <1>2, <1>3
    <2>6. q \in Tied(stamp)' => q \in Tied(stamp)
      BY <1>1, <1>2 DEF Tied, Present
    <2> QED
      BY <2>1, <2>3, <2>4, <2>5, <2>6
  <1> QED
    BY <1>0, <1>1, <1>2, <1>4

\* A row to be shown stays owed when rows move, unless "back" or "on" notes it.
LEMMA MovingKeepsOwed ==
  ASSUME PagingInv, NEW r \in walk.due, walk.pc # "done",
         UNCHANGED <<walk.pc, walk.way, walk.asked, walk.got, walk.offset, walk.limit, walk.dropped>>,
         Before(r) \in Nat, Before(r)' \in Nat,
         r \in walk.back => r \in walk'.back, r \in walk.on => r \in walk'.on,
         r \in walk'.back \/ Before(r) <= Before(r)', r \in walk'.on \/ Before(r)' <= Before(r)
  PROVE  Owed(r)'
  <1> DEFINE o == ListOffset(walk.offset)
             l == LinkLimit(walk.limit)
  <1>1. o \in Nat /\ l \in Nat /\ walk.way \in Ways
    BY WalkIs, OffsetIs, LimitsAre DEF Walks
  <1>2. Owed(r)
    BY DEF PagingInv
  <1> HIDE DEF o, l
  <1>3. ASSUME walk.asked <= MaxLimit, walk.got[r] = 0, walk.way = "next", r \notin walk.dropped
        PROVE  r \in walk'.back \/ Before(r)' >= o
    <2>1. r \in walk.back \/ Before(r) >= o
      BY <1>2, <1>3 DEF Owed, o
    <2> QED
      BY <1>1, <2>1
  <1>4. ASSUME walk.asked <= MaxLimit, walk.got[r] = 0, walk.way = "previous",
               r \notin walk.dropped
        PROVE  r \in walk'.on \/ Before(r)' < o + l
    <2>1. r \in walk.on \/ Before(r) < o + l
      BY <1>2, <1>4 DEF Owed, o, l
    <2> QED
      BY <1>1, <2>1
  <1>5. o' = o /\ l' = l
    BY DEF o, l
  <1> QED
    BY <1>1, <1>3, <1>4, <1>5 DEF Owed, Ways, o, l

\* A row shown stays behind the walk when rows move, unless "back" or "on" notes it.
LEMMA MovingKeepsShown ==
  ASSUME PagingInv, NEW r \in walk.stayed, walk.pc # "done",
         UNCHANGED <<walk.pc, walk.way, walk.asked, walk.first, walk.got, walk.offset, walk.limit>>,
         Before(r) \in Nat, Before(r)' \in Nat,
         r \in walk.back => r \in walk'.back, r \in walk.on => r \in walk'.on,
         r \in walk'.back \/ Before(r) <= Before(r)', r \in walk'.on \/ Before(r)' <= Before(r)
  PROVE  ShownOnce(r)'
  <1> DEFINE b == ListOffset(walk.offset) + LinkLimit(walk.limit)
             even == walk.first % LinkLimit(walk.asked) = 0
  <1>1. b \in Int /\ walk.offset \in Int
    BY WalkIs, OffsetIs, LimitsAre
  <1>2. ShownOnce(r)
    BY DEF PagingInv
  <1>3. ASSUME walk.way = "next", walk.first >= 0, r \notin walk'.on
        PROVE  walk.got[r] <= 1 /\ (walk.got[r] = 1 => Before(r)' < walk.offset)
    <2>1. walk.got[r] <= 1 /\ (walk.got[r] = 1 => Before(r) < walk.offset)
      BY <1>2, <1>3 DEF ShownOnce
    <2> QED
      BY <1>1, <1>3, <2>1
  <1> HIDE DEF b, even
  <1>4. ASSUME walk.way = "previous", even, r \notin walk'.back
        PROVE  walk.got[r] <= 1 /\ (walk.got[r] = 1 => Before(r)' >= b)
    <2>1. walk.got[r] <= 1 /\ (walk.got[r] = 1 => Before(r) >= b)
      BY <1>2, <1>4 DEF ShownOnce, b, even
    <2> QED
      BY <1>1, <1>4, <2>1
  <1>5. b' = b /\ even' = even
    BY DEF b, even
  <1> QED
    BY <1>3, <1>4, <1>5 DEF ShownOnce, b, even

\* What is left to show of a change of the rows.
LEMMA MovingKeeps ==
  ASSUME PagingInv, walk.pc # "done",
         UNCHANGED <<walk.pc, walk.way, walk.asked, walk.first, walk.got, walk.offset,
                     walk.limit, walk.total, walk.denied, walk.dropped>>,
         walk' \in Walks, Present' \subseteq Ids, stamp' \in [Present' -> Stamps],
         shifts' \in 0..MaxShifts, walk'.stayed \subseteq walk.stayed \cap Present',
         walk'.due \subseteq walk.due \cap walk'.stayed,
         walk.back \subseteq walk'.back, walk.on \subseteq walk'.on,
         walk'.pc = "select" /\ ~walk'.stale /\ ~walk'.denied =>
            Cardinality(Present)' <= walk'.total,
         \A r \in walk'.stayed :
            /\ Before(r) \in Nat /\ Before(r)' \in Nat
            /\ r \in walk'.back \/ Before(r) <= Before(r)'
            /\ r \in walk'.on \/ Before(r)' <= Before(r)
            /\ r \in Tied(stamp)' => r \in walk'.on \cap walk'.back
  PROVE  PagingInv'
  <1>1. PagingTypeOK'
    BY DEF PagingTypeOK, Walks
  <1>2. \A r \in walk'.due : Owed(r)'
    <2>1. ASSUME NEW r \in walk'.due PROVE Owed(r)'
      BY <2>1, MovingKeepsOwed
    <2> QED
      BY <2>1
  <1>3. \A r \in walk'.stayed : ShownOnce(r)'
    <2>1. ASSUME NEW r \in walk'.stayed PROVE ShownOnce(r)'
      BY <2>1, MovingKeepsShown
    <2> QED
      BY <2>1
  <1>4. walk'.limit \in {walk'.asked, LinkLimit(walk'.asked)}
    BY DEF PagingInv
  <1>5. Tied(stamp)' \cap walk'.stayed \subseteq walk'.on \cap walk'.back
    OBVIOUS
  <1>6. /\ walk'.way = "next" /\ walk'.first >= 0 => walk'.offset >= 0
        /\ walk'.way = "previous" /\ walk'.first % LinkLimit(walk'.asked) = 0 =>
              walk'.offset % LinkLimit(walk'.asked) = 0
    BY DEF PagingInv
  <1> QED
    BY <1>1, <1>2, <1>3, <1>4, <1>5, <1>6 DEF PagingInv

LEMMA ComesKeeps ==
  ASSUME PagingInv, NEW r \in Ids, NEW s \in Stamps, RowComes(r, s)
  PROVE  PagingInv'
  <1> DEFINE with == [q \in Present \cup {r} |-> IF q = r THEN s ELSE stamp[q]]
             on == walk.on \cup {q \in Present : stamp[q] <= s}
             back == walk.back \cup Tied(with)
             stale == (walk.pc = "select") \/ walk.stale
  <1>1. /\ walk.pc # "done" /\ shifts < MaxShifts /\ shifts' = shifts + 1 /\ stamp' = with
        /\ walk' = [walk EXCEPT !.on = on, !.back = back, !.stale = stale]
    BY WalkIs DEF RowComes, Walks
  <1>2. /\ r \notin Present /\ Present' = Present \cup {r} /\ stamp' \in [Present' -> Stamps]
        /\ Present' \subseteq Ids
        /\ \A q \in Present :
              /\ Before(q) \in Nat /\ Before(q)' \in Nat /\ Before(q) <= Before(q)'
              /\ ~(stamp[q] <= s) => Before(q)' = Before(q)
              /\ q \in Tied(stamp)' => q \in Tied(stamp) \/ stamp[q] <= s
    BY ComesIs
  <1>3. back = walk.back \cup Tied(stamp)' /\ Tied(stamp)' \subseteq Present'
    BY <1>1 DEF Tied, Present
  <1>4. on \subseteq Ids /\ back \subseteq Ids /\ stale \in BOOLEAN /\ walk \in Walks
    BY <1>2, <1>3, WalkIs DEF Walks
  <1> HIDE DEF on, back, stale, with
  <1>5. /\ walk' \in Walks /\ walk'.on = on /\ walk'.back = back /\ walk'.stale = stale
        /\ walk'.stayed = walk.stayed /\ walk'.due = walk.due
        /\ UNCHANGED <<walk.pc, walk.way, walk.asked, walk.first, walk.got, walk.offset,
                       walk.limit, walk.total, walk.denied, walk.dropped>>
    BY <1>1, <1>4 DEF Walks
  <1>6. shifts' \in 0..MaxShifts
    BY <1>1, WalkIs, PagingAssumption
  <1>7. walk'.pc = "select" => walk'.stale
    BY <1>5 DEF stale
  <1>8. ASSUME NEW q \in walk.stayed
        PROVE  /\ q \in Present /\ Before(q) \in Nat /\ Before(q)' \in Nat
               /\ Before(q) <= Before(q)'
               /\ q \in on \/ Before(q)' <= Before(q)
               /\ q \in Tied(stamp)' => q \in on \cap back
    <2>1. q \in Present
      BY WalkIs
    <2>2. q \in Tied(stamp) => q \in walk.on
      BY DEF PagingInv
    <2> QED
      BY <1>2, <1>3, <2>1, <2>2 DEF on
  <1>9. walk.due \subseteq walk.stayed /\ walk.stayed \subseteq Present
    BY WalkIs
  <1>10. walk.back \subseteq back /\ walk.on \subseteq on
    BY DEF on, back
  <1> QED
    BY <1>1, <1>2, <1>5, <1>6, <1>7, <1>8, <1>9, <1>10, MovingKeeps

LEMMA GoesKeeps ==
  ASSUME PagingInv, NEW r \in Ids, RowGoes(r)
  PROVE  PagingInv'
  <1> DEFINE back == walk.back \cup {q \in Present : stamp[q] <= stamp[r]}
             stayed == walk.stayed \ {r}
             due == walk.due \ {r}
  <1>1. /\ walk.pc # "done" /\ shifts < MaxShifts /\ shifts' = shifts + 1
        /\ walk' = [walk EXCEPT !.back = back, !.stayed = stayed, !.due = due]
    BY WalkIs DEF RowGoes, Walks
  <1>2. /\ r \in Present /\ Present' = Present \ {r} /\ stamp' \in [Present' -> Stamps]
        /\ \A q \in Present' :
              /\ Before(q) \in Nat /\ Before(q)' \in Nat /\ Before(q)' <= Before(q)
              /\ ~(stamp[q] <= stamp[r]) => Before(q)' = Before(q)
              /\ q \in Tied(stamp)' => q \in Tied(stamp)
    BY GoesIs
  <1>3. Present \subseteq Ids /\ walk.due \subseteq walk.stayed /\ walk.stayed \subseteq Present
    BY WalkIs
  <1>4. back \subseteq Ids /\ stayed \subseteq Ids /\ due \subseteq Ids /\ walk \in Walks
    BY <1>3, WalkIs DEF Walks
  <1>5. /\ stayed \subseteq walk.stayed \cap Present' /\ due \subseteq walk.due \cap stayed
        /\ walk.back \subseteq back
    BY <1>2, <1>3
  <1>6. ASSUME NEW q \in stayed
        PROVE  /\ Before(q) \in Nat /\ Before(q)' \in Nat /\ Before(q)' <= Before(q)
               /\ q \in back \/ Before(q) <= Before(q)'
               /\ q \in Tied(stamp)' => q \in walk.on \cap back
    <2>1. q \in Present' /\ q \in Present /\ q \in walk.stayed
      BY <1>2, <1>5
    <2>2. q \in Tied(stamp) => q \in walk.on \cap walk.back
      BY <2>1 DEF PagingInv
    <2> QED
      BY <1>2, <2>1, <2>2
  <1> HIDE DEF back, stayed, due
  <1>7. /\ walk' \in Walks /\ walk'.back = back /\ walk'.stayed = stayed /\ walk'.due = due
        /\ walk'.on = walk.on /\ walk'.stale = walk.stale
        /\ UNCHANGED <<walk.pc, walk.way, walk.asked, walk.first, walk.got, walk.offset,
                       walk.limit, walk.total, walk.denied, walk.dropped>>
    BY <1>1, <1>4 DEF Walks
  <1>8. shifts' \in 0..MaxShifts
    BY <1>1, WalkIs, PagingAssumption
  <1>9. walk'.pc = "select" /\ ~walk'.stale /\ ~walk'.denied =>
            Cardinality(Present)' <= walk'.total
    <2>1. Cardinality(Present \ {r}) <= Cardinality(Present) /\ Cardinality(Present \ {r}) \in Nat
      BY <1>3, RowsAreFinite, FS_Subset, FS_CardinalityType
    <2>2. walk.pc = "select" /\ ~walk.stale /\ ~walk.denied => Cardinality(Present) <= walk.total
      BY DEF PagingInv
    <2>3. Cardinality(Present) \in Nat /\ walk.total \in Int
      BY <1>3, RowsAreFinite, WalkIs
    <2>4. Cardinality(Present)' = Cardinality(Present \ {r})
      BY <1>2
    <2> QED
      BY <1>7, <2>1, <2>2, <2>3, <2>4
  <1>10. Present' \subseteq Ids
    BY <1>2, <1>3
  <1> QED
    BY <1>1, <1>2, <1>5, <1>6, <1>7, <1>8, <1>9, <1>10, MovingKeeps

LEMMA PagingStart ==
  ASSUME PagingInit
  PROVE  PagingInv
  <1>1. PICK rows \in SUBSET Ids : stamp \in [rows -> Stamps]
    BY DEF PagingInit
  <1>2. PICK list \in Listings, l \in Limits, o \in Offsets, way \in Ways :
            walk = Walk(list, l, o, way)
    BY DEF PagingInit
  <1>3. Present \subseteq Ids /\ stamp \in [Present -> Stamps]
    BY <1>1 DEF Present
  <1>4. l \in Int /\ o \in Int /\ 0 \in 0..Cardinality(Ids) /\ shifts \in 0..MaxShifts
    BY <1>3, PagingAssumption, RowsAreFinite DEF PagingInit
  <1> DEFINE due == {r \in Present : (Before(r) < o) = (way = "previous")}
  <1>5. /\ walk.pc = "count" /\ walk.way = way /\ walk.limit = l /\ walk.offset = o
        /\ walk.total = 0 /\ walk.got = [r \in Ids |-> 0] /\ walk.asked = l /\ walk.first = o
        /\ walk.stayed = Present /\ walk.due = due
        /\ walk.back = Tied(stamp) /\ walk.on = Tied(stamp) /\ walk.stale = FALSE
        /\ walk.list = list /\ walk.dropped = {} /\ walk.denied = FALSE
    BY <1>2 DEF Walk
  <1>6. Tied(stamp) \subseteq Present /\ due \subseteq Present
    BY DEF Tied, Present
  <1>7. walk \in Walks
    BY <1>2, <1>3, <1>4, <1>6 DEF Walk, Walks
  <1>8. PagingTypeOK
    <2>1. /\ walk.got \in [Ids -> Nat] /\ walk.total \in 0..Cardinality(Ids)
          /\ walk.back \subseteq Ids /\ walk.on \subseteq Ids /\ walk.stale \in BOOLEAN
          /\ walk.pc \in {"count", "select", "done"}
      BY <1>7 DEF Walks
    <2> QED
      BY <1>3, <1>4, <1>5, <1>6, <2>1 DEF PagingTypeOK
  <1>9. ASSUME NEW r \in due PROVE Owed(r)
    <2>1. Before(r) \in Nat /\ ((Before(r) < o) <=> way = "previous")
      BY <1>3, RowsAreFinite
    <2>2. ListOffset(o) \in Nat /\ ListOffset(o) >= o /\ (o <= 0 => ListOffset(o) = 0)
          /\ (o >= 0 => ListOffset(o) = o) /\ LinkLimit(l) \in Nat
      BY <1>4, OffsetIs, LimitsAre
    <2>3. way = "next" => Before(r) >= ListOffset(o)
      BY <1>4, <2>1, <2>2
    <2>4. way = "previous" => Before(r) < ListOffset(o) + LinkLimit(l)
      BY <1>4, <2>1, <2>2
    <2> QED
      BY <1>5, <2>3, <2>4 DEF Owed, Ways
  <1>10. ASSUME NEW r \in Present PROVE ShownOnce(r)
    <2>1. r \in Ids /\ walk.got[r] = 0
      BY <1>3, <1>5
    <2> QED
      BY <2>1 DEF ShownOnce
  <1> HIDE DEF due
  <1> QED
    BY <1>5, <1>6, <1>7, <1>8, <1>9, <1>10 DEF PagingInv

(* The inductive invariant of Paging: what a walk still owes lies ahead of   *)
(* it and what it has shown behind it, counted by the rows before each, but  *)
(* for the rows whose place may have moved the other way.                    *)
THEOREM PagingInvariance == PagingSpec => []PagingInv
  <1>1. PagingInit => PagingInv
    BY PagingStart
  <1>2. PagingInv /\ [PagingNext]_pagingVars => PagingInv'
    <2>1. CASE UNCHANGED pagingVars
      BY <2>1
      DEF pagingVars, PagingInv, PagingTypeOK, Owed, ShownOnce, Tied, Present, Before
    <2> QED
      BY <2>1, CountKeeps, SelectKeeps, FailKeeps, GoesKeeps, ComesKeeps DEF PagingNext
  <1> QED
    BY <1>1, <1>2, PTL DEF PagingSpec

(* The rows, the client's walk and its history keep their types. *)
THEOREM PagingTypes == PagingSpec => []PagingTypeOK
  <1>1. PagingInv => PagingTypeOK
    BY DEF PagingInv
  <1> QED
    BY <1>1, PagingInvariance, PTL

(* A client that follows the links of a list sees every row that stayed,     *)
(* but for those rows moved over the edge of two pages.                      *)
THEOREM WalksAreComplete == PagingSpec => []WalkMissesNothing
  <1>1. PagingInv => WalkMissesNothing
    BY DEF PagingInv, Owed, WalkMissesNothing
  <1> QED
    BY <1>1, PagingInvariance, PTL

(* A client that follows the links of a list sees no row twice that stayed,  *)
(* but for those rows moved, and walks that began at an odd offset.          *)
THEOREM WalksDoNotRepeat == PagingSpec => []WalkRepeatsNothing
  <1>1. PagingInv => WalkRepeatsNothing
    <2>1. SUFFICES ASSUME PagingInv, NEW r \in walk.stayed, walk.got[r] > 1,
                          r \notin (IF walk.way = "next" THEN walk.on ELSE walk.back),
                          ~(walk.way = "next" /\ walk.first < 0),
                          ~(walk.way = "previous" /\ walk.first % LinkLimit(walk.asked) # 0)
                   PROVE  FALSE
      BY DEF WalkRepeatsNothing
    <2>2. walk.way \in Ways /\ walk.first \in Int /\ walk.got[r] \in Int
      BY <2>1, WalkIs DEF Walks
    <2>3. ShownOnce(r)
      BY <2>1 DEF PagingInv
    <2> QED
      BY <2>1, <2>2, <2>3 DEF ShownOnce, Ways
  <1> QED
    BY <1>1, PagingInvariance, PTL
=============================================================================
