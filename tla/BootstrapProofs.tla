-------------------------- MODULE BootstrapProofs --------------------------
(***************************************************************************)
(* What bootstrap:auth keeps, for any values, environments and bounds.     *)
(***************************************************************************)
EXTENDS Bootstrap, TLAPS

(* No write was interrupted and no edit fell between a read and its write. *)
Undisturbed == why \cap {"torn", "raced"} = {}

(* The operator's values are in the file; they are not among the values to   *)
(* write once those are filtered, and they are in the image read from it.    *)
OperatorInv ==
    Undisturbed =>
        \A k \in Keys : Protected(own[k]) =>
            /\ ~At("write") => file[k] = own[k]
            /\ run.pc \in {"reread", "open", "write"} => run.upd[k] = Empty
            /\ run.pc \in {"open", "write"} => run.image[k] = own[k]

(* Nothing stands between the created token and the file. *)
Unhindered == ~SkipPersist /\ why = {} /\ ~Protected(own["token"])

(* The file's token is nothing or the system's; the system's is in the file, *)
(* or on its way there; a run started from the file has it.                  *)
TokenFacts ==
    /\ ~At("write") /\ Protected(file["token"]) => file["token"] = system
    /\ run.pc \in {"open", "write"} /\ Protected(run.image["token"]) => run.image["token"] = system
    /\ Persisting => run.upd["token"] \in {Empty, system}
    /\ system # Empty /\ ~Persisting => file["token"] = system
    /\ system # Empty /\ run.pc \in {"filter", "reread"} =>
          system \in {file["token"], run.upd["token"]}
    /\ system # Empty /\ run.pc \in {"open", "write"} =>
          system \in {run.image["token"], run.upd["token"]}
    /\ system # Empty /\ run.sourced
          /\ (run.pc \in {"create", "register"} \/ Persisting) => run.key = system

TokenInv == Unhindered => TokenFacts

(* What a run has for a key, and the values the key may have after it. *)
Expected(k) == IF k = "token" THEN system ELSE run.env[k]
Origin(k, v) == v = own[k] \/ v = IF Protected(run.found[k]) THEN run.found[k] ELSE Expected(k)
Clean == Placeholder \notin {run.env["user"], run.env["pass"]}

(* What is in the file, or in the image read from it, has an origin; what    *)
(* was filled stays so; what is to be written fills a gap.                   *)
FillFacts(k) ==
    /\ run.pc \notin {"idle", "write"} =>
          /\ Protected(file[k]) => Origin(k, file[k])
          /\ Protected(run.found[k]) => Protected(file[k])
    /\ run.pc \in {"open", "write"} =>
          /\ Protected(run.image[k]) => Origin(k, run.image[k]) /\ run.upd[k] = Empty
          /\ Protected(run.found[k]) => Protected(run.image[k])
    /\ At("reread") /\ Protected(file[k]) => run.upd[k] = Empty
    /\ Persisting => run.upd[k] \in {Empty, Expected(k)}

(* The run that registers an admin has a value for every key, and then the   *)
(* file has, or the image and the values to write have.                      *)
LastFacts(k) ==
    /\ Clean /\ run.next = "done" =>
          /\ At("filter") => Protected(run.upd[k])
          /\ At("reread") => Protected(file[k]) \/ Protected(run.upd[k])
          /\ run.pc \in {"open", "write"} => Protected(run.image[k]) \/ Protected(run.upd[k])
    /\ Clean /\ At("done") /\ run.env["user"] # Empty => Protected(file[k])

RecordInv == ~SkipPersist /\ why = {} => \A k \in Written : FillFacts(k) /\ LastFacts(k)

BootInv == BootTypeOK /\ OperatorInv /\ TokenInv /\ RecordInv

Runs == [pc : Steps, env : [Keys -> Values], key : Values, upd : [Keys -> Values],
         image : [Keys -> Values], next : {"register", "done"},
         sourced : BOOLEAN, created : BOOLEAN, found : [Keys -> Values]]

\* The first file, with no run, no system and no admin, satisfies the invariant.
LEMMA BootStart == BootInit => BootInv
  <1> SUFFICES ASSUME BootInit PROVE BootInv
    OBVIOUS
  <1>1. BootTypeOK
    BY BootAssumption DEF BootInit, BootTypeOK, Idle, Blank, Values, Steps, Causes
  <1>2. OperatorInv
    BY DEF BootInit, OperatorInv, At, Idle
  <1>3. TokenInv
    <2>1. file["token"] \in Values \ {Fresh} /\ own = file /\ run.pc = "idle" /\ system = Empty
      BY DEF BootInit, Idle, Keys
    <2> QED
      BY <2>1 DEF TokenInv, TokenFacts, Unhindered, Persisting, At
  <1>4. RecordInv
    <2>1. run.pc = "idle"
      BY DEF BootInit, Idle
    <2> QED
      BY <2>1 DEF RecordInv, FillFacts, LastFacts, Persisting, At
  <1> QED
    BY <1>1, <1>2, <1>3, <1>4 DEF BootInv

-----------------------------------------------------------------------------
(* What a step does to the run and to the tables. *)

Tables == UNCHANGED <<file, system, own, why>>

RunKeeps ==
    /\ run'.key = run.key /\ run'.sourced = run.sourced /\ run'.next = run.next
    /\ run'.upd = run.upd /\ run'.image = run.image
    /\ run'.env = run.env /\ run'.found = run.found

\* Goto changes the step of the run only.
LEMMA GotoMoves ==
  ASSUME run \in Runs, NEW step \in Steps, Goto(step)
  PROVE  run' \in Runs /\ run'.pc = step /\ RunKeeps
  BY DEF Runs, Goto, RunKeeps

\* PersistThen sets what is to be written, and goes on at once when told to skip.
LEMMA PersistMoves ==
  ASSUME run \in Runs, NEW next \in {"register", "done"}, NEW key \in Values,
         NEW upd \in [Keys -> Values], NEW created \in BOOLEAN,
         PersistThen(next, key, upd, created)
  PROVE  /\ run' \in Runs /\ run'.key = key /\ run'.upd = upd /\ run'.sourced = run.sourced
         /\ run'.env = run.env /\ run'.found = run.found /\ run'.next = next
         /\ run'.pc = "filter" \/ (SkipPersist /\ run'.pc = next)
  BY BootAssumption DEF Runs, PersistThen, Steps

\* A flaw is one of those that were left.
LEMMA FlawTyped ==
  ASSUME BootTypeOK, NEW causes \in SUBSET Causes, Flaw(causes)
  PROVE  /\ left' \in [flaws : 0..MaxFlaws, edits : 0..MaxEdits]
         /\ why' \in SUBSET Causes /\ why' = why \cup causes
  <1>1. left.flaws \in 0..MaxFlaws /\ left.edits \in 0..MaxEdits
    BY DEF BootTypeOK
  <1>2. left.flaws - 1 \in 0..MaxFlaws
    BY <1>1, BootAssumption DEF Flaw
  <1>3. left' = [flaws |-> left.flaws - 1, edits |-> left.edits]
    BY DEF Flaw, BootTypeOK
  <1> QED
    BY <1>1, <1>2, <1>3 DEF Flaw, BootTypeOK

StartDone ==
    /\ ~Persisting /\ Tables
    /\ run'.pc \in {"create", "register"} /\ (run'.sourced => run'.key = file["token"])
    /\ run'.found = file

QuietDone ==
    /\ ~Persisting /\ Tables
    /\ \/ At("create") /\ system # Empty /\ run'.pc = "register" /\ RunKeeps
       \/ run'.pc = "idle"
       \/ /\ run.pc \in {"create", "register"} /\ RunKeeps
          /\ run'.pc = "failed" \/ (run'.pc = "done" /\ run.env["user"] = Empty)

SpoiledDone ==
    /\ UNCHANGED <<file, own>>
    /\ \E c \in Causes : why' = why \cup {c} /\ (At("write") => c = "torn")
    /\ run'.pc \notin {"reread", "open", "write"}

CreateSystemDone ==
    /\ At("create") /\ system = Empty /\ system' = Fresh /\ UNCHANGED <<file, own, why>>
    /\ run'.key = Fresh
    /\ \A k \in Written : run'.upd[k] = IF k = "token" THEN Fresh ELSE Empty
    /\ run'.env = run.env /\ run'.found = run.found /\ run'.next = "register"
    /\ run'.pc = "filter" \/ (SkipPersist /\ run'.pc = "register")

RegisterAdminDone ==
    /\ At("register") /\ run.key = system /\ Tables
    /\ run'.key = run.key
    /\ \A k \in Written : run'.upd[k] = Expected(k) /\ Expected(k) # Empty
    /\ run'.env = run.env /\ run'.found = run.found /\ run'.next = "done"
    /\ run'.pc = "filter" \/ (SkipPersist /\ run'.pc = "done")

FilterDone ==
    /\ At("filter") /\ Tables
    /\ run'.key = run.key /\ run'.sourced = run.sourced
    /\ run'.env = run.env /\ run'.found = run.found /\ run'.next = run.next
    /\ \A k \in Keys : run'.upd[k] = IF Protected(file[k]) THEN Empty ELSE run.upd[k]
    /\ \/ run'.pc = "reread"
       \/ /\ run'.pc = run.next /\ run.next \in {"register", "done"}
          /\ \A k \in Keys : run'.upd[k] = Empty

RereadDone ==
    /\ At("reread") /\ Tables
    /\ run'.pc = "open" /\ run'.image = file
    /\ run'.key = run.key /\ run'.sourced = run.sourced /\ run'.upd = run.upd
    /\ run'.env = run.env /\ run'.found = run.found /\ run'.next = run.next

OpenDone ==
    At("open") /\ UNCHANGED <<system, own, why>> /\ run'.pc = "write" /\ RunKeeps

WriteDone ==
    /\ At("write") /\ UNCHANGED <<system, own, why>>
    /\ run'.pc = run.next /\ run.next \in {"register", "done"} /\ RunKeeps
    /\ \A k \in Keys : file'[k] = IF run.upd[k] # Empty THEN run.upd[k] ELSE run.image[k]

EditDone ==
    /\ UNCHANGED <<system, run>>
    /\ run.pc \in {"reread", "open", "write"} => "raced" \in why'
    /\ why \subseteq why'
    /\ \E j \in Keys : /\ Protected(own'[j]) /\ file'[j] = own'[j]
                       /\ \A k \in Keys : k # j => file'[k] = file[k] /\ own'[k] = own[k]

BootDone ==
    \/ StartDone \/ QuietDone \/ SpoiledDone \/ CreateSystemDone \/ RegisterAdminDone
    \/ FilterDone \/ RereadDone \/ OpenDone \/ WriteDone \/ EditDone
    \/ Tables /\ UNCHANGED run

-----------------------------------------------------------------------------
\* The type of the state after a step that leaves file, own and admin alone.
LEMMA SameTables ==
  ASSUME BootTypeOK, UNCHANGED <<file, own, admin>>, system' \in {Empty, Fresh}, run' \in Runs,
         why' \in SUBSET Causes, left' \in [flaws : 0..MaxFlaws, edits : 0..MaxEdits]
  PROVE  BootTypeOK'
  BY DEF BootTypeOK, Runs

\* A run begins with the environment src; b tells whether it is the file's.
LEMMA Begins ==
  ASSUME NEW src \in [Keys -> Values], NEW b \in BOOLEAN, NEW step \in {"create", "register"},
         file \in [Keys -> Values],
         run' = [Idle EXCEPT !.env = src, !.key = src["token"], !.sourced = b, !.found = file,
                             !.pc = step]
  PROVE  /\ run' \in Runs /\ run'.pc = step /\ run'.sourced = b /\ run'.key = src["token"]
         /\ run'.found = file
  <1>1. Idle \in Runs
    BY DEF Runs, Idle, Blank, Steps, Values
  <1>2. src["token"] \in Values /\ step \in Steps
    BY DEF Keys, Steps
  <1> QED
    BY <1>1, <1>2 DEF Runs

LEMMA StartEffect ==
  ASSUME BootTypeOK, NEW creates \in BOOLEAN, Start(creates)
  PROVE  BootTypeOK' /\ StartDone
  <1> DEFINE step == IF creates THEN "create" ELSE "register"
             From(src, b) == run' = [Idle EXCEPT !.env = src, !.key = src["token"],
                                                 !.sourced = b, !.found = file, !.pc = step]
  <1>1. \E src \in {file} \cup Environments : From(src, src = file)
    BY Zenon DEF Start
  <1>2. PICK src \in {file} \cup Environments : \E b \in BOOLEAN : b = (src = file) /\ From(src, b)
    BY <1>1, Zenon
  <1>3. PICK b \in BOOLEAN : b = (src = file) /\ From(src, b)
    BY <1>2
  <1>4. /\ src \in [Keys -> Values] /\ step \in {"create", "register"}
        /\ file \in [Keys -> Values]
    BY BootAssumption DEF BootTypeOK
  <1>5. /\ run' \in Runs /\ run'.pc = step /\ run'.sourced = b /\ run'.key = src["token"]
        /\ run'.found = file
    BY <1>3, <1>4, Begins
  <1>6. BootTypeOK'
    BY <1>5, SameTables DEF Start, BootTypeOK
  <1>7. run'.pc \in {"create", "register"} /\ (run'.sourced => run'.key = file["token"])
    BY <1>3, <1>4, <1>5
  <1> QED
    BY <1>5, <1>6, <1>7 DEF Start, StartDone, Persisting, Tables

LEMMA CreateEffect ==
  ASSUME BootTypeOK, CreateSystem
  PROVE  BootTypeOK' /\ CreateSystemDone
  <1> DEFINE upd == [Blank EXCEPT !["token"] = Fresh]
  <1>1. /\ upd \in [Keys -> Values] /\ Fresh \in Values
        /\ \A k \in Written : upd[k] = IF k = "token" THEN Fresh ELSE Empty
    BY DEF Blank, Keys, Values, Written
  <1>2. run \in Runs /\ PersistThen("register", Fresh, upd, TRUE)
    BY DEF CreateSystem, BootTypeOK, Runs
  <1> HIDE DEF upd
  <1>3. /\ run' \in Runs /\ run'.key = Fresh /\ run'.upd = upd
        /\ run'.env = run.env /\ run'.found = run.found /\ run'.next = "register"
        /\ run'.pc = "filter" \/ (SkipPersist /\ run'.pc = "register")
    BY <1>1, <1>2, PersistMoves
  <1>4. BootTypeOK'
    BY <1>3, SameTables DEF CreateSystem, BootTypeOK
  <1> QED
    BY <1>1, <1>3, <1>4 DEF CreateSystem, CreateSystemDone

LEMMA RegisterEffect ==
  ASSUME BootTypeOK, RegisterAdmin
  PROVE  BootTypeOK' /\ RegisterAdminDone
  <1> DEFINE upd == [run.env EXCEPT !["token"] = run.key, !["other"] = Empty]
  <1>0. run \in Runs
    BY DEF BootTypeOK, Runs
  <1>1. /\ upd \in [Keys -> Values] /\ run.key \in Values
        /\ upd["token"] = run.key /\ upd["user"] = run.env["user"] /\ upd["pass"] = run.env["pass"]
    BY <1>0 DEF Runs, Keys, Values
  <1>2. PersistThen("done", run.key, upd, run.created) /\ run.created \in BOOLEAN
    BY <1>0 DEF RegisterAdmin, Runs
  <1> HIDE DEF upd
  <1>3. /\ run' \in Runs /\ run'.key = run.key /\ run'.upd = upd
        /\ run'.env = run.env /\ run'.found = run.found /\ run'.next = "done"
        /\ run'.pc = "filter" \/ (SkipPersist /\ run'.pc = "done")
    BY <1>0, <1>1, <1>2, PersistMoves
  <1>4. admin' \in [user : Values, pass : Values]
    BY <1>0 DEF RegisterAdmin, Registered, BootTypeOK, Runs, Keys
  <1>5. BootTypeOK'
    BY <1>3, <1>4 DEF RegisterAdmin, BootTypeOK, Runs
  <1>6. \A k \in Written : upd[k] = Expected(k) /\ Expected(k) # Empty
    BY <1>1 DEF RegisterAdmin, Registrable, Written, Expected
  <1> QED
    BY <1>3, <1>5, <1>6 DEF RegisterAdmin, RegisterAdminDone, Registrable, Tables

LEMMA FilterEffect ==
  ASSUME BootTypeOK, Filter
  PROVE  BootTypeOK' /\ FilterDone
  <1> DEFINE f == [k \in Keys |-> IF Protected(file[k]) THEN Empty ELSE run.upd[k]]
  <1>0. run \in Runs
    BY DEF BootTypeOK, Runs
  <1>1. f \in [Keys -> Values]
    BY <1>0 DEF Runs, Values
  <1>2. run' = [run EXCEPT !.upd = f, !.pc = IF f = Blank THEN run.next ELSE "reread"]
    BY DEF Filter
  <1>3. \A k \in Keys : f[k] = IF Protected(file[k]) THEN Empty ELSE run.upd[k]
    OBVIOUS
  <1>4. f = Blank => \A k \in Keys : f[k] = Empty
    BY DEF Blank
  <1> HIDE DEF f
  <1>5. /\ run' \in Runs /\ run'.upd = f /\ run'.key = run.key /\ run'.sourced = run.sourced
        /\ run'.env = run.env /\ run'.found = run.found /\ run'.next = run.next
        /\ run'.pc = IF f = Blank THEN run.next ELSE "reread"
        /\ run.next \in {"register", "done"}
    BY <1>0, <1>1, <1>2 DEF Runs, Steps
  <1>6. BootTypeOK'
    BY <1>5, SameTables DEF Filter, BootTypeOK
  <1>7. \/ run'.pc = "reread"
        \/ run'.pc = run.next /\ \A k \in Keys : run'.upd[k] = Empty
    BY <1>4, <1>5
  <1> QED
    BY <1>3, <1>5, <1>6, <1>7 DEF Filter, FilterDone, Tables

LEMMA RereadEffect ==
  ASSUME BootTypeOK, Reread
  PROVE  BootTypeOK' /\ RereadDone
  <1>1. run \in Runs /\ run' = [run EXCEPT !.image = file, !.pc = "open"]
        /\ file \in [Keys -> Values]
    BY DEF BootTypeOK, Runs, Reread
  <1>2. /\ run' \in Runs /\ run'.pc = "open" /\ run'.image = file
        /\ run'.key = run.key /\ run'.sourced = run.sourced /\ run'.upd = run.upd
        /\ run'.env = run.env /\ run'.found = run.found /\ run'.next = run.next
    BY <1>1 DEF Runs, Steps
  <1>3. BootTypeOK'
    BY <1>2, SameTables DEF Reread, BootTypeOK
  <1> QED
    BY <1>2, <1>3 DEF Reread, RereadDone, Tables

LEMMA OpenEffect ==
  ASSUME BootTypeOK, OpenFile
  PROVE  BootTypeOK' /\ OpenDone
  <1>1. run \in Runs /\ Goto("write") /\ "write" \in Steps
    BY DEF BootTypeOK, Runs, OpenFile, Steps
  <1>2. run' \in Runs /\ run'.pc = "write" /\ RunKeeps
    BY <1>1, GotoMoves
  <1>3. file' \in [Keys -> Values]
    BY DEF OpenFile, Blank, Values
  <1>4. BootTypeOK'
    BY <1>2, <1>3 DEF OpenFile, BootTypeOK, Runs
  <1> QED
    BY <1>2, <1>4 DEF OpenFile, OpenDone

LEMMA WriteEffect ==
  ASSUME BootTypeOK, WriteFile
  PROVE  BootTypeOK' /\ WriteDone
  <1>1. run \in Runs /\ Goto(run.next) /\ run.next \in Steps /\ run.next \in {"register", "done"}
    BY DEF BootTypeOK, Runs, WriteFile, Steps
  <1>2. run' \in Runs /\ run'.pc = run.next /\ RunKeeps
    BY <1>1, GotoMoves
  <1>3. /\ file' \in [Keys -> Values]
        /\ \A k \in Keys : file'[k] = IF run.upd[k] # Empty THEN run.upd[k] ELSE run.image[k]
    BY <1>1 DEF WriteFile, Runs
  <1>4. BootTypeOK'
    BY <1>2, <1>3 DEF WriteFile, BootTypeOK, Runs
  <1> QED
    BY <1>1, <1>2, <1>3, <1>4 DEF WriteFile, WriteDone

LEMMA EditEffect ==
  ASSUME BootTypeOK, NEW j \in Keys, NEW v \in Credentials \cup {Stale}, Edit(j, v)
  PROVE  BootTypeOK' /\ EditDone
  <1>1. v \in Values /\ Protected(v)
    BY BootAssumption DEF Values, Protected
  <1>2. /\ file' \in [Keys -> Values] /\ own' \in [Keys -> Values]
        /\ file'[j] = v /\ own'[j] = v
        /\ \A k \in Keys : k # j => file'[k] = file[k] /\ own'[k] = own[k]
    BY <1>1 DEF Edit, BootTypeOK
  <1>3. left' \in [flaws : 0..MaxFlaws, edits : 0..MaxEdits]
    <2>1. left.flaws \in 0..MaxFlaws /\ left.edits \in 0..MaxEdits
      BY DEF BootTypeOK
    <2>2. left.edits - 1 \in 0..MaxEdits
      BY <2>1, BootAssumption DEF Edit
    <2>3. left' = [flaws |-> left.flaws, edits |-> left.edits - 1]
      BY DEF Edit, BootTypeOK
    <2> QED
      BY <2>1, <2>2, <2>3
  <1>4. /\ why' \in SUBSET Causes /\ why \subseteq why'
        /\ run.pc \in {"reread", "open", "write"} => "raced" \in why'
    BY DEF Edit, BootTypeOK, Causes
  <1>5. BootTypeOK'
    BY <1>2, <1>3, <1>4 DEF Edit, BootTypeOK
  <1> QED
    BY <1>1, <1>2, <1>4, <1>5 DEF Edit, EditDone

\* The steps that give up the run, and those that spoil what it was to write.
LEMMA GivesUp ==
  ASSUME BootTypeOK, CreateSystemUntold \/ CreateFails \/ RegisterFails \/ PersistFails \/ Crash
  PROVE  BootTypeOK' /\ (QuietDone \/ SpoiledDone)
  <1>0. /\ run \in Runs /\ Idle \in Runs /\ {"failed", "register", "done"} \subseteq Steps
        /\ system \in {Empty, Fresh}
    BY DEF BootTypeOK, Runs, Idle, Blank, Steps, Values
  <1>1. CASE CreateFails
    <2>1. run' \in Runs /\ run'.pc = "failed" /\ RunKeeps
      BY <1>0, <1>1, GotoMoves DEF CreateFails
    <2>2. CASE Flaw({}) /\ UNCHANGED system
      <3>0. why' = why /\ left' \in [flaws : 0..MaxFlaws, edits : 0..MaxEdits] /\ why' \in SUBSET Causes
        BY <2>2, FlawTyped
      <3>1. why' = why /\ BootTypeOK'
        BY <1>0, <1>1, <2>1, <2>2, <3>0, SameTables DEF CreateFails
      <3> QED
        BY <1>1, <2>1, <2>2, <3>1 DEF CreateFails, QuietDone, Tables, Persisting, At
    <2>3. CASE system = Empty /\ system' = Fresh /\ Flaw({"reply lost"})
      <3>1. why' = why \cup {"reply lost"} /\ BootTypeOK'
        BY <1>1, <2>1, <2>3, FlawTyped, SameTables DEF CreateFails, Causes
      <3>2. ~At("write") /\ "reply lost" \in Causes
        BY <1>1 DEF CreateFails, At, Causes
      <3> QED
        BY <1>1, <2>1, <3>1, <3>2 DEF CreateFails, SpoiledDone
    <2> QED
      BY <1>1, <2>2, <2>3 DEF CreateFails
  <1>2. CASE RegisterFails
    <2>1. run' \in Runs /\ run'.pc = "failed" /\ RunKeeps
      BY <1>0, <1>2, GotoMoves DEF RegisterFails
    <2>2. admin' \in [user : Values, pass : Values]
      BY <1>0, <1>2 DEF RegisterFails, Registered, BootTypeOK, Runs, Keys
    <2>3. why' = why /\ left' \in [flaws : 0..MaxFlaws, edits : 0..MaxEdits]
      BY <1>2, FlawTyped DEF RegisterFails
    <2>4. BootTypeOK'
      BY <1>2, <2>1, <2>2, <2>3 DEF RegisterFails, BootTypeOK, Runs
    <2> QED
      BY <1>2, <2>1, <2>3, <2>4 DEF RegisterFails, QuietDone, Tables, Persisting, At
  <1>3. CASE PersistFails
    <2>1. /\ run' \in Runs /\ run'.pc = run.next /\ run.next \in {"register", "done"}
      BY <1>0, <1>3, GotoMoves DEF PersistFails, Runs
    <2> DEFINE c == IF At("write") THEN "torn" ELSE "unwritable"
    <2>2. c \in Causes /\ (At("write") => c = "torn")
      BY DEF Causes
    <2>3. Flaw({c})
      BY <1>3 DEF PersistFails
    <2> HIDE DEF c
    <2>4. why' = why \cup {c} /\ BootTypeOK'
      BY <1>3, <2>1, <2>2, <2>3, FlawTyped, SameTables DEF PersistFails, BootTypeOK
    <2> QED
      BY <1>3, <2>1, <2>2, <2>4 DEF PersistFails, SpoiledDone
  <1>4. CASE Crash
    <2>1. run' \in Runs /\ run'.pc = "idle"
      BY <1>0, <1>4 DEF Crash, Idle
    <2>2. CASE ~Persisting
      <3>1. Flaw({})
        <4>1. ~At("write")
          BY <2>2 DEF At, Persisting
        <4> QED
          BY <1>4, <2>2, <4>1, Zenon DEF Crash
      <3>2. BootTypeOK' /\ why' = why
        BY <1>0, <1>4, <2>1, <3>1, FlawTyped, SameTables DEF Crash
      <3> QED
        BY <1>4, <2>1, <2>2, <3>2 DEF Crash, QuietDone, Tables
    <2>3. CASE Persisting
      <3> DEFINE c == IF At("write") THEN "torn" ELSE "crash"
      <3>1. c \in Causes /\ (At("write") => c = "torn")
        BY DEF Causes
      <3>2. Flaw({c})
        BY <1>4, <2>3 DEF Crash
      <3> HIDE DEF c
      <3>3. why' = why \cup {c} /\ BootTypeOK'
        BY <1>4, <2>1, <3>1, <3>2, FlawTyped, SameTables DEF Crash, BootTypeOK
      <3> QED
        BY <1>4, <2>1, <3>1, <3>3 DEF Crash, SpoiledDone
    <2> QED
      BY <2>2, <2>3
  <1>5. CASE CreateSystemUntold
    <2>1. run' \in Runs /\ run'.pc = "register"
      BY <1>0, <1>5, GotoMoves DEF CreateSystemUntold
    <2>2. why' = why \cup {"no token"} /\ BootTypeOK'
      BY <1>5, <2>1, FlawTyped, SameTables DEF CreateSystemUntold, Causes
    <2>3. ~At("write") /\ "no token" \in Causes
      BY <1>5 DEF CreateSystemUntold, At, Causes
    <2> QED
      BY <1>5, <2>1, <2>2, <2>3 DEF CreateSystemUntold, SpoiledDone
  <1> QED
    BY <1>1, <1>2, <1>3, <1>4, <1>5

\* SystemExists and NoAdmin leave everything but the step of the run.
LEMMA GoesOn ==
  ASSUME BootTypeOK, SystemExists \/ NoAdmin
  PROVE  BootTypeOK' /\ QuietDone
  <1>0. run \in Runs /\ {"failed", "register", "done"} \subseteq Steps
    BY DEF BootTypeOK, Runs, Steps
  <1>1. CASE SystemExists
    <2>1. run' \in Runs /\ run'.pc = "register" /\ RunKeeps
      BY <1>0, <1>1, GotoMoves DEF SystemExists
    <2>2. BootTypeOK'
      BY <1>1, <2>1, SameTables DEF SystemExists, BootTypeOK
    <2> QED
      BY <1>1, <2>1, <2>2 DEF SystemExists, QuietDone, Tables, Persisting, At
  <1>2. CASE NoAdmin
    <2>1. /\ run' \in Runs /\ RunKeeps
          /\ run'.pc = "failed" \/ (run'.pc = "done" /\ run.env["user"] = Empty)
      BY <1>0, <1>2, GotoMoves DEF NoAdmin
    <2>2. BootTypeOK'
      BY <1>2, <2>1, SameTables DEF NoAdmin, BootTypeOK
    <2> QED
      BY <1>2, <2>1, <2>2 DEF NoAdmin, QuietDone, Tables, Persisting, At
  <1> QED
    BY <1>1, <1>2

\* Every step has one of the effects.
LEMMA BootEffects == BootTypeOK /\ [BootNext]_bootVars => BootTypeOK' /\ BootDone
  <1> SUFFICES ASSUME BootTypeOK, [BootNext]_bootVars PROVE BootTypeOK' /\ BootDone
    OBVIOUS
  <1>1. CASE \E creates \in BOOLEAN : Start(creates)
    BY <1>1, StartEffect DEF BootDone
  <1>2. CASE CreateSystem
    BY <1>2, CreateEffect DEF BootDone
  <1>3. CASE SystemExists \/ NoAdmin
    BY <1>3, GoesOn DEF BootDone
  <1>4. CASE CreateSystemUntold \/ CreateFails \/ RegisterFails \/ PersistFails \/ Crash
    BY <1>4, GivesUp DEF BootDone
  <1>5. CASE RegisterAdmin
    BY <1>5, RegisterEffect DEF BootDone
  <1>6. CASE Filter
    BY <1>6, FilterEffect DEF BootDone
  <1>7. CASE Reread
    BY <1>7, RereadEffect DEF BootDone
  <1>8. CASE OpenFile
    BY <1>8, OpenEffect DEF BootDone
  <1>9. CASE WriteFile
    BY <1>9, WriteEffect DEF BootDone
  <1>10. CASE \E k \in Keys, v \in Credentials \cup {Stale} : Edit(k, v)
    BY <1>10, EditEffect DEF BootDone
  <1>11. CASE UNCHANGED bootVars
    BY <1>11 DEF bootVars, BootTypeOK, BootDone, Tables
  <1> QED
    BY <1>1, <1>2, <1>3, <1>4, <1>5, <1>6, <1>7, <1>8, <1>9, <1>10, <1>11 DEF BootNext

-----------------------------------------------------------------------------
(* The invariant. *)

\* No step takes a value of the operator's from the file.
LEMMA KeepsOperator == OperatorInv /\ BootDone => OperatorInv'
  <1> SUFFICES ASSUME OperatorInv, BootDone, Undisturbed',
                      NEW k \in Keys, Protected(own'[k])
               PROVE  /\ ~At("write")' => file'[k] = own'[k]
                      /\ run'.pc \in {"reread", "open", "write"} => run'.upd[k] = Empty
                      /\ run'.pc \in {"open", "write"} => run'.image[k] = own'[k]
    BY Zenon DEF OperatorInv, Protected
  <1> DEFINE Kept == /\ ~At("write") => file[k] = own[k]
                     /\ run.pc \in {"reread", "open", "write"} => run.upd[k] = Empty
                     /\ run.pc \in {"open", "write"} => run.image[k] = own[k]
  <1>0. why = why' /\ own[k] = own'[k] => Kept /\ Protected(own[k])
    BY DEF OperatorInv, Undisturbed, Protected
  <1>1. CASE StartDone \/ QuietDone \/ CreateSystemDone \/ RegisterAdminDone
    BY <1>0, <1>1
    DEF StartDone, QuietDone, CreateSystemDone, RegisterAdminDone, Tables, Persisting, At
  <1>2. CASE SpoiledDone
    <2>1. PICK c \in Causes : why' = why \cup {c} /\ (At("write") => c = "torn")
      BY <1>2 DEF SpoiledDone
    <2>2. Undisturbed /\ ~At("write")
      BY <2>1 DEF Undisturbed
    <2>3. file[k] = own[k]
      BY <1>2, <2>2 DEF OperatorInv, SpoiledDone, Protected
    <2> QED
      BY <1>2, <2>3 DEF SpoiledDone
  <1>3. CASE FilterDone
    BY <1>0, <1>3 DEF FilterDone, Tables, At
  <1>4. CASE RereadDone
    BY <1>0, <1>4 DEF RereadDone, Tables, At
  <1>5. CASE OpenDone
    BY <1>0, <1>5 DEF OpenDone, RunKeeps, At
  <1>6. CASE WriteDone
    BY <1>0, <1>6 DEF WriteDone, RunKeeps, At
  <1>7. CASE EditDone
    <2>1. Undisturbed /\ run.pc \notin {"reread", "open", "write"} /\ run' = run
      BY <1>7 DEF EditDone, Undisturbed
    <2>2. PICK j \in Keys : /\ Protected(own'[j]) /\ file'[j] = own'[j]
                            /\ \A i \in Keys : i # j => file'[i] = file[i] /\ own'[i] = own[i]
      BY <1>7 DEF EditDone
    <2>3. file'[k] = own'[k]
      BY <2>1, <2>2 DEF OperatorInv, Protected, At
    <2> QED
      BY <2>1, <2>3
  <1>8. CASE Tables /\ UNCHANGED run
    BY <1>0, <1>8 DEF Tables, At
  <1> QED
    BY <1>1, <1>2, <1>3, <1>4, <1>5, <1>6, <1>7, <1>8 DEF BootDone

\* Once the system exists its token stays in the file or on its way there.
LEMMA KeepsToken == BootTypeOK /\ TokenInv /\ BootDone => TokenInv'
  <1> SUFFICES ASSUME BootTypeOK, TokenInv, BootDone, Unhindered' PROVE TokenFacts'
    BY DEF TokenInv
  <1>0. "token" \in Keys \cap Written /\ (system # Empty => system = Fresh)
        /\ Expected("token") = system /\ Protected(Fresh) /\ ~Protected(Empty)
    BY BootAssumption DEF BootTypeOK, Keys, Written, Expected, Protected
  <1>1. why = why' /\ own["token"] = own'["token"] => TokenFacts
    BY DEF TokenInv, Unhindered, Protected
  <1>2. ~SkipPersist /\ why' = {}
    BY DEF Unhindered
  <1>3. CASE StartDone
    BY <1>0, <1>1, <1>3 DEF StartDone, Tables, TokenFacts, Persisting, At, Protected
  <1>4. CASE QuietDone
    BY <1>0, <1>1, <1>4 DEF QuietDone, Tables, RunKeeps, TokenFacts, Persisting, At, Protected
  <1>5. CASE SpoiledDone
    BY <1>2, <1>5 DEF SpoiledDone
  <1>6. CASE CreateSystemDone
    BY <1>0, <1>1, <1>2, <1>6 DEF CreateSystemDone, TokenFacts, Persisting, At, Protected
  <1>7. CASE RegisterAdminDone
    BY <1>0, <1>1, <1>2, <1>7 DEF RegisterAdminDone, Tables, TokenFacts, Persisting, At, Protected
  <1>8. CASE FilterDone
    BY <1>0, <1>1, <1>8 DEF FilterDone, Tables, TokenFacts, Persisting, At, Protected
  <1>9. CASE RereadDone
    BY <1>0, <1>1, <1>9 DEF RereadDone, Tables, TokenFacts, Persisting, At, Protected
  <1>10. CASE OpenDone
    BY <1>0, <1>1, <1>10 DEF OpenDone, RunKeeps, TokenFacts, Persisting, At, Protected
  <1>11. CASE WriteDone
    BY <1>0, <1>1, <1>11 DEF WriteDone, RunKeeps, TokenFacts, Persisting, At, Protected
  <1>12. CASE EditDone
    <2>1. why = {} /\ run.pc \notin {"reread", "open", "write"} /\ run' = run /\ system' = system
      BY <1>2, <1>12 DEF EditDone
    <2>2. file'["token"] = file["token"] /\ own'["token"] = own["token"]
      BY <1>0, <1>12 DEF EditDone, Unhindered
    <2> QED
      BY <1>1, <1>2, <2>1, <2>2 DEF TokenFacts, Persisting, At, Protected
  <1>13. CASE Tables /\ UNCHANGED run
    BY <1>1, <1>13 DEF Tables, TokenFacts, Persisting, At, Protected
  <1> QED
    BY <1>3, <1>4, <1>5, <1>6, <1>7, <1>8, <1>9, <1>10, <1>11, <1>12, <1>13 DEF BootDone

\* What the file has gets there from the operator, an earlier run or this one.
LEMMA KeepsRecord == BootTypeOK /\ RecordInv /\ BootDone => RecordInv'
  <1> SUFFICES ASSUME BootTypeOK, RecordInv, BootDone, ~SkipPersist, why' = {},
                      NEW k \in Written
               PROVE  FillFacts(k)' /\ LastFacts(k)'
    BY DEF RecordInv
  <1>0. /\ k \in Keys /\ (system # Empty => system = Fresh)
        /\ Protected(Fresh) /\ ~Protected(Empty)
    BY BootAssumption DEF BootTypeOK, Keys, Written, Protected
  <1>1. why = why' => FillFacts(k) /\ LastFacts(k)
    BY DEF RecordInv
  <1>2. CASE StartDone
    BY <1>2 DEF StartDone, Tables, FillFacts, LastFacts, Origin, Persisting, At, Protected
  <1>3. CASE QuietDone
    BY <1>1, <1>3
    DEF QuietDone, Tables, RunKeeps, FillFacts, LastFacts, Origin, Expected, Clean, Persisting, At, Protected
  <1>4. CASE SpoiledDone
    BY <1>4 DEF SpoiledDone
  <1>5. CASE CreateSystemDone
    <2>1. run'.upd[k] \in {Empty, Expected(k)'}
      BY <1>0, <1>5 DEF CreateSystemDone, Expected
    <2>2. Protected(file[k]) => Origin(k, file[k]) /\ (k # "token" \/ file[k] # system)
      BY <1>0, <1>1, <1>5 DEF CreateSystemDone, FillFacts, At, Protected
    <2> QED
      BY <1>0, <1>1, <1>5, <2>1, <2>2
      DEF CreateSystemDone, FillFacts, LastFacts, Origin, Expected, Clean, Persisting, At, Protected
  <1>6. CASE RegisterAdminDone
    <2>1. Clean => Protected(Expected(k))
      BY <1>0, <1>6 DEF RegisterAdminDone, Clean, Expected, Written, Protected
    <2> QED
      BY <1>0, <1>1, <1>6, <2>1
      DEF RegisterAdminDone, Tables, FillFacts, LastFacts, Origin, Expected, Clean, Persisting, At, Protected
  <1>7. CASE FilterDone
    BY <1>0, <1>1, <1>7
    DEF FilterDone, Tables, FillFacts, LastFacts, Origin, Expected, Clean, Persisting, At, Protected
  <1>8. CASE RereadDone
    BY <1>0, <1>1, <1>8
    DEF RereadDone, Tables, FillFacts, LastFacts, Origin, Expected, Clean, Persisting, At, Protected
  <1>9. CASE OpenDone
    BY <1>0, <1>1, <1>9
    DEF OpenDone, RunKeeps, FillFacts, LastFacts, Origin, Expected, Clean, Persisting, At, Protected
  <1>10. CASE WriteDone
    BY <1>0, <1>1, <1>10
    DEF WriteDone, RunKeeps, FillFacts, LastFacts, Origin, Expected, Clean, Persisting, At, Protected
  <1>11. CASE EditDone
    <2>1. why = why' /\ run.pc \notin {"reread", "open", "write"} /\ run' = run /\ system' = system
      BY <1>11 DEF EditDone
    <2>2. \/ file'[k] = own'[k] /\ Protected(own'[k])
          \/ file'[k] = file[k] /\ own'[k] = own[k]
      BY <1>0, <1>11 DEF EditDone
    <2> QED
      BY <1>1, <2>1, <2>2
      DEF FillFacts, LastFacts, Origin, Expected, Clean, Persisting, At, Protected
  <1>12. CASE Tables /\ UNCHANGED run
    BY <1>1, <1>12 DEF Tables, FillFacts, LastFacts, Origin, Expected, Clean, Persisting, At, Protected
  <1> QED
    BY <1>2, <1>3, <1>4, <1>5, <1>6, <1>7, <1>8, <1>9, <1>10, <1>11, <1>12 DEF BootDone

\* The inductive invariant holds of every reachable state.
THEOREM BootInvariance == BootSpec => []BootInv
  <1>1. BootInv /\ [BootNext]_bootVars => BootInv'
    BY BootEffects, KeepsOperator, KeepsToken, KeepsRecord DEF BootInv
  <1> QED
    BY BootStart, <1>1, PTL DEF BootSpec

\* What the operator wrote into the env file is there after every run, failed write and
\* restart, unless a write was interrupted or the operator wrote while a run was about to.
THEOREM OperatorsValuesKept == BootSpec => []KeepsOperatorValues
  <1>1. BootInv => KeepsOperatorValues
    BY DEF BootInv, OperatorInv, Undisturbed, KeepsOperatorValues
  <1> QED
    BY BootInvariance, <1>1, PTL

\* The token that createSystem was answered once is in the env file whenever no run is
\* about to write it, whatever becomes of the registration.
THEOREM TokenStays == BootSpec => []TokenIsKept
  <1>1. BootInv => TokenIsKept
    BY DEF BootInv, TokenInv, TokenFacts, Unhindered, TokenIsKept
  <1> QED
    BY BootInvariance, <1>1, PTL

\* A run started from the file goes on with the token an earlier one was given.
THEOREM RestartGoesOn == BootSpec => []RestartContinues
  <1>1. BootInv => RestartContinues
    BY DEF BootInv, TokenInv, TokenFacts, Unhindered, RestartContinues, At
  <1> QED
    BY BootInvariance, <1>1, PTL

\* A run that succeeds with an admin leaves every key of the env file filled, with what
\* the operator has there, what an earlier run left there, or what it used itself.
THEOREM SuccessLeavesRecord == BootSpec => []SuccessIsRecorded
  <1>1. BootInv => SuccessIsRecorded
    BY DEF BootInv, RecordInv, FillFacts, LastFacts, Origin, Expected, Clean, SuccessIsRecorded, At
  <1> QED
    BY BootInvariance, <1>1, PTL
=============================================================================
