----------------------------- MODULE Bootstrap -----------------------------
(***************************************************************************)
(* bootstrap:auth (userver_auth.Run): create the system at the auth        *)
(* service, register its first admin, and keep what was learnt in the env  *)
(* file the next start of the container reads.  The process may die        *)
(* between any two steps; the container is started again.  Values of the   *)
(* file are taken as EnvFile reads them.                                   *)
(***************************************************************************)
EXTENDS Naturals, FiniteSets

CONSTANTS
    Empty, Placeholder,  \* values of a key that may be filled
    Stale,               \* a token of the operator's that the auth service does not know
    Fresh,               \* the token the auth service answers, drawn or the custom one
    Credentials,         \* what an operator writes for user and password
    Environments,        \* the environments of runs that are not started from the file
    SkipPersist,         \* FILEMGR_SKIP_PERSIST_BOOTSTRAP_ENV=1
    MaxFlaws, MaxEdits   \* bounds: failures and crashes; edits by the operator

Keys == {"token", "user", "pass", "other"}
Written == {"token", "user", "pass"}
Values == {Empty, Placeholder, Stale, Fresh} \cup Credentials
Blank == [k \in Keys |-> Empty]

ASSUME BootAssumption ==
    /\ MaxFlaws \in Nat /\ MaxEdits \in Nat /\ SkipPersist \in BOOLEAN
    /\ Environments \subseteq [Keys -> Values]
    /\ Placeholder # Empty /\ Stale \notin {Empty, Placeholder}
    /\ Fresh \notin {Empty, Placeholder, Stale} \cup Credentials
    /\ Empty \notin Credentials /\ Placeholder \notin Credentials

VARIABLES
    file,    \* the env file: key to value
    system,  \* external: the system's token at the auth service, Empty before it exists
    admin,   \* external: the registered user and password
    run,     \* the process: step, environment, key, values to write, image it read;
             \* history: found, the file as it was when the run began
    own,     \* history: what the operator wrote last, key by key
    why,     \* history: what came between a value and its place in the file
    left     \* history: failures and edits still to come

bootVars == <<file, system, admin, run, own, why, left>>

Steps == {"idle", "create", "filter", "reread", "open", "write", "register", "done", "failed"}
Causes == {"reply lost", "no token", "crash", "unwritable", "torn", "raced"}

(* isPlaceholderEnvValue and the test for an empty value. *)
Protected(v) == v \notin {Empty, Placeholder}

BootTypeOK ==
    /\ file \in [Keys -> Values]
    /\ system \in {Empty, Fresh}
    /\ admin \in [user : Values, pass : Values]
    /\ run \in [pc : Steps, env : [Keys -> Values], key : Values, upd : [Keys -> Values],
                image : [Keys -> Values], next : {"register", "done"},
                sourced : BOOLEAN, created : BOOLEAN, found : [Keys -> Values]]
    /\ own \in [Keys -> Values]
    /\ why \in SUBSET Causes
    /\ left \in [flaws : 0..MaxFlaws, edits : 0..MaxEdits]

Idle == [pc |-> "idle", env |-> Blank, key |-> Empty, upd |-> Blank, image |-> Blank,
         next |-> "register", sourced |-> FALSE, created |-> FALSE, found |-> Blank]

(* A shell cannot source a placeholder for the user or the password. *)
BootInit ==
    /\ file \in [Keys -> Values \ {Fresh}]
    /\ file["token"] \notin Credentials /\ file["other"] = Stale
    /\ \A k \in {"user", "pass"} : file[k] \notin {Stale, Placeholder}
    /\ system = Empty
    /\ admin = [user |-> Empty, pass |-> Empty]
    /\ run = Idle
    /\ own = file
    /\ why = {}
    /\ left = [flaws |-> MaxFlaws, edits |-> MaxEdits]

At(step) == run.pc = step
Goto(step) == run' = [run EXCEPT !.pc = step]
Persisting == run.pc \in {"filter", "reread", "open", "write"}

(* One of the failures to come happens, with its consequences. *)
Flaw(causes) ==
    /\ left.flaws > 0
    /\ left' = [left EXCEPT !.flaws = @ - 1]
    /\ why' = why \cup causes

-----------------------------------------------------------------------------
(* Run: the environment is the file's, which entrypoint.sh sources, or one   *)
(* of its own; without a creation token the first phase is left out.  The    *)
(* shell is taken to read a value as the file has it: expansion is left out. *)
Start(creates) ==
    /\ run.pc \in {"idle", "done", "failed"}
    /\ \E src \in {file} \cup Environments :
          run' = [Idle EXCEPT !.env = src, !.key = src["token"], !.sourced = (src = file),
                              !.found = file, !.pc = IF creates THEN "create" ELSE "register"]
    /\ UNCHANGED <<file, system, admin, own, why, left>>

(* Hand values to persistBootstrapEnv, which may be told to skip. *)
PersistThen(next, key, upd, created) ==
    run' = [run EXCEPT !.pc = IF SkipPersist THEN next ELSE "filter", !.next = next,
                       !.key = key, !.upd = upd, !.created = created]

(* Mutant: the token is kept for the end of the run. *)
CreateSystem_PersistsLater ==
    /\ At("create") /\ system = Empty
    /\ system' = Fresh
    /\ run' = [run EXCEPT !.pc = "register", !.key = Fresh, !.created = TRUE]
    /\ UNCHANGED <<file, admin, own, why, left>>

(* POST /auth/system answers 201; the token is persisted at once. *)
CreateSystem ==
    /\ At("create") /\ system = Empty
    /\ system' = Fresh
    /\ PersistThen("register", Fresh, [Blank EXCEPT !["token"] = Fresh], TRUE)
    /\ UNCHANGED <<file, admin, own, why, left>>

(* Mutant: a conflict returns no key. *)
SystemExists_Forgets ==
    /\ At("create") /\ system # Empty
    /\ run' = [run EXCEPT !.pc = "register", !.key = Empty]
    /\ UNCHANGED <<file, system, admin, own, why, left>>

(* 409: go on with the key the environment has. *)
SystemExists ==
    /\ At("create") /\ system # Empty
    /\ Goto("register")
    /\ UNCHANGED <<file, system, admin, own, why, left>>

(* No answer, or another status, or one that cannot be decoded. *)
CreateFails ==
    /\ At("create")
    /\ \/ Flaw({}) /\ UNCHANGED system
       \/ system = Empty /\ system' = Fresh /\ Flaw({"reply lost"})
    /\ Goto("failed")
    /\ UNCHANGED <<file, admin, own>>

(* 201 without a token: nothing to persist, on with the environment's key. *)
CreateSystemUntold ==
    /\ At("create") /\ system = Empty
    /\ system' = Fresh
    /\ Flaw({"no token"})
    /\ Goto("register")
    /\ UNCHANGED <<file, admin, own>>

(* A user, a password and a key that the auth service takes. *)
Registrable == run.env["user"] # Empty /\ run.env["pass"] # Empty
                  /\ run.key # Empty /\ run.key = system

(* Nothing to register is a success; half of it, or a refusal, is not. *)
NoAdmin ==
    /\ At("register") /\ ~Registrable
    /\ Goto(IF run.env["user"] = Empty /\ run.env["pass"] = Empty THEN "done" ELSE "failed")
    /\ UNCHANGED <<file, system, admin, own, why, left>>

(* POST /auth/register: a user that exists keeps its password. *)
Registered ==
    admin' = IF admin.user = run.env["user"] THEN admin
             ELSE [user |-> run.env["user"], pass |-> run.env["pass"]]

(* Mutant: a user that exists ends the run. *)
RegisterAdmin_ConflictIsDone ==
    /\ At("register") /\ Registrable
    /\ Registered
    /\ IF admin.user = run.env["user"] THEN Goto("done")
       ELSE PersistThen("done", run.key, [run.env EXCEPT !["token"] = run.key, !["other"] = Empty],
                        run.created)
    /\ UNCHANGED <<file, system, own, why, left>>

(* 201 and 409 alike: persistAfterRegister. *)
RegisterAdmin ==
    /\ At("register") /\ Registrable
    /\ Registered
    /\ PersistThen("done", run.key, [run.env EXCEPT !["token"] = run.key, !["other"] = Empty],
                   run.created)
    /\ UNCHANGED <<file, system, own, why, left>>

RegisterFails ==
    /\ At("register") /\ Registrable
    /\ Flaw({})
    /\ UNCHANGED admin \/ Registered
    /\ Goto("failed")
    /\ UNCHANGED <<file, system, own>>

-----------------------------------------------------------------------------
(* persistBootstrapEnv. *)

(* Mutant: whatever the file has is replaced. *)
Filter_All ==
    /\ At("filter")
    /\ Goto(IF run.upd = Blank THEN run.next ELSE "reread")
    /\ UNCHANGED <<file, system, admin, own, why, left>>

(* filterUpdatesSkipProtectedInFile reads the file a first time. *)
Filter ==
    /\ At("filter")
    /\ LET f == [k \in Keys |-> IF Protected(file[k]) THEN Empty ELSE run.upd[k]] IN
       run' = [run EXCEPT !.upd = f, !.pc = IF f = Blank THEN run.next ELSE "reread"]
    /\ UNCHANGED <<file, system, admin, own, why, left>>

(* upsertEnvFile reads it a second time. *)
Reread ==
    /\ At("reread")
    /\ run' = [run EXCEPT !.image = file, !.pc = "open"]
    /\ UNCHANGED <<file, system, admin, own, why, left>>

(* os.WriteFile truncates the file ... *)
OpenFile ==
    /\ At("open")
    /\ file' = Blank
    /\ Goto("write")
    /\ UNCHANGED <<system, admin, own, why, left>>

(* ... and writes the lines it read, with the new values among them. *)
WriteFile ==
    /\ At("write")
    /\ file' = [k \in Keys |-> IF run.upd[k] # Empty THEN run.upd[k] ELSE run.image[k]]
    /\ Goto(run.next)
    /\ UNCHANGED <<system, admin, own, why, left>>

(* A read, the open or the write fails: a message, and the run goes on. *)
PersistFails ==
    /\ Persisting
    /\ Flaw({IF At("write") THEN "torn" ELSE "unwritable"})
    /\ Goto(run.next)
    /\ UNCHANGED <<file, system, admin, own>>

-----------------------------------------------------------------------------
(* Around the process. *)

Crash ==
    /\ run.pc \notin {"idle", "done", "failed"}
    /\ Flaw(IF At("write") THEN {"torn"} ELSE IF Persisting THEN {"crash"} ELSE {})
    /\ run' = Idle
    /\ UNCHANGED <<file, system, admin, own>>

(* The operator sets a key; too late for a run that has read the file. *)
Edit(k, v) ==
    /\ left.edits > 0
    /\ left' = [left EXCEPT !.edits = @ - 1]
    /\ file' = [file EXCEPT ![k] = v]
    /\ own' = [own EXCEPT ![k] = v]
    /\ why' = IF run.pc \in {"reread", "open", "write"} THEN why \cup {"raced"} ELSE why
    /\ UNCHANGED <<system, admin, run>>

BootNext ==
    \/ \E creates \in BOOLEAN : Start(creates)
    \/ CreateSystem \/ CreateSystemUntold \/ SystemExists \/ CreateFails
    \/ NoAdmin \/ RegisterAdmin \/ RegisterFails
    \/ Filter \/ Reread \/ OpenFile \/ WriteFile \/ PersistFails
    \/ Crash
    \/ \E k \in Keys, v \in Credentials \cup {Stale} : Edit(k, v)

BootSpec == BootInit /\ [][BootNext]_bootVars

-----------------------------------------------------------------------------
(* A value the operator wrote stays, through every run, failure and restart, *)
(* unless a write was interrupted or the operator wrote under its hands.     *)
KeepsOperatorValues ==
    ~At("write") /\ why \cap {"torn", "raced"} = {} =>
        \A k \in Keys : Protected(own[k]) => file[k] = own[k]

(* The token is known nowhere else: once the system exists the file has it,  *)
(* whatever becomes of the rest of the run, unless the operator had one in   *)
(* its place or a failure hit the steps between the answer and the file.     *)
TokenIsKept ==
    /\ system # Empty /\ ~Persisting
    /\ ~SkipPersist /\ why = {} /\ ~Protected(own["token"])
    => file["token"] = system

(* Run.go: "when the system already exists (continues if possible)": a run   *)
(* started from the file registers with the system's token.                  *)
RestartContinues ==
    /\ At("register") /\ run.sourced /\ system # Empty
    /\ ~SkipPersist /\ why = {} /\ ~Protected(own["token"])
    => run.key = system

(* A run that succeeds with an admin leaves every key filled: with what the  *)
(* operator has there, else with what was there before the run, and else     *)
(* with what the run used.  Only a placeholder that a run is given for user  *)
(* or password stays one.                                                    *)
SuccessIsRecorded ==
    /\ At("done") /\ run.env["user"] # Empty
    /\ Placeholder \notin {run.env["user"], run.env["pass"]}
    /\ ~SkipPersist /\ why = {}
    => \A k \in Written :
          /\ Protected(file[k])
          /\ \/ file[k] = own[k]
             \/ file[k] = (IF Protected(run.found[k]) THEN run.found[k]
                           ELSE IF k = "token" THEN system ELSE run.env[k])

-----------------------------------------------------------------------------
(* .env.template: "Existing non-empty values are never overwritten."         *)
NeverOverwritten ==
    run.pc \in {"idle", "done", "failed"} =>
        \A k \in Keys : Protected(own[k]) => file[k] = own[k]
=============================================================================
