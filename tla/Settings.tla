------------------------------ MODULE Settings ------------------------------
(***************************************************************************)
(* The handlers that change some columns of a row: patchFile,              *)
(* writeStorage (PUT and PATCH) and patchStorageUser.  Each reads the row, *)
(* puts the columns of its body over what it read, and writes all columns  *)
(* back, with no transaction and no version: two requests overlap freely.  *)
(* Init chooses which of the three tables the behaviour is about.          *)
(***************************************************************************)
EXTENDS Naturals, FiniteSets

CONSTANTS
    Patches,      \* bound: the requests that patch a row, each made once
    Values,       \* values of columns
    Initial,      \* the value columns have at the start
    Unset,        \* SQL NULL, or null in a body
    MaxRows       \* bound: rows of core_storageuser for one user, one after another

ASSUME SettingsAssumption == Initial \in Values /\ Unset \notin Values /\ MaxRows \in Nat \ {0}

VARIABLES
    tab,        \* the table
    rec,        \* its row: state, id, columns
    uploading,  \* the file's upload has not published it yet
    preq,       \* each request
    want,       \* history: per column, what the last request naming it wrote
    lost        \* history: columns a later write put back as it had read them

settingsVars == <<tab, rec, uploading, preq, want, lost>>

Tables == {"file", "storage", "grant"}

(* Of columns that are treated alike one stands for the others: name for     *)
(* visibility and custom_metadata, type for credentials.                     *)
ColumnsOf(t) ==
    CASE t = "file" -> {"name", "virtual_path"}
      [] t = "storage" -> {"type", "media"}
      [] t = "grant" -> {"may_read", "may_write"}
Columns == ColumnsOf(tab)

SettingsSteps == {"idle", "check", "load", "write", "reload", "done"}
Outcomes == {"none", "row", "null", "refused"}

SettingsTypeOK ==
    /\ tab \in Tables /\ uploading \in BOOLEAN
    /\ rec \in [state : {"live", "trash", "gone"}, id : 1..MaxRows,
                cols : [Columns -> Values \cup {Unset}]]
    /\ \A r \in Patches :
          /\ preq[r].pc \in SettingsSteps /\ preq[r].id \in 1..MaxRows
          /\ preq[r].body \in UNION {[names -> Values \cup {Unset}] : names \in SUBSET Columns}
          /\ preq[r].copy \in [Columns -> Values \cup {Unset}]
          /\ preq[r].out \in Outcomes
          /\ preq[r].missed \subseteq Columns /\ preq[r].over \subseteq Columns
    /\ want \in [Columns -> Values \cup {Unset}] /\ lost \subseteq Columns

(* body: the columns it names; copy: the row as read; applied, missed, over: *)
(* history, its write took effect, and columns others named since its read   *)
(* or wrote since its write.                                                 *)
Request(step, id, body, copy) ==
    [pc |-> step, id |-> id, body |-> body, copy |-> copy, out |-> "none",
     applied |-> FALSE, missed |-> {}, over |-> {}]

SettingsInit ==
    /\ tab \in Tables
    /\ \E media \in {Initial, Unset} :
          rec = [state |-> "live", id |-> 1,
                 cols |-> [c \in Columns |-> IF c = "media" THEN media ELSE Initial]]
    /\ uploading = (tab = "file")
    /\ preq = [r \in Patches |-> Request("idle", 1, <<>>, rec.cols)]
    /\ want = rec.cols
    /\ lost = {}

Is(r, step) == preq[r].pc = step
Named(r) == {c \in DOMAIN preq[r].body : preq[r].body[c] # Unset}
Step(r, step) == [preq EXCEPT ![r].pc = step]
Out(r, outcome) ==
    [preq EXCEPT ![r].pc = "done", ![r].out = outcome, ![r].missed = {}]

(* The row the request's statements select. *)
Selected(r) == rec.state = "live" /\ rec.id = preq[r].id

(* A SELECT of r, after which the requests are q. *)
Selects(q) ==
    /\ preq' = q
    /\ UNCHANGED <<tab, rec, uploading, want, lost>>

-----------------------------------------------------------------------------
(* A body names any columns, of a storage perhaps its media configuration    *)
(* with null; the id of a grant may be that of a row deleted since.          *)
AskPatch(r, names, v, nulls, id) ==
    /\ Is(r, "idle")
    /\ id <= rec.id
    /\ nulls \subseteq names \cap {"media"}
    /\ Selects([preq EXCEPT ![r] =
           Request(IF tab = "file" THEN "check" ELSE "load", id,
                   [c \in names |-> IF c \in nulls THEN Unset ELSE v], rec.cols)])

(* patchFile: GetFile, the file being visible to its owner or an admin. *)
Check(r) ==
    /\ Is(r, "check")
    /\ \/ Selected(r) /\ Selects(Step(r, "load"))
       \/ Selects(Out(r, "refused"))

(* Mutant: patchFile hands over the row GetFile answered. *)
LoadRow_Checked(r) ==
    /\ Is(r, "load")
    /\ \/ Selected(r) /\ Selects([Step(r, "write") EXCEPT ![r].missed = {}])
       \/ Selects(Out(r, "refused"))

(* loadFileRow, GetStorage or GetStorageUser. *)
LoadRow(r) ==
    /\ Is(r, "load")
    /\ \/ Selected(r) /\ Selects([Step(r, "write") EXCEPT ![r].copy = rec.cols])
       \/ Selects(Out(r, "refused"))

(* The row r read, with the columns of its body over it. *)
Merged(r) ==
    [c \in Columns |-> IF c \in DOMAIN preq[r].body THEN preq[r].body[c] ELSE preq[r].copy[c]]

(* What the UPDATE leaves alone: COALESCE($4, media_convert_configuration). *)
Kept(r) == {c \in Columns : c = "media" /\ Merged(r)[c] = Unset}

(* Mutant: the UPDATE of a file does not ask for excluded = false. *)
Hits_Trash(r) == rec.state # "gone" /\ rec.id = preq[r].id

Hits(r) == Selected(r)

Updated(r) == [c \in Columns |-> IF c \in Kept(r) THEN rec.cols[c] ELSE Merged(r)[c]]

(* The UPDATE takes effect, and r goes on as q says. *)
Writes(r, q) ==
    /\ rec' = [rec EXCEPT !.cols = Updated(r)]
    /\ want' = [c \in Columns |-> IF c \in Named(r) THEN preq[r].body[c] ELSE want[c]]
    /\ lost' = (lost \ Named(r)) \cup (preq[r].missed \ (Named(r) \cup Kept(r)))
    /\ preq' = [o \in Patches |->
                  IF o = r THEN [q[r] EXCEPT !.applied = TRUE]
                  ELSE IF Is(o, "write") THEN [q[o] EXCEPT !.missed = @ \cup Named(r)]
                  ELSE IF Is(o, "reload")
                       THEN [q[o] EXCEPT !.over = @ \cup {c \in Columns : Updated(r)[c] # rec.cols[c]}]
                  ELSE q[o]]

(* Mutant: the error of the UPDATE is dropped. *)
WriteRow_Unchecked(r) ==
    /\ Is(r, "write")
    /\ \/ Hits(r) /\ Writes(r, Step(r, "reload"))
       \/ preq' = Step(r, "reload") /\ UNCHANGED <<rec, want, lost>>
    /\ UNCHANGED <<tab, uploading>>

(* UpdateFileMeta, UpdateStorage, UpdateStorageUser: no row is no error. *)
WriteRow(r) ==
    /\ Is(r, "write")
    /\ \/ Hits(r) /\ (Writes(r, Step(r, "reload")) \/ Writes(r, Out(r, "refused")))
       \/ ~Hits(r) /\ preq' = Step(r, "reload") /\ UNCHANGED <<rec, want, lost>>
       \/ preq' = Out(r, "refused") /\ UNCHANGED <<rec, want, lost>>
    /\ UNCHANGED <<tab, uploading>>

(* The row is read again: patchFile drops the error and answers null. *)
ReloadRow(r) ==
    /\ Is(r, "reload")
    /\ \/ Selected(r) /\ Selects([Out(r, "row") EXCEPT ![r].copy = rec.cols])
       \/ Selects(Out(r, IF tab = "file" THEN "null" ELSE "refused"))

-----------------------------------------------------------------------------
(* What else happens to the row. *)

(* UpdateFilePathsAndStatus of the upload writes the path it began with. *)
PublishRow ==
    /\ uploading /\ rec.state # "gone"
    /\ uploading' = FALSE
    /\ rec' = [rec EXCEPT !.cols["virtual_path"] = Initial]
    /\ lost' = IF rec.cols["virtual_path"] = Initial THEN lost ELSE lost \cup {"virtual_path"}
    /\ preq' = [r \in Patches |->
                  IF Is(r, "reload") THEN [preq[r] EXCEPT !.over = @ \cup {"virtual_path"}]
                  ELSE preq[r]]
    /\ UNCHANGED <<tab, want>>

(* SetFileExcluded; PermaDeleteFile, or the rollback of the file's upload;   *)
(* DeleteStorage, which takes files and grants with it; DeleteStorageUser.   *)
RemoveRow ==
    /\ \/ rec.state = "live" /\ tab = "file" /\ rec' = [rec EXCEPT !.state = "trash"]
       \/ rec.state # "gone" /\ rec' = [rec EXCEPT !.state = "gone"]
    /\ UNCHANGED <<tab, uploading, preq, want, lost>>

(* createStorageUser: the pair is UNIQUE, the id a new one. *)
InsertGrant(v) ==
    /\ tab = "grant" /\ rec.state = "gone" /\ rec.id < MaxRows
    /\ rec' = [state |-> "live", id |-> rec.id + 1, cols |-> [c \in Columns |-> v]]
    /\ want' = rec'.cols
    /\ lost' = {}
    /\ UNCHANGED <<tab, uploading, preq>>

PatchStep(r) == Check(r) \/ LoadRow(r) \/ WriteRow(r) \/ ReloadRow(r)

SettingsNext ==
    \/ \E r \in Patches :
          \/ PatchStep(r)
          \/ \E names \in SUBSET Columns, nulls \in SUBSET {"media"}, v \in Values, id \in 1..MaxRows :
                AskPatch(r, names, v, nulls, id)
    \/ PublishRow \/ RemoveRow
    \/ \E v \in Values : InsertGrant(v)

SettingsSpec == SettingsInit /\ [][SettingsNext]_settingsVars

-----------------------------------------------------------------------------
(* The last request that names a column decides it.  What can undo it is     *)
(* only a request that had read the row before it was written and writes     *)
(* after it, or the upload that publishes its path: requests one after       *)
(* another lose nothing, nor does a column the UPDATE coalesces.             *)
LastPatchWins ==
    rec.state = "live" => \A c \in Columns : rec.cols[c] = want[c] \/ c \in lost

(* A patch answered with a row has been applied, and the answer shows what   *)
(* it named, or what somebody wrote over that before it was read again; a    *)
(* media configuration named null is answered like the others and changes    *)
(* nothing.                                                                  *)
AnsweredIsApplied ==
    \A r \in Patches :
        Is(r, "done") /\ preq[r].out = "row" =>
            /\ preq[r].applied
            /\ \A c \in Named(r) : preq[r].copy[c] = preq[r].body[c] \/ c \in preq[r].over

(* A patch that was under way when its file was trashed, or its grant        *)
(* deleted and made anew, changes nothing any more: only the publishing      *)
(* upload still writes to a trashed row, and a new grant is as it was made.  *)
RemovedRowsStay ==
    [][/\ rec.state # "live" /\ rec'.state = rec.state /\ ~(uploading /\ ~uploading')
            => rec'.cols = rec.cols
       /\ rec'.cols # rec.cols /\ rec.state = "live"
            => \/ uploading /\ ~uploading'
               \/ \E r \in Patches : Is(r, "write") /\ preq[r].id = rec.id]_settingsVars
=============================================================================
