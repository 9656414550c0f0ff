------------------------------ MODULE FileLife ------------------------------
(***************************************************************************)
(* What the service promises about one file of a storage, seen from        *)
(* outside: it is uploaded, becomes live, goes to the trash and is purged, *)
(* and it never takes a step back.  A live file leaves only through the    *)
(* trash or with its whole storage; the files derived from an image appear *)
(* live, all at once.                                                      *)
(***************************************************************************)
CONSTANT Ids

VARIABLES
    life,   \* the state of each file
    open    \* the storage exists

LifeVars == <<life, open>>

Stages == {"new", "uploading", "live", "trash", "gone"}

LifeInit == life = [f \in Ids |-> "new"] /\ open = TRUE

Move(f, from, to) ==
    life[f] = from /\ life' = [life EXCEPT ![f] = to] /\ UNCHANGED open

Create(f)  == open /\ Move(f, "new", "uploading")
Publish(f) == Move(f, "uploading", "live")
Trash(f)   == Move(f, "uploading", "trash") \/ Move(f, "live", "trash")
Discard(f) == Move(f, "uploading", "gone")
Purge(f)   == Move(f, "trash", "gone")

Appear(S) ==
    /\ open
    /\ \A f \in S : life[f] = "new"
    /\ life' = [f \in Ids |-> IF f \in S THEN "live" ELSE life[f]]
    /\ UNCHANGED open

Drop ==
    /\ open
    /\ open' = FALSE
    /\ life' = [f \in Ids |-> IF life[f] = "new" THEN "new" ELSE "gone"]

LifeNext ==
    \/ \E f \in Ids : Create(f) \/ Publish(f) \/ Trash(f) \/ Discard(f) \/ Purge(f)
    \/ \E S \in SUBSET Ids : Appear(S)
    \/ Drop

LifeSpec == LifeInit /\ [][LifeNext]_LifeVars
=============================================================================
