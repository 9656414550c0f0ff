---------------------------- MODULE MCFileAccess ----------------------------
(* Users of FileAccess for TLC: an admin, and users of two systems. *)
EXTENDS FileAccess

CONSTANTS root, ann, bob, main, other

MCSystemOf == [u \in Users |-> IF u = bob THEN other ELSE main]

(* Bounds: two changes around a stored file of ann's in a LOCAL storage; and *)
(* one in a storage that is of AMAZON_S3 to begin with, around a file that   *)
(* nobody owns, and beside an upload that is not answered, or left no path,  *)
(* of a file of ann's that she may read.                                     *)
MCAccessInit ==
    LET bare == {f \in Files : blob[f].upload # "done"} IN
    /\ AccessInit
    /\ \A f \in bare : row[f].owner = ann /\ row[f].vis = "USER" /\ readers = {ann}
    /\ changes = MaxChanges -
          (IF bare = {} /\ kind = "LOCAL" /\ \A f \in Files \ Settled : row[f].owner = ann
           THEN 2 ELSE 1)

MCAccessSpec == MCAccessInit /\ [][AccessNext]_accessVars
=============================================================================
