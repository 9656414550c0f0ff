----------------------------- MODULE MCFileMgr -----------------------------
(* Instances of FileMgr for TLC. *)
EXTENDS FileMgrInv, TLC

CONSTANTS u1, u2, t1, t2   \* two uploads, two derived files

(* u1 is an image, u2 a document; t1 and t2 are thumbnails of u1, themselves *)
(* images no further thumbnail is derived from.                              *)
MCKind == [f \in Files |-> IF f = u2 THEN "DOCUMENT" ELSE "IMAGE"]

(* The same in a database without the image/jpeg mime type: the thumbnails   *)
(* are of no media category.                                                 *)
MCKindPlain ==
    [f \in Files |-> CASE f = u1 -> "IMAGE" [] f = u2 -> "VIDEO" [] OTHER -> "NONE"]

MCDerive == [f \in Files |-> IF f = u1 THEN DerivedIds ELSE {}]

Symmetric == Permutations(Reqs) \cup Permutations(Workers)
=============================================================================
