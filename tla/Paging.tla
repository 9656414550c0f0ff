------------------------------- MODULE Paging -------------------------------
(***************************************************************************)
(* A client walks through a list (listFiles, listTrash, listMedia,         *)
(* listStorages) by the links of its pages, while rows come and go.  A     *)
(* page is a COUNT and a SELECT, two statements.  Rows are ordered by a    *)
(* stamp, newest first: created_at, which the rows one transaction inserts *)
(* share, or the id of a storage.  Rows of one stamp come in any order,    *)
(* which need not be that of the page before.  Two lists drop errors: that *)
(* of files takes a failed read of the grant for no grant, and that of     *)
(* media leaves out a row whose file it cannot read again.                 *)
(***************************************************************************)
EXTENDS Integers, FiniteSets

CONSTANTS
    Ids, Stamps,
    DefaultLimit, MaxLimit,  \* 100 and 500
    Limits, Offsets,         \* what clients ask for; a word is 0
    MaxShifts                \* bound: rows that come or go during the walk

ASSUME PagingAssumption ==
    /\ IsFiniteSet(Ids) /\ Stamps \subseteq Nat /\ Limits \subseteq Int /\ Offsets \subseteq Int
    /\ {DefaultLimit, MaxLimit, MaxShifts} \subseteq Nat
    /\ 0 < DefaultLimit /\ DefaultLimit <= MaxLimit

VARIABLES
    stamp,   \* the rows the user may see, each with its stamp
    walk,    \* the client and its request
    shifts   \* number of rows that came or went

pagingVars == <<stamp, walk, shifts>>

Present == DOMAIN stamp
Ways == {"next", "previous"}
Listings == {"files", "media", "storages"}

(* got: how often a row was shown.  History: asked and first, the request    *)
(* the walk began with; stayed, the rows there all the time, and due, those  *)
(* it has to show; back and on, rows whose place may have moved to the front *)
(* or the end; stale, a row came after the COUNT; dropped, rows that an      *)
(* error kept from the page that was due to show them.                       *)
PagingTypeOK ==
    /\ Present \subseteq Ids /\ stamp \in [Present -> Stamps]
    /\ walk.pc \in {"count", "select", "done"}
    /\ walk.list \in Listings /\ walk.way \in Ways /\ walk.limit \in Int /\ walk.offset \in Int
    /\ walk.total \in 0..Cardinality(Ids)
    /\ walk.got \in [Ids -> Nat]
    /\ walk.asked \in Limits /\ walk.first \in Offsets
    /\ walk.due \subseteq walk.stayed /\ walk.stayed \subseteq Present
    /\ walk.back \subseteq Ids /\ walk.on \subseteq Ids /\ walk.stale \in BOOLEAN
    /\ walk.dropped \subseteq Ids /\ walk.denied \in BOOLEAN
    /\ shifts \in 0..MaxShifts

Tied(st) == {r \in DOMAIN st : \E q \in DOMAIN st \ {r} : st[q] = st[r]}

(* The rows before r. *)
Before(r) == Cardinality({q \in Present : stamp[q] > stamp[r]})

Walk(list, limit, offset, way) ==
    [pc |-> "count", list |-> list, way |-> way, limit |-> limit, offset |-> offset,
     total |-> 0, denied |-> FALSE, dropped |-> {},
     got |-> [r \in Ids |-> 0], asked |-> limit, first |-> offset,
     stayed |-> Present, due |-> {r \in Present : (Before(r) < offset) = (way = "previous")},
     back |-> Tied(stamp), on |-> Tied(stamp), stale |-> FALSE]

PagingInit ==
    /\ \E rows \in SUBSET Ids : stamp \in [rows -> Stamps]
    /\ \E list \in Listings, l \in Limits, o \in Offsets, way \in Ways :
          walk = Walk(list, l, o, way)
    /\ shifts = 0

-----------------------------------------------------------------------------
(* Mutant: the greatest limit is out of bounds. *)
ListLimit_Strict(l) == IF l <= 0 \/ l >= MaxLimit THEN DefaultLimit ELSE l

(* ListFiles, ListStorageMedia, ListStorages. *)
ListLimit(l) == IF l <= 0 \/ l > MaxLimit THEN DefaultLimit ELSE l

ListOffset(o) == IF o < 0 THEN 0 ELSE o

(* Mutant: the links have a smaller default than the lists. *)
LinkLimit_Smaller(l) == IF l <= 0 THEN DefaultLimit - 1 ELSE l

(* pageLinks; no link is the empty set. *)
LinkLimit(l) == IF l <= 0 THEN DefaultLimit ELSE l

NextLink(total, l, o) == IF o + LinkLimit(l) < total THEN {o + LinkLimit(l)} ELSE {}

PreviousLink(l, o) ==
    IF o > 0 THEN {IF o < LinkLimit(l) THEN 0 ELSE o - LinkLimit(l)} ELSE {}

Link(total, l, o) ==
    IF walk.way = "next" THEN NextLink(total, l, o) ELSE PreviousLink(l, o)

(* The first n rows, of those with equal stamps any. *)
Fronts(n) ==
    {front \in SUBSET Present :
        /\ Cardinality(front) = IF n < Cardinality(Present) THEN n ELSE Cardinality(Present)
        /\ \A r \in front, q \in Present : stamp[q] > stamp[r] => q \in front}

(* With ListFiles' grant before it: "denied" when the grant's SELECT failed,  *)
(* and COUNT and SELECT both say AND false.                                   *)
Count ==
    /\ walk.pc = "count"
    /\ \E denied \in BOOLEAN :
          /\ denied => walk.list = "files"
          /\ walk' = [walk EXCEPT !.pc = "select", !.denied = denied, !.stale = FALSE,
                                  !.total = IF denied THEN 0 ELSE Cardinality(Present)]
    /\ UNCHANGED <<stamp, shifts>>

(* What a denied page keeps from the walk: along previous its rows, and along *)
(* next, where a total of 0 leaves no link, these and all that follow.        *)
Cut(link, skipped, shown) ==
    IF walk.way = "previous" THEN shown \ skipped
    ELSE IF link = {} THEN Present \ skipped ELSE {}

(* The rows, of which ListStorageMedia leaves out the unread, the links, and  *)
(* the client's next request, if there is a link.                             *)
SelectPage ==
    /\ walk.pc = "select"
    /\ LET o == ListOffset(walk.offset)
           link == Link(walk.total, walk.limit, walk.offset)
       IN \E skipped \in Fronts(o), shown \in Fronts(o + ListLimit(walk.limit)) :
          LET page == IF walk.denied THEN {} ELSE shown \ skipped
              cut == IF walk.denied THEN Cut(link, skipped, shown) ELSE {}
          IN \E unread \in SUBSET page :
             /\ skipped \subseteq shown
             /\ unread # {} => walk.list = "media"
             /\ walk' = [walk EXCEPT
                    !.got = [r \in Ids |-> @[r] + IF r \in page \ unread THEN 1 ELSE 0],
                    !.dropped = @ \cup unread \cup cut,
                    !.pc = IF link = {} THEN "done" ELSE "count",
                    !.limit = LinkLimit(@),
                    !.offset = IF link = {} THEN @ ELSE CHOOSE o2 \in link : TRUE]
    /\ UNCHANGED <<stamp, shifts>>

(* A failed statement is a 500, or the 403 of listMedia, without a page: the *)
(* client asks again.                                                        *)
PageFails ==
    /\ walk.pc = "select"
    /\ walk' = [walk EXCEPT !.pc = "count"]
    /\ UNCHANGED <<stamp, shifts>>

-----------------------------------------------------------------------------
(* A file uploaded, derived, made visible, or a storage; its place is any. *)
RowComes(r, s) ==
    LET with == [q \in Present \cup {r} |-> IF q = r THEN s ELSE stamp[q]] IN
    /\ shifts < MaxShifts /\ shifts' = shifts + 1
    /\ walk.pc # "done" /\ r \notin Present
    /\ stamp' = with
    /\ walk' = [walk EXCEPT !.on = @ \cup {q \in Present : stamp[q] <= s},
                            !.back = @ \cup Tied(with), !.stale = (walk.pc = "select") \/ @]

(* A file trashed or hidden, or a storage deleted. *)
RowGoes(r) ==
    /\ shifts < MaxShifts /\ shifts' = shifts + 1
    /\ walk.pc # "done" /\ r \in Present
    /\ stamp' = [q \in Present \ {r} |-> stamp[q]]
    /\ walk' = [walk EXCEPT !.back = @ \cup {q \in Present : stamp[q] <= stamp[r]},
                            !.stayed = @ \ {r}, !.due = @ \ {r}]

PagingNext ==
    \/ Count \/ SelectPage \/ PageFails
    \/ \E r \in Ids : RowGoes(r) \/ \E s \in Stamps : RowComes(r, s)

PagingSpec == PagingInit /\ [][PagingNext]_pagingVars

-----------------------------------------------------------------------------
(* A walk along next shows every row that was there all the time, from its   *)
(* offset on, and one along previous every row before its offset.  A row is  *)
(* missed only if rows moved it over the edge of two pages, or, along next,  *)
(* a row came between the last COUNT and its SELECT; if an error that        *)
(* ListFiles or ListStorageMedia drops kept it from its page, of which the   *)
(* answer, 200, says nothing; or if the limit is above the greatest, which   *)
(* the lists lower and the links do not.                                     *)
WalkMissesNothing ==
    walk.pc = "done" /\ walk.asked <= MaxLimit =>
        \A r \in walk.due \ walk.dropped :
            walk.got[r] = 0 =>
                IF walk.way = "next" THEN r \in walk.back \/ walk.stale ELSE r \in walk.on

(* A walk shows a row twice only if rows moved it, or the walk began at a    *)
(* negative offset, which the lists raise to 0 and the links do not, or      *)
(* along previous at one that is no multiple of its limit.                   *)
WalkRepeatsNothing ==
    \A r \in walk.stayed :
        walk.got[r] > 1 =>
            \/ r \in (IF walk.way = "next" THEN walk.on ELSE walk.back)
            \/ walk.way = "next" /\ walk.first < 0
            \/ walk.way = "previous" /\ walk.first % LinkLimit(walk.asked) # 0
=============================================================================
