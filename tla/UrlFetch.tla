------------------------------ MODULE UrlFetch ------------------------------
(***************************************************************************)
(* upload-from-url between the insertion of its row and the answer: the    *)
(* request and its redirects, each address looked up and dialed, the body  *)
(* read through CappedReader into the object store, and the row published  *)
(* with the number of bytes read or rolled back.                           *)
(***************************************************************************)
EXTENDS Integers, FiniteSets

CONSTANTS
    Hosts,         \* of the URL and of those a server redirects to
    Admitted,      \* hosts validateFetchURL lets through, scheme included
    Literal,       \* hosts that are an address themselves, and which
    Addresses,     \* addresses a name may resolve to, another set each time
    Public,        \* those blockedIP lets through
    Setups,        \* URL_FETCH_MAX_REDIRECTS and URL_FETCH_MAX_BYTES
    DefaultHops,   \* 8
    Lengths        \* of a body

ASSUME FetchAssumption ==
    /\ Admitted \subseteq Hosts /\ Public \subseteq Addresses
    /\ DOMAIN Literal \subseteq Hosts
    /\ \A h \in DOMAIN Literal : Literal[h] \in Addresses /\ (h \in Admitted => Literal[h] \in Public)
    /\ Setups \subseteq [hops : Nat, bytes : Nat \ {0}]
    /\ DefaultHops \in Nat \ {0} /\ Lengths \subseteq Nat

VARIABLES
    setup,    \* the configured limits
    fetch     \* the request

fetchVars == <<setup, fetch>>

MaxRedirects == IF setup.hops = 0 THEN DefaultHops ELSE setup.hops

(* requests: those made, via's length; length: that of the body; n: the      *)
(* bytes CappedReader has counted and the store has taken.  History: why     *)
(* the upload was given up; dialed, the addresses dialed.                    *)
FetchTypeOK ==
    /\ setup \in Setups
    /\ fetch.pc \in {"get", "dial", "answer", "read", "publish", "published", "rolledBack"}
    /\ fetch.host \in Hosts /\ fetch.dialed \subseteq Addresses
    /\ fetch.requests \in 0..MaxRedirects
    /\ fetch.length \in Lengths \cup {0} /\ fetch.n \in 0..setup.bytes
    /\ fetch.why \in {"none", "refused", "redirects", "status", "network", "store", "tooLarge", "lateEnd"}

Fetching(h) ==
    [pc |-> "get", host |-> h, dialed |-> {}, requests |-> 0, length |-> 0, n |-> 0, why |-> "none"]

FetchInit == setup \in Setups /\ \E h \in Hosts : fetch = Fetching(h)

FetchAt(step) == fetch.pc = step /\ UNCHANGED setup

GivesUp(why) == fetch' = [fetch EXCEPT !.pc = "rolledBack", !.why = why]

-----------------------------------------------------------------------------
(* Client.Get, and CheckRedirect, before the request for h is made. *)
Requests(h) ==
    IF h \in Admitted THEN fetch' = [fetch EXCEPT !.pc = "dial", !.host = h] ELSE GivesUp("refused")

Get == FetchAt("get") /\ Requests(fetch.host)

(* Mutant: the first of the addresses is the one that is looked at. *)
Acceptable_Some(found) == found \cap Public # {}

(* allResolvedIPsAllowed. *)
Acceptable(found) == found # {} /\ found \subseteq Public

(* DialContext; it dials the first of the addresses. *)
Dial ==
    /\ FetchAt("dial")
    /\ \E found \in IF fetch.host \in DOMAIN Literal THEN {{Literal[fetch.host]}} ELSE SUBSET Addresses :
          IF ~Acceptable(found) THEN GivesUp("refused")
          ELSE \E first \in found :
                  fetch' = [fetch EXCEPT !.pc = "answer", !.requests = @ + 1,
                                         !.dialed = @ \cup {first}]

(* A request over a connection kept from before. *)
Reuse ==
    /\ FetchAt("dial")
    /\ fetch' = [fetch EXCEPT !.pc = "answer", !.requests = @ + 1]

NetworkFails == (FetchAt("dial") \/ FetchAt("answer")) /\ GivesUp("network")

(* Mutant: > for >=. *)
TooManyRedirects_Late == fetch.requests > MaxRedirects

(* CheckRedirect, whose via are the requests made: a redirect fewer is       *)
(* followed than configured, and 0 configured is the default.               *)
TooManyRedirects == fetch.requests >= MaxRedirects

Redirect ==
    /\ FetchAt("answer")
    /\ \E h \in Hosts : IF TooManyRedirects THEN GivesUp("redirects") ELSE Requests(h)

Answer ==
    /\ FetchAt("answer")
    /\ \/ GivesUp("status")
       \/ \E length \in Lengths : fetch' = [fetch EXCEPT !.pc = "read", !.length = length]

-----------------------------------------------------------------------------
Remaining == fetch.length - fetch.n

(* Mutant: the reader reports its end instead of an error. *)
CapReached_Ends == fetch' = [fetch EXCEPT !.pc = "publish"]

CapReached == GivesUp(IF Remaining > 0 THEN "tooLarge" ELSE "lateEnd")

(* A Read of k bytes that reports the end, or does not yet, also after the   *)
(* last byte; the store takes what was read.                                 *)
ReadSome ==
    /\ FetchAt("read") /\ fetch.n < setup.bytes
    /\ \E k \in 0..Remaining, ends \in BOOLEAN :
          /\ fetch.n + k <= setup.bytes
          /\ ends => k = Remaining
          /\ fetch' = [fetch EXCEPT !.n = @ + k, !.pc = IF ends THEN "publish" ELSE "read"]

(* Mutant: one byte early. *)
ReadCapped_Early == FetchAt("read") /\ fetch.n >= setup.bytes - 1 /\ CapReached

ReadCapped == FetchAt("read") /\ fetch.n >= setup.bytes /\ CapReached

ReadFails == FetchAt("read") /\ (GivesUp("network") \/ GivesUp("store"))

(* UpdateFilePathsAndStatus with cr.N. *)
Publish ==
    /\ FetchAt("publish")
    /\ fetch' = [fetch EXCEPT !.pc = "published"] \/ GivesUp("store")

FetchNext ==
    \/ Get \/ Dial \/ Reuse \/ NetworkFails \/ Redirect \/ Answer
    \/ ReadSome \/ ReadCapped \/ ReadFails \/ Publish

FetchSpec == FetchInit /\ [][FetchNext]_fetchVars

-----------------------------------------------------------------------------
(* The addresses connected to, redirects included, were looked at, whatever  *)
(* a name resolves to the next time.                                         *)
DialedIsPublic == fetch.dialed \subseteq Public

(* A published file is the whole body, which is not above the limit, and     *)
(* its size is that of the body.                                             *)
PublishedIsWhole ==
    fetch.pc = "published" =>
        fetch.n = fetch.length /\ fetch.length <= setup.bytes

(* For its size only a body above the limit is refused, or one that reaches  *)
(* it and whose end is reported by a Read of its own.                        *)
SmallBodiesFit ==
    /\ fetch.why = "tooLarge" => fetch.length > setup.bytes
    /\ fetch.why = "lateEnd" => fetch.length = setup.bytes
=============================================================================
