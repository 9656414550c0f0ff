----------------------------- MODULE MCRequests -----------------------------
(***************************************************************************)
(* Instances for TLC of what a request meets beside the files themselves:  *)
(* the rate limiter, who may see what, pages, settings, the fetch of a     *)
(* URL, and the resized copies of an image.  They share no variable, so    *)
(* each is explored on its own: a behaviour is one of the part that Init   *)
(* chooses, and the other parts stay in one of their initial states.       *)
(***************************************************************************)
EXTENDS MCFileAccess, Settings, Paging, RateLimiter, UrlFetch, ImageResizer, TLC

CONSTANTS a, b, c, x, name, private, public, global, inside

VARIABLE part

MCOffsets == {-1, 0, 3}

(* A bucket of two and of one request, and a limiter switched off. *)
MCConfigs ==
    [enabled : {TRUE}, rate : {1}, burst : {2, 1}] \cup [enabled : {FALSE}, rate : {0, 1}, burst : {1}]

MCLiteral == (public :> global) @@ (private :> inside)
MCSetups == {[hops |-> 0, bytes |-> 2], [hops |-> 1, bytes |-> 3]}

MCEntries == {<<0, 5>>, <<1, 1>>, <<1920, 1080>>, <<1280, 864>>, <<600, 1200>>, <<3, 2>>}

AccessParked ==
    /\ row = [f \in Files |-> [state |-> "live", vis |-> "PUBLIC", owner |-> NoOne]]
    /\ readers = {} /\ kind = "LOCAL" /\ changes = 0
    /\ blob = [f \in Files |-> [upload |-> "done", store |-> "LOCAL", object |-> "whole"]]
    /\ dls = [i \in Downloads |-> NoRecord]
    /\ areq = [r \in Reqs |-> Idle]

SettingsParked ==
    /\ tab = "file" /\ uploading = TRUE
    /\ rec = [state |-> "live", id |-> 1, cols |-> [col \in Columns |-> Initial]]
    /\ preq = [r \in Patches |-> Request("idle", 1, <<>>, rec.cols)]
    /\ want = rec.cols /\ lost = {}

PagingParked == stamp = <<>> /\ walk = Walk("files", 0, 0, "next") /\ shifts = 0

RateParked ==
    /\ config = [enabled |-> FALSE, rate |-> 0, burst |-> 1]
    /\ entries = <<>> /\ verdict = Told(TRUE, TRUE, FALSE)
    /\ ideal = [i \in Clients |-> Full] /\ evicted = {}

FetchParked ==
    /\ setup = [hops |-> 0, bytes |-> 2]
    /\ fetch = Fetching(name)

ResizerParked == image = <<1, 1>> /\ boxes = <<>> /\ copies = <<>>

(* What the parked parts hold are values the parts may have. *)
ASSUME ParkedAssumption ==
    /\ 0 \in Limits \cap Offsets
    /\ [enabled |-> FALSE, rate |-> 0, burst |-> 1] \in Configs
    /\ [hops |-> 0, bytes |-> 2] \in Setups /\ name \in Hosts
    /\ 1 \in Sides

RequestsInit ==
    /\ part \in {"access", "settings", "paging", "rate", "fetch", "resizer"}
    /\ IF part = "access" THEN MCAccessInit ELSE AccessParked
    /\ IF part = "settings" THEN SettingsInit ELSE SettingsParked
    /\ IF part = "paging" THEN PagingInit ELSE PagingParked
    /\ IF part = "rate" THEN RateInit ELSE RateParked
    /\ IF part = "fetch" THEN FetchInit ELSE FetchParked
    /\ IF part = "resizer" THEN ResizerInit ELSE ResizerParked

RequestsNext ==
    /\ UNCHANGED part
    /\ \/ /\ part = "access" /\ AccessNext
          /\ UNCHANGED <<settingsVars, pagingVars, rateVars, fetchVars, resizerVars>>
       \/ /\ part = "settings" /\ SettingsNext
          /\ UNCHANGED <<accessVars, pagingVars, rateVars, fetchVars, resizerVars>>
       \/ /\ part = "paging" /\ PagingNext
          /\ UNCHANGED <<accessVars, settingsVars, rateVars, fetchVars, resizerVars>>
       \/ /\ part = "rate" /\ RateNext
          /\ UNCHANGED <<accessVars, settingsVars, pagingVars, fetchVars, resizerVars>>
       \/ /\ part = "fetch" /\ FetchNext
          /\ UNCHANGED <<accessVars, settingsVars, pagingVars, rateVars, resizerVars>>
       \/ /\ part = "resizer" /\ Resize
          /\ UNCHANGED <<accessVars, settingsVars, pagingVars, rateVars, fetchVars>>

requestsVars ==
    <<part, accessVars, settingsVars, pagingVars, rateVars, fetchVars, resizerVars>>

RequestsSpec == RequestsInit /\ [][RequestsNext]_requestsVars

(* The types of every part. *)
RequestsTypeOK ==
    /\ AccessTypeOK /\ SettingsTypeOK /\ PagingTypeOK
    /\ RateTypeOK /\ FetchTypeOK /\ ResizerTypeOK
=============================================================================
