-------------------------- MODULE MCRequestsProofs --------------------------
(***************************************************************************)
(* The parts that MCRequests puts into one behaviour are each a behaviour  *)
(* of their own specification, so that what AccessProofs and RequestsProofs *)
(* prove of a part holds of the whole.                                     *)
(***************************************************************************)
EXTENDS MCRequests, AccessProofs, RequestsProofs

\* A part starts in one of its initial states, parked or not.
LEMMA PartsStart ==
  ASSUME RequestsInit
  PROVE  AccessInit /\ SettingsInit /\ PagingInit /\ RateInit /\ FetchInit /\ ResizerInit
  <1>1. AccessParked => AccessInit
    <2> SUFFICES ASSUME AccessParked PROVE AccessInit
      OBVIOUS
    <2> DEFINE ups == [f \in Files |-> "done"]
    <2>1. /\ ups \in [Files -> Uploads \ {"over"}] /\ \A f \in Settled : ups[f] = "done"
          /\ blob = [f \in Files |->
                       [upload |-> ups[f], store |-> kind,
                        object |-> IF ups[f] = "done" THEN "whole" ELSE "none"]]
      BY AccessAssumption DEF AccessAssumption, AccessParked, Uploads
    <2>2. changes \in 0..MaxChanges
      BY AccessAssumption DEF AccessAssumption, AccessParked
    <2> QED
      BY <2>1, <2>2, AccessAssumption
      DEF AccessAssumption, AccessParked, AccessInit, Visibilities, Kinds
  <1>7. MCAccessInit => AccessInit
    BY DEF MCAccessInit
  <1>2. SettingsParked => SettingsInit
    <2> SUFFICES ASSUME SettingsParked PROVE SettingsInit
      OBVIOUS
    <2>1. [col \in Columns |-> Initial] = [c1 \in Columns |-> IF c1 = "media" THEN Initial ELSE Initial]
      OBVIOUS
    <2> QED
      BY <2>1 DEF SettingsParked, SettingsInit, Tables
  <1>3. PagingParked => PagingInit
    <2> SUFFICES ASSUME PagingParked PROVE PagingInit
      OBVIOUS
    <2>1. {} \in SUBSET Ids /\ stamp \in [{} -> Stamps]
      BY DEF PagingParked
    <2>2. "files" \in Listings /\ 0 \in Limits /\ 0 \in Offsets /\ "next" \in Ways
      BY ParkedAssumption DEF ParkedAssumption, Listings, Ways
    <2> QED
      BY <2>1, <2>2 DEF PagingParked, PagingInit
  <1>4. RateParked => RateInit
    BY ParkedAssumption DEF ParkedAssumption, RateParked, RateInit
  <1>5. FetchParked => FetchInit
    BY ParkedAssumption DEF ParkedAssumption, FetchParked, FetchInit
  <1>6. ResizerParked => ResizerInit
    <2> SUFFICES ASSUME ResizerParked PROVE ResizerInit
      OBVIOUS
    <2>1. 0 \in 0..MaxEntries /\ boxes \in [1..0 -> {e \in Entries : IsBox(e)}]
      BY ResizerAssumption DEF ResizerAssumption, ResizerParked
    <2>2. image \in Sides \X Sides
      BY ParkedAssumption DEF ParkedAssumption, ResizerParked
    <2> QED
      BY <2>1, <2>2 DEF ResizerParked, ResizerInit
  <1> QED
    BY <1>1, <1>2, <1>3, <1>4, <1>5, <1>6, <1>7 DEF RequestsInit

\* A step is one of its part, and none of the others.
LEMMA PartsStep ==
  ASSUME [RequestsNext]_requestsVars
  PROVE  /\ [AccessNext]_accessVars /\ [SettingsNext]_settingsVars /\ [PagingNext]_pagingVars
         /\ [RateNext]_rateVars /\ [FetchNext]_fetchVars /\ [Resize]_resizerVars
  BY DEF RequestsNext, requestsVars

(* The composition adds nothing to its parts: whoever sees only the          *)
(* variables of one sees a behaviour of its specification.                   *)
THEOREM PartsAreTheirOwn ==
  RequestsSpec => /\ AccessSpec /\ SettingsSpec /\ PagingSpec
                  /\ RateSpec /\ FetchSpec /\ ResizerSpec
  BY PartsStart, PartsStep, PTL
     DEF RequestsSpec, AccessSpec, SettingsSpec, PagingSpec, RateSpec, FetchSpec, ResizerSpec

(* The types of every part, at any time of the whole. *)
THEOREM RequestsTypes == RequestsSpec => []RequestsTypeOK
  <1>1. AccessTypeOK /\ SettingsTypeOK /\ PagingTypeOK /\ RateTypeOK /\ FetchTypeOK /\ ResizerTypeOK
        => RequestsTypeOK
    BY DEF RequestsTypeOK
  <1> QED
    BY <1>1, PartsAreTheirOwn, AccessTypes, SettingsTypes, PagingTypes, RateTypes, FetchTypes,
       ResizerTypes, PTL
=============================================================================
