--------------------------- MODULE RequestsProofs ---------------------------
(***************************************************************************)
(* Safety of what a request meets beside the files: the fetch of a URL,    *)
(* for any hosts, addresses, limits and bodies; the rate limiter, for any  *)
(* clients, configurations and sizes of its table; patches, for any number *)
(* of requests; and the resized copies of any image.                       *)
(***************************************************************************)
EXTENDS UrlFetch, RateLimiter, Settings, ImageResizer, FiniteSetTheorems, TLAPS

-----------------------------------------------------------------------------
(* UrlFetch. *)

FetchSteps == {"get", "dial", "answer", "read", "publish", "published", "rolledBack"}
Reasons == {"none", "refused", "redirects", "status", "network", "store", "tooLarge", "lateEnd"}
Fetches ==
    [pc : FetchSteps, host : Hosts, dialed : SUBSET Public, requests : Nat, length : Nat, n : Nat,
     why : Reasons]

(* Sizes: what is read is part of the body, and all of it once the reader    *)
(* has reported its end.                                                     *)
FetchSizes ==
    /\ fetch.length \in Lengths \cup {0}
    /\ fetch.n <= setup.bytes /\ fetch.n <= fetch.length
    /\ fetch.pc \in {"get", "dial", "answer"} => fetch.n = 0
    /\ fetch.pc \in {"publish", "published"} => fetch.n = fetch.length

(* A request is made only where one is left; nothing is refused before the   *)
(* upload is given up.                                                       *)
FetchInv ==
    /\ setup \in Setups /\ fetch \in Fetches
    /\ fetch.requests <= MaxRedirects
    /\ fetch.pc \in {"get", "dial"} => fetch.requests < MaxRedirects
    /\ FetchSizes
    /\ fetch.pc # "rolledBack" => fetch.why = "none"
    /\ SmallBodiesFit

\* The numbers of a setup.
LEMMA Numbers ==
  ASSUME setup \in Setups
  PROVE  /\ MaxRedirects \in Nat /\ MaxRedirects >= 1
         /\ setup.bytes \in Nat
  <1>1. setup.hops \in Nat /\ setup.bytes \in Nat /\ DefaultHops \in Nat /\ DefaultHops >= 1
    BY FetchAssumption DEF FetchAssumption
  <1> QED
    BY <1>1 DEF MaxRedirects

\* Nothing is refused for its size before there is a reason to.
LEMMA NoReason ==
  ASSUME fetch.why = "none"
  PROVE  SmallBodiesFit
  BY DEF SmallBodiesFit

\* Before the first request nothing has been dialed or read.
LEMMA FetchStart == FetchInit => FetchInv
  <1> SUFFICES ASSUME FetchInit PROVE FetchInv
    OBVIOUS
  <1>1. PICK h \in Hosts : fetch = Fetching(h)
    BY DEF FetchInit
  <1>2. setup \in Setups /\ MaxRedirects \in Nat /\ MaxRedirects >= 1 /\ setup.bytes \in Nat
    BY Numbers DEF FetchInit
  <1>3. fetch \in Fetches
    BY <1>1 DEF Fetching, Fetches, FetchSteps, Reasons
  <1>4. /\ fetch.pc = "get" /\ fetch.requests = 0 /\ fetch.length = 0 /\ fetch.n = 0
        /\ fetch.why = "none"
    BY <1>1 DEF Fetching
  <1>5. FetchSizes
    BY <1>2, <1>4 DEF FetchSizes
  <1>6. fetch.requests < MaxRedirects
    BY <1>2, <1>4
  <1> QED
    BY <1>2, <1>3, <1>4, <1>5, <1>6, NoReason DEF FetchInv

\* A step that gives nothing up.
LEMMA Going ==
  ASSUME FetchInv, UNCHANGED setup, fetch' \in Fetches, fetch'.why = "none",
         fetch'.requests <= MaxRedirects,
         fetch'.pc \in {"get", "dial"} => fetch'.requests < MaxRedirects,
         FetchSizes'
  PROVE  FetchInv'
  <1>1. SmallBodiesFit'
    BY DEF SmallBodiesFit
  <1> QED
    BY <1>1 DEF FetchInv, MaxRedirects

\* Giving up keeps what was read; the reasons that speak of a size need one.
LEMMA GivingUp ==
  ASSUME FetchInv, UNCHANGED setup, NEW why \in Reasons, GivesUp(why),
         why = "tooLarge" => fetch.length > setup.bytes,
         why = "lateEnd" => fetch.length = setup.bytes
  PROVE  FetchInv'
  <1>1. /\ fetch' \in Fetches /\ fetch'.pc = "rolledBack" /\ fetch'.why = why
        /\ fetch'.length = fetch.length /\ fetch'.n = fetch.n
        /\ fetch'.requests = fetch.requests
    BY DEF GivesUp, FetchInv, Fetches, FetchSteps
  <1>2. FetchSizes'
    BY <1>1 DEF FetchInv, FetchSizes
  <1>3. SmallBodiesFit'
    BY <1>1 DEF SmallBodiesFit
  <1> QED
    BY <1>1, <1>2, <1>3 DEF FetchInv, MaxRedirects

\* A request is made for an admitted host, or the upload given up.
LEMMA Requesting ==
  ASSUME FetchInv, UNCHANGED setup, NEW h \in Hosts, Requests(h), fetch.pc \in {"get", "answer"},
         fetch.requests < MaxRedirects
  PROVE  FetchInv'
  <1>1. CASE h \in Admitted
    <2>1. fetch' = [fetch EXCEPT !.pc = "dial", !.host = h]
      BY <1>1 DEF Requests
    <2>2. /\ fetch' \in Fetches /\ fetch'.pc = "dial" /\ fetch'.why = "none"
          /\ fetch'.length = fetch.length /\ fetch'.n = fetch.n
          /\ fetch'.requests = fetch.requests
      BY <2>1 DEF FetchInv, Fetches, FetchSteps
    <2>3. FetchSizes'
      BY <2>2 DEF FetchInv, FetchSizes
    <2> QED
      BY <2>2, <2>3, Going DEF FetchInv
  <1>2. CASE h \notin Admitted
    BY <1>2, GivingUp DEF Requests, Reasons
  <1> QED
    BY <1>1, <1>2

\* One more request has been made.
LEMMA Requested ==
  ASSUME FetchInv, FetchAt("dial"), NEW D \in SUBSET Public,
         fetch' = [fetch EXCEPT !.pc = "answer", !.requests = @ + 1, !.dialed = D]
  PROVE  FetchInv'
  <1>0. fetch.requests < MaxRedirects /\ MaxRedirects \in Nat /\ fetch.requests \in Nat
    BY Numbers DEF FetchInv, FetchAt, Fetches
  <1>1. /\ fetch' \in Fetches /\ fetch'.pc = "answer" /\ fetch'.why = "none"
        /\ fetch'.length = fetch.length /\ fetch'.n = fetch.n
        /\ fetch'.requests = fetch.requests + 1
    <2>1. fetch.requests + 1 \in Nat /\ "answer" \in FetchSteps
      BY <1>0 DEF FetchSteps
    <2> QED
      BY <2>1 DEF FetchAt, FetchInv, Fetches
  <1>2. FetchSizes'
    BY <1>1 DEF FetchAt, FetchInv, FetchSizes
  <1>3. fetch'.requests <= MaxRedirects
    BY <1>0, <1>1
  <1> QED
    BY <1>1, <1>2, <1>3, Going DEF FetchAt

\* Reading: from an answer to the end of the body.
LEMMA Reading ==
  ASSUME FetchInv, FetchAt("read"), NEW k \in 0..Remaining, NEW ends \in BOOLEAN,
         fetch.n + k <= setup.bytes, ends => k = Remaining,
         fetch' = [fetch EXCEPT !.n = @ + k, !.pc = IF ends THEN "publish" ELSE "read"]
  PROVE  FetchInv'
  <1>0. fetch.n \in Nat /\ fetch.length \in Nat /\ k \in Nat /\ k <= fetch.length - fetch.n
    BY DEF FetchInv, Fetches, Remaining
  <1>1. /\ fetch'.pc = (IF ends THEN "publish" ELSE "read") /\ fetch'.why = "none"
        /\ fetch'.length = fetch.length /\ fetch'.n = fetch.n + k
        /\ fetch'.requests = fetch.requests
    BY DEF FetchAt, FetchInv, Fetches
  <1>2. fetch' \in Fetches
    <2>1. fetch.n + k \in Nat /\ (IF ends THEN "publish" ELSE "read") \in FetchSteps
      BY <1>0 DEF FetchSteps
    <2> QED
      BY <2>1 DEF FetchInv, Fetches
  <1>3. fetch'.n <= setup.bytes /\ fetch'.n <= fetch.length
    BY <1>0, <1>1
  <1>4. ends => fetch'.n = fetch.length
    BY <1>0, <1>1 DEF Remaining
  <1>5. FetchSizes'
    BY <1>1, <1>3, <1>4 DEF FetchAt, FetchInv, FetchSizes
  <1> QED
    BY <1>1, <1>2, <1>5, Going DEF FetchAt, FetchInv

\* Each step of the fetch keeps the invariant.
LEMMA FetchStep ==
  ASSUME FetchInv, FetchNext
  PROVE  FetchInv'
  <1>0. /\ setup' = setup /\ MaxRedirects \in Nat /\ setup.bytes \in Nat
        /\ fetch.requests \in Nat /\ fetch.n \in Nat /\ fetch.length \in Nat
        /\ fetch.dialed \in SUBSET Public
    BY Numbers DEF FetchInv, Fetches, FetchNext, FetchAt, Get, Dial, Reuse, NetworkFails, Redirect,
       Answer, ReadSome, ReadCapped, ReadFails, Publish
  <1>1. CASE Get
    <2>1. fetch.host \in Hosts /\ fetch.requests < MaxRedirects /\ fetch.pc = "get"
      BY <1>1 DEF Get, FetchAt, FetchInv, Fetches
    <2> QED
      BY <1>0, <1>1, <2>1, Requesting DEF Get
  <1>2. CASE Dial
    <2>1. PICK found \in SUBSET Addresses :
             IF ~Acceptable(found) THEN GivesUp("refused")
             ELSE \E first \in found :
                     fetch' = [fetch EXCEPT !.pc = "answer", !.requests = @ + 1,
                                            !.dialed = @ \cup {first}]
      BY <1>2, FetchAssumption DEF Dial, FetchAssumption
    <2>2. CASE ~Acceptable(found)
      BY <1>0, <2>1, <2>2, GivingUp DEF Reasons
    <2>3. CASE Acceptable(found)
      <3>1. PICK first \in found :
               fetch' = [fetch EXCEPT !.pc = "answer", !.requests = @ + 1,
                                      !.dialed = @ \cup {first}]
        BY <2>1, <2>3
      <3>2. fetch.dialed \cup {first} \in SUBSET Public
        BY <1>0, <2>3, <3>1 DEF Acceptable
      <3>3. fetch' = [fetch EXCEPT !.pc = "answer", !.requests = @ + 1,
                                   !.dialed = fetch.dialed \cup {first}]
        BY <3>1
      <3> QED
        BY <1>2, <3>2, <3>3, Requested DEF Dial
    <2> QED
      BY <2>2, <2>3
  <1>3. CASE Reuse
    <2>1. fetch' = [fetch EXCEPT !.pc = "answer", !.requests = @ + 1, !.dialed = fetch.dialed]
      BY <1>3 DEF Reuse, FetchInv, Fetches
    <2> QED
      BY <1>0, <1>3, <2>1, Requested DEF Reuse
  <1>4. CASE NetworkFails
    BY <1>0, <1>4, GivingUp DEF NetworkFails, Reasons
  <1>5. CASE Redirect
    <2>1. PICK h \in Hosts : IF TooManyRedirects THEN GivesUp("redirects") ELSE Requests(h)
      BY <1>5 DEF Redirect
    <2>2. CASE TooManyRedirects
      BY <1>0, <2>1, <2>2, GivingUp DEF Reasons
    <2>3. CASE ~TooManyRedirects
      <3>1. fetch.requests < MaxRedirects
        BY <1>0, <2>3 DEF TooManyRedirects
      <3> QED
        BY <1>0, <1>5, <2>1, <2>3, <3>1, Requesting DEF Redirect, FetchAt
    <2> QED
      BY <2>2, <2>3
  <1>6. CASE Answer
    <2>1. CASE GivesUp("status")
      BY <1>0, <2>1, GivingUp DEF Reasons
    <2>2. CASE \E length \in Lengths : fetch' = [fetch EXCEPT !.pc = "read", !.length = length]
      <3>1. PICK length \in Lengths : fetch' = [fetch EXCEPT !.pc = "read", !.length = length]
        BY <2>2
      <3>2. length \in Nat /\ fetch.pc = "answer"
        BY <1>6, FetchAssumption DEF FetchAssumption, Answer, FetchAt
      <3>3. /\ fetch' \in Fetches /\ fetch'.pc = "read" /\ fetch'.why = "none"
            /\ fetch'.length = length /\ fetch'.n = 0
            /\ fetch'.requests = fetch.requests
        BY <3>1, <3>2 DEF FetchInv, FetchSizes, Fetches, FetchSteps
      <3>4. FetchSizes'
        BY <1>0, <3>2, <3>3 DEF FetchSizes
      <3> QED
        BY <1>0, <3>3, <3>4, Going DEF FetchInv
    <2> QED
      BY <1>6, <2>1, <2>2 DEF Answer
  <1>7. CASE ReadSome
    <2>1. PICK k \in 0..Remaining, ends \in BOOLEAN :
             /\ fetch.n + k <= setup.bytes
             /\ ends => k = Remaining
             /\ fetch' = [fetch EXCEPT !.n = @ + k, !.pc = IF ends THEN "publish" ELSE "read"]
      BY <1>7 DEF ReadSome
    <2> QED
      BY <1>7, <2>1, Reading DEF ReadSome
  <1>8. CASE ReadCapped
    <2>1. fetch.n = setup.bytes /\ fetch.n <= fetch.length
      BY <1>0, <1>8 DEF ReadCapped, FetchInv, FetchSizes
    <2>2. CASE Remaining > 0
      <3>1. GivesUp("tooLarge") /\ fetch.length > setup.bytes
        BY <1>0, <1>8, <2>1, <2>2 DEF ReadCapped, CapReached, Remaining
      <3> QED
        BY <1>0, <3>1, GivingUp DEF Reasons
    <2>3. CASE ~(Remaining > 0)
      <3>1. GivesUp("lateEnd") /\ fetch.length = setup.bytes
        BY <1>0, <1>8, <2>1, <2>3 DEF ReadCapped, CapReached, Remaining
      <3> QED
        BY <1>0, <3>1, GivingUp DEF Reasons
    <2> QED
      BY <2>2, <2>3
  <1>9. CASE ReadFails
    BY <1>0, <1>9, GivingUp DEF ReadFails, Reasons
  <1>10. CASE Publish
    <2>1. CASE GivesUp("store")
      BY <1>0, <2>1, GivingUp DEF Reasons
    <2>2. CASE fetch' = [fetch EXCEPT !.pc = "published"]
      <3>1. /\ fetch' \in Fetches /\ fetch'.pc = "published" /\ fetch'.why = "none"
            /\ fetch'.length = fetch.length /\ fetch'.n = fetch.n
            /\ fetch'.requests = fetch.requests
        BY <1>10, <2>2 DEF Publish, FetchAt, FetchInv, Fetches, FetchSteps
      <3>2. FetchSizes'
        BY <1>0, <1>10, <3>1 DEF Publish, FetchAt, FetchInv, FetchSizes
      <3> QED
        BY <1>0, <3>1, <3>2, Going DEF FetchInv
    <2> QED
      BY <1>10, <2>1, <2>2 DEF Publish
  <1> QED
    BY <1>1, <1>2, <1>3, <1>4, <1>5, <1>6, <1>7, <1>8, <1>9, <1>10 DEF FetchNext

(* The inductive invariant of the fetch: a request is made only where a      *)
(* redirect is left (client.go), and the bytes counted are those of the body. *)
THEOREM FetchInvariance == FetchSpec => []FetchInv
  <1>1. FetchInit => FetchInv
    BY FetchStart
  <1>2. FetchInv /\ [FetchNext]_fetchVars => FetchInv'
    <2>1. ASSUME FetchInv, UNCHANGED fetchVars PROVE FetchInv'
      BY <2>1 DEF FetchInv, fetchVars, MaxRedirects, FetchSizes, SmallBodiesFit
    <2> QED
      BY <2>1, FetchStep
  <1> QED
    BY <1>1, <1>2, PTL DEF FetchSpec

(* Every address connected to was let through by blockedIP (transport.go),   *)
(* redirects and second look-ups included.                                   *)
THEOREM DialsPublic == FetchSpec => []DialedIsPublic
  <1>1. FetchInv => DialedIsPublic
    BY DEF FetchInv, Fetches, DialedIsPublic
  <1> QED
    BY <1>1, FetchInvariance, PTL

(* A published row has the size of the whole body, within the limit of       *)
(* CappedReader (capped.go).                                                 *)
THEOREM PublishesWhole == FetchSpec => []PublishedIsWhole
  <1>1. FetchInv => PublishedIsWhole
    BY DEF FetchInv, FetchSizes, PublishedIsWhole
  <1> QED
    BY <1>1, FetchInvariance, PTL

(* CappedReader refuses no body below its limit.                             *)
THEOREM SmallOnesFit == FetchSpec => []SmallBodiesFit
  <1>1. FetchInv => SmallBodiesFit
    BY DEF FetchInv
  <1> QED
    BY <1>1, FetchInvariance, PTL

(* Each variable of the fetch keeps its type.                                *)
THEOREM FetchTypes == FetchSpec => []FetchTypeOK
  <1>1. FetchInv => FetchTypeOK
    <2> SUFFICES ASSUME FetchInv PROVE FetchTypeOK
      OBVIOUS
    <2>1. /\ setup \in Setups /\ MaxRedirects \in Nat /\ setup.bytes \in Nat
          /\ fetch.pc \in FetchSteps /\ fetch.why \in Reasons /\ fetch.host \in Hosts
          /\ fetch.dialed \subseteq Public
          /\ fetch.requests \in Nat /\ fetch.n \in Nat
      BY Numbers DEF FetchInv, Fetches
    <2>2. fetch.requests \in 0..MaxRedirects /\ fetch.n \in 0..setup.bytes
      BY <2>1 DEF FetchInv, FetchSizes
    <2> QED
      BY <2>1, <2>2, FetchAssumption
         DEF FetchAssumption, FetchInv, FetchSizes, FetchTypeOK, FetchSteps, Reasons
  <1> QED
    BY <1>1, FetchInvariance, PTL

-----------------------------------------------------------------------------
(* RateLimiter. *)

(* What c finds is at least its ideal bucket, and just that unless its       *)
(* bucket is forgotten.                                                      *)
HeldIsOwed(c) ==
    /\ Held(c) \in 0..Full /\ ideal[c] <= Held(c)
    /\ c \notin evicted => Held(c) = ideal[c]

Buckets == [units : 0..Full, idle : 0..IdleTicks + 1]

RateInv ==
    /\ config \in Configs
    /\ DOMAIN entries \subseteq Clients /\ IsFiniteSet(DOMAIN entries) /\ TableIsBounded
    /\ \A c \in DOMAIN entries : entries[c] \in Buckets
    /\ ideal \in [Clients -> 0..Full]
    /\ \A c \in Clients : HeldIsOwed(c)
    /\ AnswersOfOwnBucket

\* A full bucket pays for a request.
LEMMA FullPays ==
  ASSUME config \in Configs
  PROVE  Full \in Nat /\ Cost \in Nat /\ Cost > 0 /\ Full >= Cost /\ config.rate \in Int
         /\ IdleTicks \in Nat /\ TableLimit \in Nat
  <1>1. Cost \in Nat /\ Cost > 0 /\ config.burst \in Int /\ config.rate \in Int
        /\ IdleTicks \in Nat /\ TableLimit \in Nat
    BY RateAssumption DEF RateAssumption
  <1>2. PICK b \in Nat : b >= 1 /\ Full = Cost * b
    <2>1. CASE config.burst <= 0
      <3>1. Full = Cost * 1
        BY <2>1 DEF Full
      <3> QED
        BY <3>1
    <2>2. CASE ~(config.burst <= 0)
      <3>1. Full = Cost * config.burst /\ config.burst \in Nat /\ config.burst >= 1
        BY <1>1, <2>2 DEF Full
      <3> QED
        BY <3>1
    <2> QED
      BY <2>1, <2>2
  <1>3. Cost * b = Cost + Cost * (b - 1) /\ Cost * (b - 1) \in Nat
    BY <1>1, <1>2
  <1> QED
    BY <1>1, <1>2, <1>3

\* Before the first request every bucket is full and the table empty.
LEMMA RateStart == RateInit => RateInv
  <1> SUFFICES ASSUME RateInit PROVE RateInv
    OBVIOUS
  <1>1. Full \in Nat /\ TableLimit \in Nat /\ config \in Configs
    BY FullPays DEF RateInit
  <1>2. DOMAIN entries = {}
    BY DEF RateInit
  <1>3. IsFiniteSet(DOMAIN entries) /\ TableIsBounded
    BY <1>1, <1>2, FS_EmptySet DEF TableIsBounded
  <1>4. ASSUME NEW c \in Clients PROVE HeldIsOwed(c)
    BY <1>1, <1>2 DEF RateInit, HeldIsOwed, Held, Known
  <1>5. AnswersOfOwnBucket
    BY DEF RateInit, Told, AnswersOfOwnBucket
  <1> QED
    BY <1>1, <1>2, <1>3, <1>4, <1>5 DEF RateInit, RateInv

\* A tick gives both buckets the same, and forgets the old ones.
LEMMA RateTick ==
  ASSUME RateInv, Tick
  PROVE  RateInv'
  <1>1. /\ Full' = Full /\ Full \in Nat /\ IdleTicks \in Nat /\ config.rate \in Int
        /\ config.rate > 0 /\ config' = config /\ verdict' = verdict
    BY FullPays DEF RateInv, Tick, Limited, Full
  <1>2. /\ DOMAIN entries' = DOMAIN entries
        /\ \A c \in DOMAIN entries :
              /\ entries'[c].units = Least(Full, entries[c].units + config.rate)
              /\ entries'[c].idle = Least(IdleTicks + 1, entries[c].idle + 1)
              /\ entries'[c] \in Buckets
    <2>1. DOMAIN entries' = DOMAIN entries
      BY DEF Tick
    <2>2. ASSUME NEW c \in DOMAIN entries
          PROVE  /\ entries'[c].units = Least(Full, entries[c].units + config.rate)
                 /\ entries'[c].idle = Least(IdleTicks + 1, entries[c].idle + 1)
                 /\ entries'[c] \in Buckets
      <3>1. entries[c].units \in 0..Full /\ entries[c].idle \in 0..IdleTicks + 1
        BY DEF RateInv, Buckets
      <3>2. /\ Least(Full, entries[c].units + config.rate) \in 0..Full
            /\ Least(IdleTicks + 1, entries[c].idle + 1) \in 0..IdleTicks + 1
        BY <1>1, <3>1 DEF Least
      <3> QED
        BY <3>2 DEF Tick, Entry, Buckets
    <2> QED
      BY <2>1, <2>2
  <1>3. ideal' \in [Clients -> 0..Full]
    <2>1. ASSUME NEW c \in Clients PROVE Least(Full, ideal[c] + config.rate) \in 0..Full
      BY <1>1 DEF RateInv, Least
    <2> QED
      BY <2>1 DEF Tick
  <1>4. ASSUME NEW c \in Clients PROVE HeldIsOwed(c)'
    <2>1. HeldIsOwed(c) /\ ideal'[c] = Least(Full, ideal[c] + config.rate) /\ ideal[c] \in 0..Full
      BY DEF RateInv, Tick
    <2>2. CASE Known(c)
      <3>1. /\ Held(c) = entries[c].units /\ c \in DOMAIN entries
            /\ entries[c].idle <= IdleTicks /\ entries[c] \in Buckets
        BY <2>2 DEF Held, Known, RateInv
      <3>2. entries'[c].idle = entries[c].idle + 1
        BY <1>1, <1>2, <3>1 DEF Least, Buckets
      <3>3. CASE entries'[c].idle <= IdleTicks
        <4>1. Known(c)' /\ Held(c)' = Least(Full, Held(c) + config.rate)
          BY <1>2, <3>1, <3>3 DEF Known, Held
        <4>2. c \in evicted /\ ideal'[c] < Full => c \in evicted'
          BY DEF Tick
        <4> QED
          BY <1>1, <2>1, <4>1, <4>2 DEF HeldIsOwed, Least
      <3>4. CASE ~(entries'[c].idle <= IdleTicks)
        <4>1. Held(c)' = Full
          BY <1>1, <3>4 DEF Known, Held
        <4>2. ideal'[c] < Full => c \in evicted'
          BY <1>1, <1>2, <3>1, <3>2, <3>4 DEF Tick, Buckets
        <4> QED
          BY <1>1, <2>1, <4>1, <4>2 DEF HeldIsOwed, Least
      <3> QED
        BY <3>3, <3>4
    <2>3. CASE ~Known(c)
      <3>1. ~Known(c)'
        BY <1>1, <1>2, <2>3 DEF Known, Least, RateInv, Buckets
      <3>2. Held(c) = Full /\ Held(c)' = Full
        BY <1>1, <2>3, <3>1 DEF Held
      <3>3. c \in evicted /\ ideal'[c] < Full => c \in evicted'
        BY DEF Tick
      <3> QED
        BY <1>1, <2>1, <3>2, <3>3 DEF HeldIsOwed, Least
    <2> QED
      BY <2>2, <2>3
  <1>5. TableIsBounded' /\ AnswersOfOwnBucket'
    BY <1>1, <1>2 DEF RateInv, TableIsBounded, AnswersOfOwnBucket
  <1>6. Buckets' = Buckets
    BY <1>1 DEF Buckets
  <1> QED
    BY <1>1, <1>2, <1>3, <1>4, <1>5, <1>6 DEF RateInv

-----------------------------------------------------------------------------
\* A request: the bucket of c pays, and perhaps one entry goes.
LEMMA RateAllow ==
  ASSUME RateInv, NEW c \in Clients, Allow(c)
  PROVE  RateInv'
  <1>1. /\ Full' = Full /\ Full \in Nat /\ Cost \in Nat /\ Cost > 0 /\ Full >= Cost
        /\ IdleTicks \in Nat /\ TableLimit \in Nat /\ config' = config
    BY FullPays DEF RateInv, Allow, Full
  <1>2. HeldIsOwed(c) /\ Held(c) \in 0..Full /\ ideal[c] \in 0..Full
    BY DEF RateInv, HeldIsOwed
  <1>3. PICK table \in Trimmed(c) :
           /\ entries' = [q \in DOMAIN table |->
                            IF q = c THEN Entry(Spent(Held(c)), 0) ELSE table[q]]
           /\ evicted' = {q \in evicted \cup (DOMAIN With(c) \ DOMAIN table) : ideal'[q] < Full}
    BY DEF Allow
  <1> DEFINE All == DOMAIN entries \cup {c}
  <1>4. /\ DOMAIN With(c) = All
        /\ \A q \in DOMAIN entries : q # c => With(c)[q] = entries[q]
    BY DEF With
  <1>5. IsFiniteSet(All) /\ Cardinality(All) <= TableLimit + 1 /\ Cardinality(All) \in Nat
    <2>1. IsFiniteSet(DOMAIN entries) /\ Cardinality(DOMAIN entries) <= TableLimit
      BY DEF RateInv, TableIsBounded
    <2>2. IsFiniteSet(All)
      BY <2>1, FS_AddElement
    <2>3. \/ Cardinality(All) = Cardinality(DOMAIN entries)
          \/ Cardinality(All) = Cardinality(DOMAIN entries) + 1
      BY <2>1, FS_AddElement
    <2>4. Cardinality(DOMAIN entries) \in Nat /\ Cardinality(All) \in Nat
      BY <2>1, <2>2, FS_CardinalityType
    <2> QED
      BY <1>1, <2>1, <2>2, <2>3, <2>4
  <1>6. /\ DOMAIN table \subseteq All /\ IsFiniteSet(DOMAIN table)
        /\ Cardinality(DOMAIN table) <= TableLimit
        /\ \A q \in DOMAIN table : q # c => table[q] = entries[q]
    <2>1. CASE Cardinality(All) > TableLimit
      <3>1. PICK gone \in All : table = Without(With(c), gone)
        BY <1>3, <1>4, <2>1 DEF Trimmed
      <3>2. /\ DOMAIN table = All \ {gone}
            /\ \A q \in DOMAIN table : q # c => table[q] = entries[q]
        BY <1>4, <3>1 DEF Without
      <3>3. IsFiniteSet(All \ {gone}) /\ Cardinality(All \ {gone}) = Cardinality(All) - 1
        BY <1>5, FS_RemoveElement
      <3> QED
        BY <1>1, <1>5, <3>2, <3>3
    <2>2. CASE ~(Cardinality(All) > TableLimit)
      <3>1. table = With(c)
        BY <1>3, <1>4, <2>2 DEF Trimmed
      <3> QED
        BY <1>1, <1>4, <1>5, <2>2, <3>1
    <2> QED
      BY <2>1, <2>2
  <1>7. Spent(Held(c)) \in 0..Full
    BY <1>1, <1>2 DEF Spent
  <1>8. /\ DOMAIN entries' = DOMAIN table
        /\ c \in DOMAIN table => entries'[c] = Entry(Spent(Held(c)), 0)
        /\ \A q \in DOMAIN table : q # c => entries'[q] = entries[q] /\ q \in DOMAIN entries
    BY <1>3, <1>6
  <1>9. \A q \in DOMAIN entries' : entries'[q] \in Buckets
    <2>1. Entry(Spent(Held(c)), 0) \in Buckets
      BY <1>1, <1>7 DEF Entry, Buckets
    <2> QED
      BY <1>8, <2>1 DEF RateInv
  <1>10. ideal' = [ideal EXCEPT ![c] = IF Held(c) < Cost THEN @ ELSE IF @ < Cost THEN 0 ELSE @ - Cost]
    BY DEF Allow
  <1>11. /\ ideal'[c] = (IF Held(c) < Cost THEN ideal[c]
                         ELSE IF ideal[c] < Cost THEN 0 ELSE ideal[c] - Cost)
         /\ \A q \in Clients : q # c => ideal'[q] = ideal[q]
         /\ ideal' \in [Clients -> 0..Full]
    <2>1. (IF Held(c) < Cost THEN ideal[c]
           ELSE IF ideal[c] < Cost THEN 0 ELSE ideal[c] - Cost) \in 0..Full
      BY <1>1, <1>2
    <2> QED
      BY <1>10, <2>1 DEF RateInv
  <1>12. ASSUME NEW q \in Clients PROVE HeldIsOwed(q)'
    <2>1. CASE q \notin DOMAIN table
      <3>1. Held(q)' = Full /\ ideal'[q] \in 0..Full
        BY <1>1, <1>8, <1>11, <2>1 DEF Held, Known
      <3>2. CASE q \in All
        <4>1. ideal'[q] < Full => q \in evicted'
          BY <1>3, <1>4, <2>1, <3>2
        <4> QED
          BY <1>1, <3>1, <4>1 DEF HeldIsOwed
      <3>3. CASE q \notin All
        <4>1. Held(q) = Full /\ ideal'[q] = ideal[q] /\ HeldIsOwed(q)
          BY <1>11, <3>3 DEF Held, Known, RateInv
        <4>2. q \in evicted /\ ideal'[q] < Full => q \in evicted'
          BY <1>3
        <4> QED
          BY <1>1, <3>1, <4>1, <4>2 DEF HeldIsOwed
      <3> QED
        BY <3>2, <3>3
    <2>2. CASE q \in DOMAIN table /\ q # c
      <3>1. Held(q)' = Held(q) /\ ideal'[q] = ideal[q] /\ HeldIsOwed(q)
        BY <1>1, <1>8, <1>11, <2>2 DEF Held, Known, RateInv
      <3>2. q \in evicted /\ ideal'[q] < Full => q \in evicted'
        BY <1>3
      <3> QED
        BY <1>1, <1>11, <3>1, <3>2 DEF HeldIsOwed
    <2>3. CASE q \in DOMAIN table /\ q = c
      <3>1. Held(c)' = Spent(Held(c))
        BY <1>1, <1>8, <2>3 DEF Held, Known, Entry
      <3>2. c \in evicted /\ ideal'[c] < Full => c \in evicted'
        BY <1>3
      <3> QED
        BY <1>1, <1>2, <1>7, <1>11, <2>3, <3>1, <3>2 DEF HeldIsOwed, Spent
    <2> QED
      BY <2>1, <2>2, <2>3
  <1>13. AnswersOfOwnBucket'
    <2>1. verdict' = Told(Held(c) >= Cost, ideal[c] >= Cost, c \in evicted)
      BY DEF Allow
    <2>2. /\ verdict'.allowed <=> Held(c) >= Cost
          /\ verdict'.ideal <=> ideal[c] >= Cost
          /\ verdict'.forgotten <=> c \in evicted
      BY <2>1, Zenon DEF Told
    <2>3. ideal[c] >= Cost => Held(c) >= Cost
      BY <1>1, <1>2 DEF HeldIsOwed
    <2>4. Held(c) >= Cost => ideal[c] >= Cost \/ c \in evicted
      BY <1>1, <1>2 DEF HeldIsOwed
    <2> QED
      BY <2>2, <2>3, <2>4, Zenon DEF AnswersOfOwnBucket
  <1>14. Buckets' = Buckets
    BY <1>1 DEF Buckets
  <1>15. DOMAIN entries' \subseteq Clients /\ IsFiniteSet(DOMAIN entries') /\ TableIsBounded'
    BY <1>6, <1>8 DEF RateInv, TableIsBounded
  <1> QED
    BY <1>1, <1>9, <1>11, <1>12, <1>13, <1>14, <1>15 DEF RateInv

(* The inductive invariant of the limiter: each entry owes its client what   *)
(* the bucket of the library would hold (middleware_ratelimit.go).           *)
THEOREM RateInvariance == RateSpec => []RateInv
  <1>1. RateInit => RateInv
    BY RateStart
  <1>2. RateInv /\ [RateNext]_rateVars => RateInv'
    <2> SUFFICES ASSUME RateInv, [RateNext]_rateVars PROVE RateInv'
      OBVIOUS
    <2>1. CASE Tick
      BY <2>1, RateTick
    <2>2. CASE AllowAll
      BY <2>2, Zenon DEF AllowAll, RateInv, TableIsBounded, Buckets, HeldIsOwed, Held, Known, Full,
            AnswersOfOwnBucket, Told
    <2>3. ASSUME NEW c \in Clients, Allow(c) PROVE RateInv'
      BY <2>3, RateAllow
    <2>4. CASE UNCHANGED rateVars
      BY <2>4 DEF rateVars, RateInv, TableIsBounded, Buckets, HeldIsOwed, Held, Known, Full,
            AnswersOfOwnBucket
    <2> QED
      BY <2>1, <2>2, <2>3, <2>4 DEF RateNext
  <1> QED
    BY <1>1, <1>2, PTL DEF RateSpec

(* A client is refused nothing its own bucket would allow, and allowed more  *)
(* only while that bucket is forgotten (allow and trimLocked).               *)
THEOREM OwnBucket == RateSpec => []AnswersOfOwnBucket
  <1>1. RateInv => AnswersOfOwnBucket
    BY DEF RateInv
  <1> QED
    BY <1>1, RateInvariance, PTL

(* The table stays within the number trimLocked keeps it to, for any number  *)
(* of clients.                                                               *)
THEOREM TableBound == RateSpec => []TableIsBounded
  <1>1. RateInv => TableIsBounded
    BY DEF RateInv
  <1> QED
    BY <1>1, RateInvariance, PTL

(* Each variable of the limiter keeps its type: only an address that asked   *)
(* has ever been forgotten.                                                  *)
THEOREM RateTypes == RateSpec => []RateTypeOK
  <1> DEFINE Told3 == [allowed : BOOLEAN, ideal : BOOLEAN, forgotten : BOOLEAN]
             More == verdict \in Told3 /\ evicted \subseteq Clients
  <1>1. RateInit => More
    BY DEF RateInit, Told
  <1>2. RateInv /\ More /\ [RateNext]_rateVars => More'
    <2> SUFFICES ASSUME RateInv, More, [RateNext]_rateVars PROVE More'
      OBVIOUS
    <2>1. CASE Tick
      BY <2>1 DEF Tick, RateInv
    <2>2. CASE AllowAll
      BY <2>2 DEF AllowAll, Told
    <2>3. ASSUME NEW c \in Clients, Allow(c) PROVE More'
      <3>1. DOMAIN With(c) \subseteq Clients
        BY DEF With, RateInv
      <3>2. verdict' \in Told3
        BY <2>3 DEF Allow, Told
      <3>3. evicted' \subseteq Clients
        BY <2>3, <3>1 DEF Allow
      <3> QED
        BY <3>2, <3>3
    <2>4. CASE UNCHANGED rateVars
      BY <2>4 DEF rateVars
    <2> QED
      BY <2>1, <2>2, <2>3, <2>4 DEF RateNext
  <1>3. RateInv /\ More => RateTypeOK
    BY DEF RateInv, RateTypeOK, Buckets
  <1> QED
    BY <1>1, <1>2, <1>3, RateInvariance, PTL DEF RateSpec

-----------------------------------------------------------------------------
(* Settings. *)

AnyColumn == UNION {ColumnsOf(t) : t \in Tables}
ColumnRows == [Columns -> Values \cup {Unset}]
PatchRecords ==
    [pc : SettingsSteps, id : Nat, body : UNION {[names -> Values \cup {Unset}] : names \in SUBSET Columns},
     copy : ColumnRows, out : Outcomes, applied : BOOLEAN, missed : SUBSET AnyColumn, over : SUBSET AnyColumn]

\* Null is sent for a media configuration only.
BodyOK(q) == DOMAIN q.body \subseteq Columns /\ \A c \in DOMAIN q.body : q.body[c] = Unset => c = "media"

(* The row q is about is still there. *)
About(q) == rec.state = "live" /\ rec.id = q.id

(* A request about to write knows what columns hold, unless it has missed    *)
(* who named them since.                                                     *)
KnowsColumns(q) == q.pc = "write" /\ About(q) => \A c \in Columns : q.copy[c] = want[c] \/ c \in lost \/ c \in q.missed

(* A request about to read again has been applied, and what it named is      *)
(* there or was overwritten.                                                 *)
HasWritten(q) ==
    q.pc = "reload" /\ About(q) =>
        /\ q.applied
        /\ \A c \in DOMAIN q.body : q.body[c] # Unset => rec.cols[c] = q.body[c] \/ c \in q.over

(* A request answered with a row showed what it named.                       *)
Showed(q) ==
    q.pc = "done" /\ q.out = "row" =>
        /\ q.applied
        /\ \A c \in DOMAIN q.body : q.body[c] # Unset => q.copy[c] = q.body[c] \/ c \in q.over

RequestOK(q) ==
    /\ q \in PatchRecords /\ BodyOK(q)
    /\ q.id <= rec.id
    /\ KnowsColumns(q) /\ HasWritten(q) /\ Showed(q)

SettingsInv ==
    /\ tab \in Tables /\ (uploading => tab = "file")
    /\ rec \in [state : {"live", "trash", "gone"}, id : Nat, cols : ColumnRows]
    /\ want \in ColumnRows
    /\ preq \in [Patches -> PatchRecords]
    /\ \A r \in Patches : RequestOK(preq[r])
    /\ LastPatchWins

\* The table does not change.
LEMMA SameTable ==
  ASSUME UNCHANGED tab
  PROVE  Columns' = Columns /\ ColumnRows' = ColumnRows /\ PatchRecords' = PatchRecords
  BY DEF Columns, ColumnRows, PatchRecords

\* The columns are those of one of the tables.
LEMMA SomeColumns ==
  ASSUME tab \in Tables
  PROVE  Columns \subseteq AnyColumn /\ (tab = "file" => "virtual_path" \in Columns)
  BY DEF Columns, AnyColumn, ColumnsOf, Tables

\* Nobody has asked for anything.
LEMMA SettingsStart == SettingsInit => SettingsInv
  <1> SUFFICES ASSUME SettingsInit PROVE SettingsInv
    OBVIOUS
  <1>1. PICK media \in {Initial, Unset} :
           rec = [state |-> "live", id |-> 1,
                  cols |-> [c \in Columns |-> IF c = "media" THEN media ELSE Initial]]
    BY DEF SettingsInit
  <1>2. rec \in [state : {"live", "trash", "gone"}, id : Nat, cols : ColumnRows]
    BY <1>1, SettingsAssumption DEF SettingsAssumption, ColumnRows
  <1>3. want = rec.cols /\ want \in ColumnRows
    BY <1>2 DEF SettingsInit
  <1>4. ASSUME NEW r \in Patches
        PROVE  Request("idle", 1, <<>>, rec.cols) \in PatchRecords
    <2>1. <<>> \in [{} -> Values \cup {Unset}] /\ {} \in SUBSET Columns
      OBVIOUS
    <2>2. <<>> \in UNION {[names -> Values \cup {Unset}] : names \in SUBSET Columns}
      BY <2>1
    <2> QED
      BY <1>2, <2>2 DEF Request, PatchRecords, SettingsSteps, Outcomes
  <1>5. ASSUME NEW r \in Patches PROVE RequestOK(preq[r])
    <2>1. preq[r] = Request("idle", 1, <<>>, rec.cols)
      BY DEF SettingsInit
    <2>2. preq[r].pc = "idle" /\ preq[r].id = 1 /\ DOMAIN preq[r].body = {}
      BY <2>1 DEF Request
    <2> QED
      BY <1>1, <1>4, <2>1, <2>2 DEF RequestOK, BodyOK, KnowsColumns, HasWritten, Showed
  <1>6. preq \in [Patches -> PatchRecords]
    BY <1>4 DEF SettingsInit
  <1> QED
    BY <1>2, <1>3, <1>5, <1>6 DEF SettingsInit, SettingsInv, LastPatchWins

\* A step of r that reads at most: what it becomes is in order.
LEMMA Selecting ==
  ASSUME SettingsInv, NEW r \in Patches, NEW q,
         Selects([preq EXCEPT ![r] = q]), RequestOK(q)
  PROVE  SettingsInv'
  <1>1. UNCHANGED <<tab, rec, uploading, want, lost>> /\ preq' = [preq EXCEPT ![r] = q]
    BY DEF Selects
  <1>2. preq' \in [Patches -> PatchRecords]
    BY <1>1 DEF SettingsInv, RequestOK
  <1>3. ASSUME NEW o \in Patches PROVE RequestOK(preq[o])'
    <2>1. RequestOK(preq'[o])
      BY <1>1 DEF SettingsInv
    <2> QED
      BY <1>1, <2>1, SameTable
         DEF RequestOK, BodyOK, KnowsColumns, HasWritten, Showed, About
  <1> QED
    BY <1>1, <1>2, <1>3, SameTable DEF SettingsInv, LastPatchWins

\* A new request has read nothing.
LEMMA PatchAsk ==
  ASSUME SettingsInv, NEW r \in Patches, NEW names \in SUBSET Columns, NEW nulls \in SUBSET {"media"},
         NEW v \in Values, NEW id \in 1..MaxRows, AskPatch(r, names, v, nulls, id)
  PROVE  SettingsInv'
  <1> DEFINE body == [c \in names |-> IF c \in nulls THEN Unset ELSE v]
             q == Request(IF tab = "file" THEN "check" ELSE "load", id, body, rec.cols)
  <1>1. Selects([preq EXCEPT ![r] = q]) /\ id <= rec.id
    BY DEF AskPatch
  <1>2. /\ q.pc \in {"check", "load"} /\ q.id = id /\ q.body = body
    BY DEF Request
  <1>3. body \in [names -> Values \cup {Unset}]
    OBVIOUS
  <1>4. body \in UNION {[n -> Values \cup {Unset}] : n \in SUBSET Columns}
    BY <1>3
  <1>5. q \in PatchRecords
    <2>1. id \in Nat /\ rec.cols \in ColumnRows
      BY SettingsAssumption DEF SettingsAssumption, SettingsInv
    <2>2. (IF tab = "file" THEN "check" ELSE "load") \in SettingsSteps /\ "none" \in Outcomes
      BY DEF SettingsSteps, Outcomes
    <2> HIDE DEF body
    <2> QED
      BY <1>4, <2>1, <2>2 DEF Request, PatchRecords
  <1>6. \A c \in names : body[c] = Unset => c = "media"
    BY SettingsAssumption DEF SettingsAssumption
  <1>7. BodyOK(q)
    BY <1>2, <1>6 DEF BodyOK
  <1>8. RequestOK(q)
    BY <1>1, <1>2, <1>5, <1>7 DEF RequestOK, KnowsColumns, HasWritten, Showed
  <1> HIDE DEF q
  <1> QED
    BY <1>1, <1>8, Selecting

\* To another step, having read nothing.
LEMMA PatchMove ==
  ASSUME SettingsInv, NEW r \in Patches
  PROVE  /\ Selects(Step(r, "load")) => SettingsInv'
         /\ Selects(Out(r, "refused")) => SettingsInv'
         /\ Selects(Out(r, "null")) => SettingsInv'
  <1>1. preq \in [Patches -> PatchRecords] /\ RequestOK(preq[r]) /\ preq[r] \in PatchRecords
    BY DEF SettingsInv
  <1>2. ASSUME Selects(Step(r, "load")) PROVE SettingsInv'
    <2> DEFINE q == [preq[r] EXCEPT !.pc = "load"]
    <2>1. Step(r, "load") = [preq EXCEPT ![r] = q]
      BY <1>1 DEF Step
    <2>2. q \in PatchRecords /\ q.pc = "load" /\ q.id = preq[r].id /\ q.body = preq[r].body
      BY <1>1 DEF PatchRecords, SettingsSteps
    <2>3. RequestOK(q)
      BY <1>1, <2>2 DEF RequestOK, BodyOK, KnowsColumns, HasWritten, Showed
    <2> HIDE DEF q
    <2> QED
      BY <1>2, <2>1, <2>3, Selecting
  <1>3. ASSUME NEW outcome \in {"refused", "null"}, Selects(Out(r, outcome)) PROVE SettingsInv'
    <2> DEFINE q == [preq[r] EXCEPT !.pc = "done", !.out = outcome, !.missed = {}]
    <2>1. Out(r, outcome) = [preq EXCEPT ![r] = q]
      BY <1>1 DEF Out
    <2>2. /\ q \in PatchRecords /\ q.pc = "done" /\ q.out # "row" /\ q.id = preq[r].id
          /\ q.body = preq[r].body
      BY <1>1 DEF PatchRecords, SettingsSteps, Outcomes
    <2>3. RequestOK(q)
      BY <1>1, <2>2 DEF RequestOK, BodyOK, KnowsColumns, HasWritten, Showed
    <2> HIDE DEF q
    <2> QED
      BY <1>3, <2>1, <2>3, Selecting
  <1> QED
    BY <1>2, <1>3

\* The row is read: what it holds is what was last named, or lost already.
LEMMA PatchLoad ==
  ASSUME SettingsInv, NEW r \in Patches, LoadRow(r)
  PROVE  SettingsInv'
  <1>1. CASE Selects(Out(r, "refused"))
    BY <1>1, PatchMove
  <1>2. CASE Selected(r) /\ Selects([Step(r, "write") EXCEPT ![r].copy = rec.cols])
    <2> DEFINE q == [preq[r] EXCEPT !.pc = "write", !.copy = rec.cols]
    <2>1. /\ preq \in [Patches -> PatchRecords] /\ RequestOK(preq[r]) /\ preq[r] \in PatchRecords
          /\ rec.cols \in ColumnRows /\ LastPatchWins
      BY DEF SettingsInv
    <2>2. [Step(r, "write") EXCEPT ![r].copy = rec.cols] = [preq EXCEPT ![r] = q]
      BY <2>1 DEF Step, PatchRecords
    <2>3. /\ q \in PatchRecords /\ q.pc = "write" /\ q.id = preq[r].id /\ q.body = preq[r].body
          /\ q.copy = rec.cols
      BY <2>1 DEF PatchRecords, SettingsSteps
    <2>4. KnowsColumns(q)
      BY <2>1, <2>3 DEF KnowsColumns, About, LastPatchWins
    <2>5. RequestOK(q)
      BY <2>1, <2>3, <2>4 DEF RequestOK, BodyOK, HasWritten, Showed
    <2> HIDE DEF q
    <2> QED
      BY <1>2, <2>2, <2>5, Selecting
  <1> QED
    BY <1>1, <1>2 DEF LoadRow

\* The row is read for the answer.
LEMMA PatchReload ==
  ASSUME SettingsInv, NEW r \in Patches, ReloadRow(r)
  PROVE  SettingsInv'
  <1>1. CASE Selects(Out(r, IF tab = "file" THEN "null" ELSE "refused"))
    BY <1>1, PatchMove
  <1>2. CASE Selected(r) /\ Selects([Out(r, "row") EXCEPT ![r].copy = rec.cols])
    <2> DEFINE q == [preq[r] EXCEPT !.pc = "done", !.out = "row", !.missed = {}, !.copy = rec.cols]
    <2>1. /\ preq \in [Patches -> PatchRecords] /\ RequestOK(preq[r]) /\ preq[r] \in PatchRecords
          /\ rec.cols \in ColumnRows /\ preq[r].pc = "reload"
      BY DEF SettingsInv, ReloadRow, Is
    <2>2. [Out(r, "row") EXCEPT ![r].copy = rec.cols] = [preq EXCEPT ![r] = q]
      BY <2>1 DEF Out, PatchRecords
    <2>3. /\ q \in PatchRecords /\ q.pc = "done" /\ q.id = preq[r].id /\ q.body = preq[r].body
          /\ q.copy = rec.cols /\ q.over = preq[r].over /\ q.applied = preq[r].applied
      BY <2>1 DEF PatchRecords, SettingsSteps, Outcomes
    <2>4. Showed(q)
      BY <1>2, <2>1, <2>3 DEF Showed, RequestOK, HasWritten, About, Selected
    <2>5. RequestOK(q)
      BY <2>1, <2>3, <2>4 DEF RequestOK, BodyOK, HasWritten, KnowsColumns
    <2> HIDE DEF q
    <2> QED
      BY <1>2, <2>2, <2>5, Selecting
  <1> QED
    BY <1>1, <1>2 DEF ReloadRow

\* The UPDATE takes effect: what it named is there, what it had read and
\* others named since is lost.
LEMMA Writing ==
  ASSUME SettingsInv, NEW r \in Patches, Is(r, "write"), Hits(r), UNCHANGED <<tab, uploading>>,
         NEW q, q \in {Step(r, "reload"), Out(r, "refused")}, Writes(r, q)
  PROVE  SettingsInv'
  <1>1. /\ preq \in [Patches -> PatchRecords] /\ RequestOK(preq[r]) /\ preq[r] \in PatchRecords
        /\ rec \in [state : {"live", "trash", "gone"}, id : Nat, cols : ColumnRows] /\ want \in ColumnRows
        /\ LastPatchWins /\ preq[r].pc = "write" /\ About(preq[r]) /\ BodyOK(preq[r])
        /\ tab \in Tables
    BY DEF SettingsInv, Is, Hits, Selected, About, RequestOK
  <1>2. /\ q[r] \in PatchRecords /\ q[r].pc \in {"reload", "done"}
        /\ (q[r].pc = "done" => q[r].out # "row")
        /\ q[r].id = preq[r].id /\ q[r].body = preq[r].body
        /\ \A o \in Patches : o # r => q[o] = preq[o]
    <2>1. CASE q = Step(r, "reload")
      <3>1. q[r] = [preq[r] EXCEPT !.pc = "reload"] /\ \A o \in Patches : o # r => q[o] = preq[o]
        BY <1>1, <2>1 DEF Step
      <3> QED
        BY <1>1, <3>1 DEF PatchRecords, SettingsSteps
    <2>2. CASE q = Out(r, "refused")
      <3>1. /\ q[r] = [preq[r] EXCEPT !.pc = "done", !.out = "refused", !.missed = {}]
            /\ \A o \in Patches : o # r => q[o] = preq[o]
        BY <1>1, <2>2 DEF Out
      <3> QED
        BY <1>1, <3>1 DEF PatchRecords, SettingsSteps, Outcomes
    <2> QED
      BY <2>1, <2>2
  <1>3. /\ Updated(r) \in ColumnRows
        /\ \A c \in Columns : c \in Named(r) => Updated(r)[c] = preq[r].body[c]
        /\ \A c \in Columns : c \notin Named(r) =>
              \/ Updated(r)[c] = rec.cols[c]
              \/ Updated(r)[c] = preq[r].copy[c] /\ c \notin Kept(r)
    <2>1. \A c \in Columns : Merged(r)[c] = IF c \in DOMAIN preq[r].body THEN preq[r].body[c] ELSE preq[r].copy[c]
      BY DEF Merged
    <2>2. /\ \A c \in DOMAIN preq[r].body : preq[r].body[c] \in Values \cup {Unset}
          /\ preq[r].copy \in ColumnRows /\ rec.cols \in ColumnRows
      BY <1>1 DEF PatchRecords
    <2>3. \A c \in Columns : Updated(r)[c] = IF c \in Kept(r) THEN rec.cols[c] ELSE Merged(r)[c]
      BY DEF Updated
    <2>4. \A c \in Columns : Updated(r)[c] \in Values \cup {Unset}
      BY <2>1, <2>2, <2>3 DEF ColumnRows
    <2>5. Updated(r) \in ColumnRows
      BY <2>4 DEF Updated, ColumnRows
    <2>6. ASSUME NEW c \in Columns, c \in Named(r) PROVE Updated(r)[c] = preq[r].body[c]
      BY <2>1, <2>3, <2>6 DEF Named, Kept
    <2>7. ASSUME NEW c \in Columns, c \notin Named(r)
          PROVE  \/ Updated(r)[c] = rec.cols[c]
                 \/ Updated(r)[c] = preq[r].copy[c] /\ c \notin Kept(r)
      <3>1. CASE c \in DOMAIN preq[r].body
        <4>1. preq[r].body[c] = Unset /\ c = "media"
          BY <1>1, <2>7, <3>1 DEF Named, BodyOK
        <4>2. c \in Kept(r)
          BY <2>1, <3>1, <4>1 DEF Kept
        <4> QED
          BY <2>3, <4>2
      <3>2. CASE c \notin DOMAIN preq[r].body
        BY <2>1, <2>3, <3>2
      <3> QED
        BY <3>1, <3>2
    <2> QED
      BY <2>5, <2>6, <2>7
  <1>4. /\ rec' = [rec EXCEPT !.cols = Updated(r)]
        /\ want' = [c \in Columns |-> IF c \in Named(r) THEN preq[r].body[c] ELSE want[c]]
        /\ lost' = (lost \ Named(r)) \cup (preq[r].missed \ (Named(r) \cup Kept(r)))
        /\ preq' = [o \in Patches |->
                      IF o = r THEN [q[r] EXCEPT !.applied = TRUE]
                      ELSE IF Is(o, "write") THEN [q[o] EXCEPT !.missed = @ \cup Named(r)]
                      ELSE IF Is(o, "reload")
                           THEN [q[o] EXCEPT !.over = @ \cup {c \in Columns : Updated(r)[c] # rec.cols[c]}]
                      ELSE q[o]]
    BY DEF Writes
  <1>5. /\ rec' \in [state : {"live", "trash", "gone"}, id : Nat, cols : ColumnRows]
        /\ rec'.state = "live" /\ rec'.id = rec.id /\ rec'.cols = Updated(r)
    BY <1>1, <1>3, <1>4 DEF About
  <1>6. /\ want' \in ColumnRows
        /\ \A c \in Columns : c \in Named(r) => want'[c] = preq[r].body[c]
        /\ \A c \in Columns : c \notin Named(r) => want'[c] = want[c]
    <2>1. \A c \in Named(r) : preq[r].body[c] \in Values \cup {Unset}
      BY <1>1 DEF PatchRecords, Named
    <2> QED
      BY <1>1, <1>4, <2>1 DEF ColumnRows
  <1>7. ASSUME NEW c \in Columns PROVE rec'.cols[c] = want'[c] \/ c \in lost'
    <2>1. CASE c \in Named(r)
      BY <1>3, <1>5, <1>6, <2>1
    <2>2. CASE c \notin Named(r) /\ Updated(r)[c] = rec.cols[c]
      BY <1>1, <1>4, <1>5, <1>6, <2>2 DEF LastPatchWins, About
    <2>3. CASE c \notin Named(r) /\ Updated(r)[c] = preq[r].copy[c] /\ c \notin Kept(r)
      <3>1. preq[r].copy[c] = want[c] \/ c \in lost \/ c \in preq[r].missed
        BY <1>1 DEF RequestOK, KnowsColumns
      <3> QED
        BY <1>4, <1>5, <1>6, <2>3, <3>1
    <2> QED
      BY <1>3, <2>1, <2>2, <2>3
  <1>8. Columns' = Columns /\ ColumnRows' = ColumnRows /\ PatchRecords' = PatchRecords
    BY SameTable
  <1>9. ASSUME NEW o \in Patches
        PROVE  preq'[o] \in PatchRecords /\ RequestOK(preq[o])'
    <2>1. RequestOK(preq[o]) /\ preq[o] \in PatchRecords
      BY DEF SettingsInv, RequestOK
    <2>2. CASE o = r
      <3>1. preq'[o] = [q[r] EXCEPT !.applied = TRUE]
        BY <1>4, <2>2
      <3>2. /\ preq'[o] \in PatchRecords /\ preq'[o].pc = q[r].pc /\ preq'[o].out = q[r].out
            /\ preq'[o].applied = TRUE /\ preq'[o].id = preq[r].id /\ preq'[o].body = preq[r].body
        BY <1>2, <3>1 DEF PatchRecords
      <3>3. \A c \in DOMAIN preq[r].body :
               preq[r].body[c] # Unset => c \in Named(r) /\ c \in Columns
        BY <1>1 DEF Named, BodyOK
      <3>4. HasWritten(preq[o])'
        BY <1>3, <1>5, <3>2, <3>3 DEF HasWritten
      <3>5. KnowsColumns(preq[o])' /\ Showed(preq[o])'
        BY <1>2, <3>2 DEF KnowsColumns, Showed
      <3> QED
        BY <1>1, <1>5, <1>8, <3>2, <3>4, <3>5 DEF RequestOK, BodyOK
    <2>3. CASE o # r /\ preq[o].pc = "write"
      <3>1. preq'[o] = [preq[o] EXCEPT !.missed = @ \cup Named(r)]
        BY <1>2, <1>4, <2>3 DEF Is
      <3>2. Named(r) \subseteq AnyColumn
        BY <1>1, SomeColumns DEF Named, BodyOK
      <3>3. /\ preq'[o] \in PatchRecords /\ preq'[o].pc = "write" /\ preq'[o].id = preq[o].id
            /\ preq'[o].body = preq[o].body /\ preq'[o].copy = preq[o].copy
            /\ preq'[o].missed = preq[o].missed \cup Named(r)
        BY <2>1, <2>3, <3>1, <3>2 DEF PatchRecords
      <3>4. KnowsColumns(preq[o])'
        <4> SUFFICES ASSUME About(preq[o])', NEW c \in Columns
                     PROVE  preq'[o].copy[c] = want'[c] \/ c \in lost' \/ c \in preq'[o].missed
          BY <1>8 DEF KnowsColumns
        <4>1. preq[o].copy[c] = want[c] \/ c \in lost \/ c \in preq[o].missed
          BY <1>1, <1>5, <2>1, <2>3, <3>3 DEF RequestOK, KnowsColumns, About
        <4> QED
          BY <1>4, <1>6, <3>3, <4>1
      <3> QED
        BY <1>5, <1>8, <2>1, <3>3, <3>4 DEF RequestOK, BodyOK, HasWritten, Showed
    <2>4. CASE o # r /\ preq[o].pc = "reload"
      <3> DEFINE changed == {c \in Columns : Updated(r)[c] # rec.cols[c]}
      <3>1. preq'[o] = [preq[o] EXCEPT !.over = @ \cup changed]
        BY <1>2, <1>4, <2>4 DEF Is
      <3>2. changed \subseteq AnyColumn
        BY <1>1, SomeColumns
      <3>3. /\ preq'[o] \in PatchRecords /\ preq'[o].pc = "reload" /\ preq'[o].id = preq[o].id
            /\ preq'[o].body = preq[o].body /\ preq'[o].applied = preq[o].applied
            /\ preq'[o].over = preq[o].over \cup changed
        BY <2>1, <2>4, <3>1, <3>2 DEF PatchRecords
      <3>4. HasWritten(preq[o])'
        <4> SUFFICES ASSUME About(preq[o])'
                     PROVE  /\ preq'[o].applied
                            /\ \A c \in DOMAIN preq'[o].body : preq'[o].body[c] # Unset =>
                                  rec'.cols[c] = preq'[o].body[c] \/ c \in preq'[o].over
          BY DEF HasWritten
        <4>1. /\ preq[o].applied
              /\ \A c \in DOMAIN preq[o].body : preq[o].body[c] # Unset =>
                    rec.cols[c] = preq[o].body[c] \/ c \in preq[o].over
          BY <1>1, <1>5, <2>1, <2>4, <3>3 DEF RequestOK, HasWritten, About
        <4>2. DOMAIN preq[o].body \subseteq Columns
          BY <2>1 DEF RequestOK, BodyOK
        <4> QED
          BY <1>5, <3>3, <4>1, <4>2
      <3> QED
        BY <1>5, <1>8, <2>1, <3>3, <3>4 DEF RequestOK, BodyOK, KnowsColumns, Showed
    <2>5. CASE o # r /\ preq[o].pc \notin {"write", "reload"}
      <3>1. preq'[o] = preq[o]
        BY <1>2, <1>4, <2>5 DEF Is
      <3> QED
        BY <1>5, <1>8, <2>1, <2>5, <3>1 DEF RequestOK, BodyOK, KnowsColumns, HasWritten, Showed
    <2> QED
      BY <2>2, <2>3, <2>4, <2>5
  <1>10. preq' \in [Patches -> PatchRecords]
    BY <1>4, <1>9
  <1> QED
    BY <1>1, <1>5, <1>6, <1>7, <1>8, <1>9, <1>10 DEF SettingsInv, LastPatchWins

\* The write of r, whatever becomes of it.
LEMMA PatchWrite ==
  ASSUME SettingsInv, NEW r \in Patches, WriteRow(r)
  PROVE  SettingsInv'
  <1>1. CASE Hits(r) /\ (Writes(r, Step(r, "reload")) \/ Writes(r, Out(r, "refused")))
    BY <1>1, Writing DEF WriteRow
  <1>2. CASE ~Hits(r) /\ preq' = Step(r, "reload") /\ UNCHANGED <<rec, want, lost>>
    <2> DEFINE q == [preq[r] EXCEPT !.pc = "reload"]
    <2>1. preq \in [Patches -> PatchRecords] /\ RequestOK(preq[r]) /\ preq[r] \in PatchRecords
      BY DEF SettingsInv
    <2>2. Selects([preq EXCEPT ![r] = q])
      BY <1>2, <2>1 DEF Selects, Step, WriteRow
    <2>3. q \in PatchRecords /\ q.pc = "reload" /\ q.id = preq[r].id /\ q.body = preq[r].body
      BY <2>1 DEF PatchRecords, SettingsSteps
    <2>4. ~About(q)
      BY <1>2, <2>3 DEF About, Hits, Selected
    <2>5. RequestOK(q)
      BY <2>1, <2>3, <2>4 DEF RequestOK, BodyOK, KnowsColumns, HasWritten, Showed
    <2> HIDE DEF q
    <2> QED
      BY <2>2, <2>5, Selecting
  <1>3. CASE preq' = Out(r, "refused") /\ UNCHANGED <<rec, want, lost>>
    BY <1>3, PatchMove DEF Selects, WriteRow
  <1> QED
    BY <1>1, <1>2, <1>3 DEF WriteRow

\* What happens to the row beside the patches leaves the requests alone but
\* for what they are told was written over; ids only grow.
LEMMA Elsewhere ==
  ASSUME SettingsInv, UNCHANGED <<tab, want, preq>>, lost \subseteq lost',
         rec' \in [state : {"live", "trash", "gone"}, id : Nat, cols : ColumnRows],
         rec'.id = rec.id, rec'.state = "live" => rec'.cols = rec.cols /\ rec.state = "live",
         uploading' => uploading
  PROVE  SettingsInv'
  <1>1. Columns' = Columns /\ ColumnRows' = ColumnRows /\ PatchRecords' = PatchRecords
    BY SameTable
  <1>2. ASSUME NEW o \in Patches PROVE RequestOK(preq[o])'
    <2>1. RequestOK(preq[o])
      BY DEF SettingsInv
    <2> QED
      BY <1>1, <2>1 DEF RequestOK, BodyOK, KnowsColumns, HasWritten, Showed, About
  <1>3. LastPatchWins'
    BY <1>1 DEF SettingsInv, LastPatchWins
  <1> QED
    BY <1>1, <1>2, <1>3 DEF SettingsInv

\* The row goes, to the trash or for good.
LEMMA RowRemoved ==
  ASSUME SettingsInv, RemoveRow
  PROVE  SettingsInv'
  <1>1. /\ rec' \in [state : {"live", "trash", "gone"}, id : Nat, cols : ColumnRows]
        /\ rec'.id = rec.id /\ rec'.state # "live"
    BY DEF SettingsInv, RemoveRow
  <1> QED
    BY <1>1, Elsewhere DEF RemoveRow

\* The upload writes the path it began with over what a patch put there.
LEMMA RowPublished ==
  ASSUME SettingsInv, PublishRow
  PROVE  SettingsInv'
  <1>1. /\ Columns' = Columns /\ ColumnRows' = ColumnRows /\ PatchRecords' = PatchRecords
        /\ Initial \in Values /\ "virtual_path" \in Columns /\ "virtual_path" \in AnyColumn
    BY SameTable, SomeColumns, SettingsAssumption
       DEF SettingsInv, PublishRow, SettingsAssumption
  <1>2. /\ rec' \in [state : {"live", "trash", "gone"}, id : Nat, cols : ColumnRows]
        /\ rec'.id = rec.id /\ rec'.state = rec.state
        /\ \A c \in Columns : c # "virtual_path" => rec'.cols[c] = rec.cols[c]
        /\ rec'.cols["virtual_path"] = Initial
    BY <1>1 DEF SettingsInv, PublishRow, ColumnRows
  <1>3. /\ lost \subseteq lost'
        /\ rec.cols["virtual_path"] = Initial \/ "virtual_path" \in lost'
    BY DEF PublishRow
  <1>4. LastPatchWins'
    BY <1>1, <1>2, <1>3 DEF SettingsInv, LastPatchWins, PublishRow
  <1>5. ASSUME NEW o \in Patches
        PROVE  preq'[o] \in PatchRecords /\ RequestOK(preq[o])'
    <2>1. RequestOK(preq[o]) /\ preq[o] \in PatchRecords
      BY DEF SettingsInv, RequestOK
    <2>2. CASE preq[o].pc = "reload"
      <3>1. preq'[o] = [preq[o] EXCEPT !.over = @ \cup {"virtual_path"}]
        BY <2>2 DEF PublishRow, Is
      <3>2. /\ preq'[o] \in PatchRecords /\ preq'[o].pc = "reload" /\ preq'[o].id = preq[o].id
            /\ preq'[o].body = preq[o].body /\ preq'[o].applied = preq[o].applied
            /\ preq'[o].over = preq[o].over \cup {"virtual_path"}
        BY <1>1, <2>1, <2>2, <3>1 DEF PatchRecords
      <3>3. DOMAIN preq[o].body \subseteq Columns
        BY <2>1 DEF RequestOK, BodyOK
      <3>4. HasWritten(preq[o])'
        BY <1>1, <1>2, <2>1, <2>2, <3>2, <3>3 DEF RequestOK, HasWritten, About
      <3> QED
        BY <1>1, <1>2, <2>1, <3>2, <3>4 DEF RequestOK, BodyOK, KnowsColumns, Showed
    <2>3. CASE preq[o].pc # "reload"
      <3>1. preq'[o] = preq[o] /\ want' = want
        BY <2>3 DEF PublishRow, Is
      <3>2. KnowsColumns(preq[o])'
        BY <1>1, <1>2, <1>3, <2>1, <3>1 DEF RequestOK, KnowsColumns, About
      <3> QED
        BY <1>1, <1>2, <2>1, <2>3, <3>1, <3>2 DEF RequestOK, BodyOK, HasWritten, Showed
    <2> QED
      BY <2>2, <2>3
  <1>6. preq' \in [Patches -> PatchRecords]
    <2>1. DOMAIN preq' = Patches /\ preq' = [r \in Patches |-> preq'[r]]
      BY DEF PublishRow
    <2> QED
      BY <1>5, <2>1
  <1> QED
    BY <1>1, <1>2, <1>4, <1>5, <1>6 DEF SettingsInv, PublishRow

\* A new grant has an id no request has.
LEMMA GrantInserted ==
  ASSUME SettingsInv, NEW v \in Values, InsertGrant(v)
  PROVE  SettingsInv'
  <1>1. /\ Columns' = Columns /\ ColumnRows' = ColumnRows /\ PatchRecords' = PatchRecords
    BY SameTable DEF InsertGrant
  <1>2. /\ rec' \in [state : {"live", "trash", "gone"}, id : Nat, cols : ColumnRows]
        /\ rec'.id = rec.id + 1 /\ want' = rec'.cols /\ want' \in ColumnRows /\ preq' = preq
        /\ uploading' = uploading /\ tab' = tab
    BY DEF SettingsInv, InsertGrant, ColumnRows
  <1>3. ASSUME NEW o \in Patches PROVE RequestOK(preq[o])'
    <2>1. RequestOK(preq[o]) /\ preq[o].id \in Nat /\ rec.id \in Nat
      BY DEF SettingsInv, PatchRecords
    <2>2. preq[o].id <= rec'.id /\ preq[o].id # rec'.id
      BY <1>2, <2>1 DEF RequestOK
    <2> QED
      BY <1>1, <1>2, <2>1, <2>2 DEF RequestOK, BodyOK, KnowsColumns, HasWritten, Showed, About
  <1> QED
    BY <1>1, <1>2, <1>3 DEF SettingsInv, LastPatchWins

\* Each step keeps the invariant.
LEMMA SettingsStep ==
  ASSUME SettingsInv, SettingsNext
  PROVE  SettingsInv'
  <1>1. ASSUME NEW r \in Patches, Check(r) PROVE SettingsInv'
    BY <1>1, PatchMove DEF Check
  <1>2. ASSUME NEW r \in Patches, PatchStep(r) PROVE SettingsInv'
    BY <1>1, <1>2, PatchLoad, PatchWrite, PatchReload DEF PatchStep
  <1> QED
    BY <1>2, PatchAsk, RowRemoved, RowPublished, GrantInserted DEF SettingsNext

(* The inductive invariant of patches: a request between its read and its    *)
(* write holds of every column what was last named, has missed who named it, *)
(* or the column is lost already (files.go, storage.go, storageuser.go).     *)
THEOREM SettingsInvariance == SettingsSpec => []SettingsInv
  <1>1. SettingsInit => SettingsInv
    BY SettingsStart
  <1>2. SettingsInv /\ [SettingsNext]_settingsVars => SettingsInv'
    <2> SUFFICES ASSUME SettingsInv, [SettingsNext]_settingsVars PROVE SettingsInv'
      OBVIOUS
    <2>1. CASE SettingsNext
      BY <2>1, SettingsStep
    <2>2. CASE UNCHANGED settingsVars
      <3>1. UNCHANGED <<tab, rec, uploading, preq, want, lost>>
        BY <2>2 DEF settingsVars
      <3>2. rec \in [state : {"live", "trash", "gone"}, id : Nat, cols : ColumnRows]
        BY DEF SettingsInv
      <3>3. rec' \in [state : {"live", "trash", "gone"}, id : Nat, cols : ColumnRows]
        BY <3>1, <3>2
      <3> QED
        BY <3>1, <3>3, Elsewhere
    <2> QED
      BY <2>1, <2>2
  <1> QED
    BY <1>1, <1>2, PTL DEF SettingsSpec

(* A column holds what the last request naming it wrote, but for a request   *)
(* that overlapped it or the upload that publishes, for any number of        *)
(* requests.                                                                 *)
THEOREM LastPatch == SettingsSpec => []LastPatchWins
  <1>1. SettingsInv => LastPatchWins
    BY DEF SettingsInv
  <1> QED
    BY <1>1, SettingsInvariance, PTL

(* A patch answered with a row was applied, and the answer shows it.         *)
THEOREM PatchAnswers == SettingsSpec => []AnsweredIsApplied
  <1>1. SettingsInv => AnsweredIsApplied
    <2> SUFFICES ASSUME SettingsInv, NEW r \in Patches, Is(r, "done"), preq[r].out = "row"
                 PROVE  /\ preq[r].applied
                        /\ \A c \in Named(r) : preq[r].copy[c] = preq[r].body[c] \/ c \in preq[r].over
      BY DEF AnsweredIsApplied
    <2>1. Showed(preq[r])
      BY DEF SettingsInv, RequestOK
    <2> QED
      BY <2>1 DEF Showed, Is, Named
  <1> QED
    BY <1>1, SettingsInvariance, PTL

(* A patch under way writes nothing to a row trashed or made anew since.     *)
THEOREM RemovedStays == SettingsSpec => RemovedRowsStay
  <1> DEFINE Stays ==
        /\ rec.state # "live" /\ rec'.state = rec.state /\ ~(uploading /\ ~uploading')
              => rec'.cols = rec.cols
        /\ rec'.cols # rec.cols /\ rec.state = "live"
              => \/ uploading /\ ~uploading'
                 \/ \E r \in Patches : Is(r, "write") /\ preq[r].id = rec.id
  <1>1. SettingsInv /\ [SettingsNext]_settingsVars => [Stays]_settingsVars
    <2> SUFFICES ASSUME SettingsInv, SettingsNext PROVE Stays
      OBVIOUS
    <2>1. CASE UNCHANGED rec
      BY <2>1
    <2>2. ASSUME NEW r \in Patches, WriteRow(r), rec' # rec PROVE Stays
      BY <2>2 DEF WriteRow, Hits, Selected, Writes
    <2>3. ASSUME NEW r \in Patches, Check(r) \/ LoadRow(r) \/ ReloadRow(r) PROVE UNCHANGED rec
      BY <2>3 DEF Check, LoadRow, ReloadRow, Selects
    <2>4. CASE PublishRow
      BY <2>4 DEF PublishRow
    <2>5. CASE RemoveRow
      BY <2>5 DEF RemoveRow, SettingsInv
    <2>6. CASE \E v \in Values : InsertGrant(v)
      BY <2>6 DEF InsertGrant, SettingsInv
    <2>7. ASSUME NEW r \in Patches, NEW names, NEW nulls, NEW v, NEW id, AskPatch(r, names, v, nulls, id)
          PROVE UNCHANGED rec
      BY <2>7 DEF AskPatch, Selects
    <2> QED
      BY <2>1, <2>2, <2>3, <2>4, <2>5, <2>6, <2>7 DEF SettingsNext, PatchStep
  <1> QED
    BY <1>1, SettingsInvariance, PTL DEF SettingsSpec, RemovedRowsStay

(* What a request asked for and was told: an id there has been, and columns  *)
(* of the table.                                                             *)
Within(q) == q.id \in 1..MaxRows /\ q.missed \subseteq Columns /\ q.over \subseteq Columns

SettingsBounds ==
    /\ rec.id \in 1..MaxRows /\ lost \subseteq Columns /\ uploading \in BOOLEAN
    /\ \A r \in Patches : Within(preq[r])

\* A step of r that reads at most: what it becomes is within the bounds.
LEMMA BoundsSelect ==
  ASSUME SettingsInv, SettingsBounds, NEW r \in Patches,
         NEW q, Selects([preq EXCEPT ![r] = q]), Within(q)
  PROVE  SettingsBounds'
  BY SameTable DEF SettingsInv, SettingsBounds, Selects, Within

\* Steps of a request that read at most.
LEMMA BoundsMove ==
  ASSUME SettingsInv, SettingsBounds, NEW r \in Patches, Check(r) \/ LoadRow(r) \/ ReloadRow(r)
  PROVE  SettingsBounds'
  <1>0. preq \in [Patches -> PatchRecords] /\ preq[r] \in PatchRecords /\ Within(preq[r])
    BY DEF SettingsInv, SettingsBounds
  <1>1. ASSUME NEW step, Selects(Step(r, step)) PROVE SettingsBounds'
    <2>1. Step(r, step) = [preq EXCEPT ![r] = [preq[r] EXCEPT !.pc = step]]
      BY <1>0 DEF Step
    <2>2. Within([preq[r] EXCEPT !.pc = step])
      BY <1>0 DEF Within, PatchRecords
    <2> QED
      BY <1>1, <2>1, <2>2, BoundsSelect
  <1>2. ASSUME NEW outcome, Selects(Out(r, outcome)) PROVE SettingsBounds'
    <2>1. Out(r, outcome) =
            [preq EXCEPT ![r] = [preq[r] EXCEPT !.pc = "done", !.out = outcome, !.missed = {}]]
      BY <1>0 DEF Out
    <2>2. Within([preq[r] EXCEPT !.pc = "done", !.out = outcome, !.missed = {}])
      BY <1>0 DEF Within, PatchRecords
    <2> QED
      BY <1>2, <2>1, <2>2, BoundsSelect
  <1>3. ASSUME Selects([Step(r, "write") EXCEPT ![r].copy = rec.cols]) PROVE SettingsBounds'
    <2>1. [Step(r, "write") EXCEPT ![r].copy = rec.cols] =
            [preq EXCEPT ![r] = [preq[r] EXCEPT !.pc = "write", !.copy = rec.cols]]
      BY <1>0 DEF Step, PatchRecords
    <2>2. Within([preq[r] EXCEPT !.pc = "write", !.copy = rec.cols])
      BY <1>0 DEF Within, PatchRecords
    <2> QED
      BY <1>3, <2>1, <2>2, BoundsSelect
  <1>4. ASSUME Selects([Out(r, "row") EXCEPT ![r].copy = rec.cols]) PROVE SettingsBounds'
    <2> DEFINE q == [preq[r] EXCEPT !.pc = "done", !.out = "row", !.missed = {}, !.copy = rec.cols]
    <2>1. [Out(r, "row") EXCEPT ![r].copy = rec.cols] = [preq EXCEPT ![r] = q]
      BY <1>0 DEF Out, PatchRecords
    <2>2. Within(q)
      BY <1>0 DEF Within, PatchRecords
    <2> HIDE DEF q
    <2> QED
      BY <1>4, <2>1, <2>2, BoundsSelect
  <1> QED
    BY <1>1, <1>2, <1>3, <1>4 DEF Check, LoadRow, ReloadRow

\* A new request asks for an id there has been, and has missed nothing.
LEMMA BoundsAsk ==
  ASSUME SettingsInv, SettingsBounds, NEW r \in Patches, NEW names \in SUBSET Columns,
         NEW nulls \in SUBSET {"media"}, NEW v \in Values, NEW id \in 1..MaxRows,
         AskPatch(r, names, v, nulls, id)
  PROVE  SettingsBounds'
  <1> DEFINE q == Request(IF tab = "file" THEN "check" ELSE "load", id,
                          [c \in names |-> IF c \in nulls THEN Unset ELSE v], rec.cols)
  <1>1. Selects([preq EXCEPT ![r] = q])
    BY DEF AskPatch
  <1>2. Within(q)
    BY DEF Within, Request
  <1> HIDE DEF q
  <1> QED
    BY <1>1, <1>2, BoundsSelect

\* The write of r tells the others what it named or changed.
LEMMA BoundsWrite ==
  ASSUME SettingsInv, SettingsBounds, NEW r \in Patches, WriteRow(r)
  PROVE  SettingsBounds'
  <1>0. /\ preq \in [Patches -> PatchRecords] /\ \A o \in Patches : preq[o] \in PatchRecords /\ Within(preq[o])
        /\ rec \in [state : {"live", "trash", "gone"}, id : Nat, cols : ColumnRows]
        /\ Columns' = Columns /\ Named(r) \subseteq Columns /\ uploading' \in BOOLEAN
    BY SameTable DEF SettingsInv, SettingsBounds, RequestOK, BodyOK, Named, WriteRow
  <1>1. ASSUME NEW q, q \in {Step(r, "reload"), Out(r, "refused")} PROVE
               \A o \in Patches : /\ Within(q[o]) /\ DOMAIN q[o] = DOMAIN preq[o]
    <2>1. ASSUME NEW o \in Patches PROVE Within(Step(r, "reload")[o]) /\ DOMAIN Step(r, "reload")[o] = DOMAIN preq[o]
      BY <1>0 DEF Step, Within, PatchRecords
    <2>2. ASSUME NEW o \in Patches PROVE Within(Out(r, "refused")[o]) /\ DOMAIN Out(r, "refused")[o] = DOMAIN preq[o]
      BY <1>0 DEF Out, Within, PatchRecords
    <2> QED
      BY <1>1, <2>1, <2>2
  <1>2. ASSUME NEW q, q \in {Step(r, "reload"), Out(r, "refused")}, Writes(r, q) PROVE SettingsBounds'
    <2>1. ASSUME NEW o \in Patches PROVE Within(preq[o])'
      <3>1. /\ Within(q[o])
            /\ DOMAIN q[o] = {"pc", "id", "body", "copy", "out", "applied", "missed", "over"}
        BY <1>0, <1>1, <1>2 DEF PatchRecords
      <3>2. preq'[o] = IF o = r THEN [q[r] EXCEPT !.applied = TRUE]
                  ELSE IF Is(o, "write") THEN [q[o] EXCEPT !.missed = @ \cup Named(r)]
                  ELSE IF Is(o, "reload")
                       THEN [q[o] EXCEPT !.over = @ \cup {c \in Columns : Updated(r)[c] # rec.cols[c]}]
                  ELSE q[o]
        BY <1>2 DEF Writes
      <3> QED
        BY <1>0, <3>1, <3>2 DEF Within
    <2>2. rec'.id = rec.id
      BY <1>0, <1>2 DEF Writes
    <2>3. lost' \subseteq Columns
      BY <1>0, <1>2 DEF Writes, SettingsBounds, Within
    <2> QED
      BY <1>0, <2>1, <2>2, <2>3 DEF SettingsBounds
  <1>3. ASSUME NEW q, q \in {Step(r, "reload"), Out(r, "refused")}, preq' = q, UNCHANGED <<rec, want, lost>>
        PROVE  SettingsBounds'
    BY <1>0, <1>1, <1>3 DEF SettingsBounds, Within
  <1> QED
    BY <1>2, <1>3 DEF WriteRow

\* What else happens to the row: it is published, it goes, or a grant is made.
LEMMA BoundsElse ==
  ASSUME SettingsInv, SettingsBounds, PublishRow \/ RemoveRow \/ \E v \in Values : InsertGrant(v)
  PROVE  SettingsBounds'
  <1>0. /\ preq \in [Patches -> PatchRecords] /\ \A o \in Patches : preq[o] \in PatchRecords /\ Within(preq[o])
        /\ rec \in [state : {"live", "trash", "gone"}, id : Nat, cols : ColumnRows]
        /\ rec.id \in 1..MaxRows /\ MaxRows \in Nat
        /\ Columns' = Columns /\ (tab = "file" => "virtual_path" \in Columns)
    BY SameTable, SomeColumns, SettingsAssumption
       DEF SettingsAssumption, SettingsInv, SettingsBounds, PublishRow, RemoveRow, InsertGrant
  <1>1. CASE PublishRow
    <2>1. "virtual_path" \in Columns
      BY <1>0, <1>1 DEF PublishRow, SettingsInv
    <2>2. ASSUME NEW o \in Patches PROVE Within(preq[o])'
      <3>1. preq'[o] = IF Is(o, "reload") THEN [preq[o] EXCEPT !.over = @ \cup {"virtual_path"}]
                       ELSE preq[o]
        BY <1>1 DEF PublishRow
      <3> QED
        BY <1>0, <2>1, <3>1 DEF Within, PatchRecords
    <2>3. rec'.id = rec.id /\ lost' \subseteq lost \cup {"virtual_path"} /\ uploading' \in BOOLEAN
      BY <1>0, <1>1 DEF PublishRow
    <2> QED
      BY <1>0, <2>1, <2>2, <2>3 DEF SettingsBounds
  <1>2. CASE RemoveRow
    <2>1. rec'.id = rec.id /\ preq' = preq /\ lost' = lost /\ uploading' = uploading
      BY <1>0, <1>2 DEF RemoveRow
    <2> QED
      BY <1>0, <2>1 DEF SettingsBounds, Within
  <1>3. CASE \E v \in Values : InsertGrant(v)
    <2>1. rec'.id = rec.id + 1 /\ rec.id < MaxRows /\ preq' = preq /\ lost' = {} /\ uploading' = uploading
      BY <1>3 DEF InsertGrant
    <2> QED
      BY <1>0, <2>1 DEF SettingsBounds, Within
  <1> QED
    BY <1>1, <1>2, <1>3

(* Each variable of the patches keeps its type: in particular a request asks *)
(* for a row there has been, and only columns of its table are ever lost.    *)
THEOREM SettingsTypes == SettingsSpec => []SettingsTypeOK
  <1>1. SettingsInit => SettingsBounds
    BY SettingsAssumption DEF SettingsAssumption, SettingsInit, SettingsBounds, Within, Request
  <1>2. SettingsInv /\ SettingsBounds /\ [SettingsNext]_settingsVars => SettingsBounds'
    <2>1. ASSUME SettingsBounds, UNCHANGED settingsVars PROVE SettingsBounds'
      BY <2>1, SameTable DEF settingsVars, SettingsBounds, Within
    <2> QED
      BY <2>1, BoundsMove, BoundsAsk, BoundsWrite, BoundsElse DEF SettingsNext, PatchStep
  <1>3. SettingsInv /\ SettingsBounds => SettingsTypeOK
    <2> SUFFICES ASSUME SettingsInv, SettingsBounds PROVE SettingsTypeOK
      OBVIOUS
    <2>1. /\ rec \in [state : {"live", "trash", "gone"}, id : 1..MaxRows,
                      cols : [Columns -> Values \cup {Unset}]]
      BY DEF SettingsInv, SettingsBounds, ColumnRows
    <2>2. ASSUME NEW r \in Patches
          PROVE  /\ preq[r].pc \in SettingsSteps /\ preq[r].id \in 1..MaxRows
                 /\ preq[r].body \in UNION {[names -> Values \cup {Unset}] : names \in SUBSET Columns}
                 /\ preq[r].copy \in [Columns -> Values \cup {Unset}]
                 /\ preq[r].out \in Outcomes
                 /\ preq[r].missed \subseteq Columns /\ preq[r].over \subseteq Columns
      <3>1. preq[r] \in PatchRecords /\ Within(preq[r])
        BY DEF SettingsInv, SettingsBounds
      <3> QED
        BY <3>1, Zenon DEF PatchRecords, Within, ColumnRows
    <2>3. /\ tab \in Tables /\ uploading \in BOOLEAN
          /\ want \in [Columns -> Values \cup {Unset}] /\ lost \subseteq Columns
      BY DEF SettingsInv, SettingsBounds, ColumnRows
    <2> QED
      BY <2>1, <2>2, <2>3 DEF SettingsTypeOK
  <1> QED
    BY <1>1, <1>2, <1>3, SettingsInvariance, PTL DEF SettingsSpec

-----------------------------------------------------------------------------
(* ImageResizer. *)

Copies == [box : Boxes, w : Nat, h : Nat, tag : 1..6]

(* What the run's invariants say of one copy. *)
CopyOK(c) ==
    /\ c.w \in 1..image[1] /\ c.h \in 1..image[2]
    /\ c.tag <= TagOf(image[1], image[2])
    /\ IF image[2] > image[1] THEN c.w = c.box[1] ELSE c.h = c.box[2]
    /\ LET shorter == IF image[2] > image[1] THEN image[1] ELSE image[2] IN
       2 * (c.w * image[2] - c.h * image[1]) \in -shorter..shorter

ResizerInv ==
    /\ image \in Sides \X Sides
    /\ boxes \in Seq(Boxes)
    /\ copies \in Seq(Copies)
    /\ \A i \in 1..Len(copies) : CopyOK(copies[i])

\* A product grows with its factor.
LEMMA ProductGrows ==
  ASSUME NEW i \in Int, NEW j \in Int, NEW k \in Nat, i <= j
  PROVE  i * k <= j * k /\ k * i <= k * j /\ i * k \in Int
  OBVIOUS

\* What is rounded is within half a pixel of the product.
LEMMA RoundedIs ==
  ASSUME NEW p \in Nat \ {0}, NEW a \in Nat \ {0}, NEW b \in Nat \ {0}, NEW r \in Rounded(p, a, b)
  PROVE  r \in Int /\ 2 * (r * b - p * a) \in -b..b
  <1>1. p * a \in Nat
    OBVIOUS
  <1>2. (p * a) \div b \in Int
    BY <1>1
  <1>3. r \in {(p * a) \div b, (p * a) \div b + 1} /\ 2 * (r * b - p * a) \in -b..b
    BY DEF Rounded
  <1> QED
    BY <1>2, <1>3

\* The shorter side of an image becomes that of the box.
LEMMA ShorterIsExact ==
  ASSUME NEW a \in Nat \ {0}, NEW b \in Nat \ {0}, NEW r \in Rounded(b, a, b)
  PROVE  r = a
  <1>1. r \in Int /\ 2 * (r * b - b * a) \in -b..b
    BY RoundedIs
  <1>2. r * b \in Int /\ b * a \in Int /\ a * b = b * a
    BY <1>1, ProductGrows
  <1>3. (a + 1) * b = b * a + b /\ (a - 1) * b = b * a - b
    BY <1>2
  <1>4. CASE r > a
    <2>1. (a + 1) * b <= r * b
      BY <1>1, <1>4, ProductGrows
    <2> QED
      BY <1>1, <1>2, <1>3, <2>1
  <1>5. CASE r < a
    <2>1. r * b <= (a - 1) * b
      BY <1>1, <1>5, ProductGrows
    <2> QED
      BY <1>1, <1>2, <1>3, <2>1
  <1> QED
    BY <1>1, <1>4, <1>5

\* The longer side keeps a pixel at least.
LEMMA LongerHasPixels ==
  ASSUME NEW a \in Nat \ {0}, NEW b \in Nat \ {0}, NEW p \in Nat \ {0}, p >= b,
         NEW r \in Rounded(p, a, b)
  PROVE  r >= 1
  <1>1. r \in Int /\ 2 * (r * b - p * a) \in -b..b
    BY RoundedIs
  <1>2. p * 1 <= p * a /\ p * 1 = p /\ p * a \in Int /\ r * b \in Int
    BY <1>1, ProductGrows
  <1>3. CASE r <= 0
    <2>1. r * b <= 0 * b /\ 0 * b = 0
      BY <1>1, <1>3, ProductGrows
    <2> QED
      BY <1>1, <1>2, <2>1
  <1> QED
    BY <1>1, <1>3

\* Every image has one tag, that of the greatest least sides it reaches.
LEMMA TagIs ==
  ASSUME NEW w \in Nat, NEW h \in Nat
  PROVE  /\ TagOf(w, h) \in 1..6
         /\ w >= LeastOf[TagOf(w, h)][1] /\ h >= LeastOf[TagOf(w, h)][2]
         /\ \A s \in TagOf(w, h) + 1..6 : w < LeastOf[s][1] \/ h < LeastOf[s][2]
  <1> DEFINE Fits(t) == w >= LeastOf[t][1] /\ h >= LeastOf[t][2]
             Last(t) == Fits(t) /\ \A s \in t + 1..6 : ~Fits(s)
  <1>1. \A t \in 1..6 : LeastOf[t][1] \in Int /\ LeastOf[t][2] \in Int
    BY DEF LeastOf
  <1>2. Fits(1)
    BY DEF LeastOf
  <1> HIDE DEF Fits
  <1>3. \E t \in 1..6 : Last(t)
    <2>1. CASE Fits(6)
      BY <2>1
    <2>2. CASE ~Fits(6) /\ Fits(5)
      BY <2>2
    <2>3. CASE ~Fits(6) /\ ~Fits(5) /\ Fits(4)
      BY <2>3
    <2>4. CASE ~Fits(6) /\ ~Fits(5) /\ ~Fits(4) /\ Fits(3)
      BY <2>4
    <2>5. CASE ~Fits(6) /\ ~Fits(5) /\ ~Fits(4) /\ ~Fits(3) /\ Fits(2)
      BY <2>5
    <2>6. CASE ~Fits(6) /\ ~Fits(5) /\ ~Fits(4) /\ ~Fits(3) /\ ~Fits(2)
      BY <1>2, <2>6
    <2> QED
      BY <2>1, <2>2, <2>3, <2>4, <2>5, <2>6
  <1>4. \A s \in 1..6 : ~Fits(s) <=> w < LeastOf[s][1] \/ h < LeastOf[s][2]
    BY <1>1 DEF Fits
  <1>5. \A t \in 1..6 : \A s \in t + 1..6 : s \in 1..6
    OBVIOUS
  <1>6. \A t \in 1..6 : Last(t) <=>
           /\ w >= LeastOf[t][1] /\ h >= LeastOf[t][2]
           /\ \A s \in t + 1..6 : w < LeastOf[s][1] \/ h < LeastOf[s][2]
    BY <1>4, <1>5 DEF Fits
  <1> QED
    BY <1>3, <1>6 DEF TagOf

\* A smaller image has no higher tag.
LEMMA TagGrows ==
  ASSUME NEW v \in Nat, NEW g \in Nat, NEW w \in Nat, NEW h \in Nat, v <= w, g <= h
  PROVE  TagOf(v, g) <= TagOf(w, h)
  <1> DEFINE t == TagOf(v, g)
             s == TagOf(w, h)
  <1>1. t \in 1..6 /\ s \in 1..6 /\ v >= LeastOf[t][1] /\ g >= LeastOf[t][2]
    BY TagIs
  <1>2. \A n \in s + 1..6 : w < LeastOf[n][1] \/ h < LeastOf[n][2]
    BY TagIs
  <1>3. LeastOf[t][1] \in Int /\ LeastOf[t][2] \in Int
    BY <1>1 DEF LeastOf
  <1> HIDE DEF t, s
  <1>4. t > s => t \in s + 1..6
    BY <1>1
  <1> QED
    BY <1>1, <1>2, <1>3, <1>4 DEF t, s

\* What the dimensions computed for a box are.
LEMMA DimensionsFit ==
  ASSUME NEW w \in Nat \ {0}, NEW h \in Nat \ {0}, NEW box \in Boxes,
         NEW d \in NewDimensions(w, h, box)
  PROVE  /\ d[1] \in Nat \ {0} /\ d[2] \in Nat \ {0}
         /\ IF h > w THEN d[1] = box[1] ELSE d[2] = box[2]
         /\ LET shorter == IF h > w THEN w ELSE h IN
            2 * (d[1] * h - d[2] * w) \in -shorter..shorter
  <1>0. box[1] \in Nat \ {0} /\ box[2] \in Nat \ {0}
    BY DEF Boxes
  <1>1. CASE h > w
    <2>1. d[1] \in Rounded(w, box[1], w) /\ d[2] \in Rounded(h, box[1], w)
      BY <1>1 DEF NewDimensions
    <2>2. d[1] = box[1] /\ d[2] \in Int /\ d[2] >= 1 /\ 2 * (d[2] * w - h * box[1]) \in -w..w
      BY <1>0, <1>1, <2>1, ShorterIsExact, LongerHasPixels, RoundedIs
    <2>3. d[2] * w \in Int /\ h * box[1] \in Int /\ d[1] * h = h * box[1]
      BY <1>0, <2>2
    <2>4. 2 * (d[1] * h - d[2] * w) \in -w..w
      BY <2>2, <2>3
    <2> QED
      BY <1>0, <1>1, <2>2, <2>4
  <1>2. CASE ~(h > w)
    <2>1. d[1] \in Rounded(w, box[2], h) /\ d[2] \in Rounded(h, box[2], h)
      BY <1>2 DEF NewDimensions
    <2>2. d[2] = box[2] /\ d[1] \in Int /\ d[1] >= 1 /\ 2 * (d[1] * h - w * box[2]) \in -h..h
      BY <1>0, <1>2, <2>1, ShorterIsExact, LongerHasPixels, RoundedIs
    <2>3. d[1] * h \in Int /\ w * box[2] \in Int /\ d[2] * w = w * box[2]
      BY <1>0, <2>2
    <2> QED
      BY <1>0, <1>2, <2>2, <2>3
  <1> QED
    BY <1>1, <1>2

LEMMA ResizerStart ==
  ASSUME ResizerInit
  PROVE  ResizerInv
  <1>1. PICK n \in 0..MaxEntries : boxes \in [1..n -> {e \in Entries : IsBox(e)}]
    BY DEF ResizerInit
  <1>2. \A e \in Entries : IsBox(e) => e \in Boxes
    BY ResizerAssumption DEF IsBox, Boxes
  <1>3. boxes \in [1..n -> Boxes] /\ n \in Nat
    BY <1>1, <1>2, ResizerAssumption
  <1>4. boxes \in Seq(Boxes)
    BY <1>3
  <1> QED
    BY <1>4 DEF ResizerInit, ResizerInv

LEMMA ResizeKeeps ==
  ASSUME ResizerInv, Resize
  PROVE  ResizerInv'
  <1> DEFINE w == image[1]
             h == image[2]
             box == Head(boxes)
             New(d) == [box |-> box, w |-> d[1], h |-> d[2], tag |-> TagOf(d[1], d[2])]
  <1>1. /\ boxes # <<>> /\ boxes \in Seq(Boxes) /\ boxes' = Tail(boxes) /\ image' = image
        /\ copies \in Seq(Copies)
    BY DEF Resize, ResizerInv
  <1>2. w \in Nat \ {0} /\ h \in Nat \ {0} /\ box \in Boxes /\ boxes' \in Seq(Boxes)
    <2>1. image \in Sides \X Sides
      BY DEF ResizerInv
    <2>2. w \in Sides /\ h \in Sides
      BY <2>1
    <2>3. \A s \in Seq(Boxes) : s # <<>> => Head(s) \in Boxes /\ Tail(s) \in Seq(Boxes)
      OBVIOUS
    <2> QED
      BY <1>1, <2>2, <2>3, ResizerAssumption
  <1>3. PICK d \in NewDimensions(w, h, box) :
           copies' = IF TooLarge(d[1], d[2]) THEN copies ELSE Append(copies, New(d))
    BY DEF Resize
  <1>4. /\ d[1] \in Nat \ {0} /\ d[2] \in Nat \ {0}
        /\ IF h > w THEN d[1] = box[1] ELSE d[2] = box[2]
        /\ LET shorter == IF h > w THEN w ELSE h IN
           2 * (d[1] * h - d[2] * w) \in -shorter..shorter
    BY <1>2, <1>3, DimensionsFit
  <1>5. CASE TooLarge(d[1], d[2])
    BY <1>1, <1>2, <1>3, <1>5 DEF ResizerInv, CopyOK
  <1>6. CASE ~TooLarge(d[1], d[2])
    <2>1. d[1] <= w /\ d[2] <= h
      BY <1>2, <1>4, <1>6 DEF TooLarge
    <2>2. TagOf(d[1], d[2]) \in 1..6 /\ TagOf(d[1], d[2]) <= TagOf(w, h)
      BY <1>2, <1>4, <2>1, TagIs, TagGrows
    <2> DEFINE c == New(d)
    <2>3. c \in Copies
      BY <1>2, <1>4, <2>2 DEF Copies
    <2>4. CopyOK(c)
      BY <1>2, <1>4, <2>1, <2>2 DEF CopyOK
    <2> HIDE DEF c
    <2>5. copies' = Append(copies, c)
      BY <1>3, <1>6 DEF c
    <2>6. copies' \in Seq(Copies) /\ \A i \in 1..Len(copies') : CopyOK(copies'[i])
      BY <1>1, <2>3, <2>4, <2>5 DEF ResizerInv
    <2>7. \A i \in 1..Len(copies') : CopyOK(copies[i])'
      BY <1>1, <2>6 DEF CopyOK
    <2> QED
      BY <1>1, <1>2, <2>6, <2>7 DEF ResizerInv
  <1> QED
    BY <1>5, <1>6

(* The inductive invariant of ImageResizer: what is left to do are boxes     *)
(* with pixels, and every copy made so far is in order.                      *)
THEOREM ResizerInvariance == ResizerSpec => []ResizerInv
  <1>1. ResizerInit => ResizerInv
    BY ResizerStart
  <1>2. ResizerInv /\ [Resize]_resizerVars => ResizerInv'
    <2>1. CASE UNCHANGED resizerVars
      BY <2>1 DEF resizerVars, ResizerInv, CopyOK
    <2> QED
      BY <2>1, ResizeKeeps
  <1> QED
    BY <1>1, <1>2, PTL DEF ResizerSpec

\* The copies, as the run's invariants speak of them.
LEMMA CopiesOf ==
  ASSUME ResizerInv, NEW i \in DOMAIN copies
  PROVE  CopyOK(copies[i])
  <1>1. DOMAIN copies = 1..Len(copies)
    BY DEF ResizerInv
  <1> QED
    BY <1>1 DEF ResizerInv

(* The image, the boxes and the copies keep their types. *)
THEOREM ResizerTypes == ResizerSpec => []ResizerTypeOK
  <1>1. ResizerInv => ResizerTypeOK
    BY DEF ResizerInv, ResizerTypeOK, Copies
  <1> QED
    BY <1>1, ResizerInvariance, PTL

(* insertSizedImageRows makes no copy without pixels, none larger than the   *)
(* image either way, and none of a higher tag.                               *)
THEOREM CopiesShrink == ResizerSpec => []CopiesAreSmaller
  <1>1. ResizerInv => CopiesAreSmaller
    BY CopiesOf DEF CopyOK, CopiesAreSmaller
  <1> QED
    BY <1>1, ResizerInvariance, PTL

(* computeNewImageDimensions: the shorter side of a copy is that of its box, *)
(* and the longer one within half a pixel of the image's proportions.        *)
THEOREM CopiesAreProportional == ResizerSpec => []CopiesKeepProportions
  <1>1. ResizerInv => CopiesKeepProportions
    BY CopiesOf DEF CopyOK, CopiesKeepProportions
  <1> QED
    BY <1>1, ResizerInvariance, PTL
=============================================================================
