----------------------------- MODULE RateLimiter -----------------------------
(***************************************************************************)
(* ipRateLimiter.  allow holds the mutex, so it is one action.  Time is    *)
(* counted in ticks and a bucket in units, of which a request costs Cost   *)
(* and a tick brings the rate; a bucket grows with the ticks, where the    *)
(* library works out the same amount when it is asked.                     *)
(***************************************************************************)
EXTENDS Integers, FiniteSets

CONSTANTS
    Clients,    \* addresses
    Configs,    \* arguments of newIPRateLimiter: enabled, rate and burst
    Cost,       \* units of a request
    IdleTicks,  \* 20 minutes
    TableLimit  \* 8000 entries

ASSUME RateAssumption ==
    /\ Configs \subseteq [enabled : BOOLEAN, rate : Int, burst : Int]
    /\ Cost \in Nat \ {0} /\ IdleTicks \in Nat /\ TableLimit \in Nat

VARIABLES
    config,   \* of this limiter
    entries,  \* the table: the units of each client's bucket, and its idle ticks
    verdict,  \* the last answer, and (history) that of the ideal bucket, if it was forgotten
    ideal,    \* history: the bucket of each client, paying for the same requests,
              \* down to nothing, had it never been forgotten
    evicted   \* history: clients that have not got their bucket back since it was forgotten

rateVars == <<config, entries, verdict, ideal, evicted>>

Limited == config.enabled /\ config.rate > 0
Full == Cost * (IF config.burst <= 0 THEN 1 ELSE config.burst)

RateTypeOK ==
    /\ config \in Configs
    /\ DOMAIN entries \subseteq Clients
    /\ \A c \in DOMAIN entries : entries[c] \in [units : 0..Full, idle : 0..IdleTicks + 1]
    /\ verdict \in [allowed : BOOLEAN, ideal : BOOLEAN, forgotten : BOOLEAN]
    /\ ideal \in [Clients -> 0..Full]
    /\ evicted \subseteq Clients

Told(allowed, fair, forgotten) ==
    [allowed |-> allowed, ideal |-> fair, forgotten |-> forgotten]

RateInit ==
    /\ config \in Configs
    /\ entries = <<>>
    /\ verdict = Told(TRUE, TRUE, FALSE)
    /\ ideal = [c \in Clients |-> Full]
    /\ evicted = {}

(* Mutant: an entry is too old one tick early. *)
Known_Short(c) == c \in DOMAIN entries /\ entries[c].idle < IdleTicks

Known(c) == c \in DOMAIN entries /\ entries[c].idle <= IdleTicks

(* What the next request of c finds in its bucket. *)
Held(c) == IF Known(c) THEN entries[c].units ELSE Full

Least(a, b) == IF a < b THEN a ELSE b
Entry(units, idle) == [units |-> units, idle |-> idle]

Spent(units) == IF units >= Cost THEN units - Cost ELSE units

(* The table once c has an entry, and what is left of it when one, perhaps   *)
(* that of c, has had to go.                                                 *)
With(c) == [q \in DOMAIN entries \cup {c} |-> IF q = c THEN Entry(Held(c), 0) ELSE entries[q]]
Without(table, q) == [c \in DOMAIN table \ {q} |-> table[c]]

(* Mutant: nothing is evicted. *)
Trimmed_Never(c) == {With(c)}

Trimmed(c) ==
    IF Cardinality(DOMAIN With(c)) > TableLimit
    THEN {Without(With(c), q) : q \in DOMAIN With(c)} ELSE {With(c)}

(* c's bucket pays, in the table or out of it. *)
Allow(c) ==
    /\ Limited
    /\ verdict' = Told(Held(c) >= Cost, ideal[c] >= Cost, c \in evicted)
    /\ ideal' = [ideal EXCEPT ![c] = IF Held(c) < Cost THEN @ ELSE IF @ < Cost THEN 0 ELSE @ - Cost]
    /\ \E table \in Trimmed(c) :
          /\ entries' = [q \in DOMAIN table |->
                           IF q = c THEN Entry(Spent(Held(c)), 0) ELSE table[q]]
          /\ evicted' = {q \in evicted \cup (DOMAIN With(c) \ DOMAIN table) : ideal'[q] < Full}
    /\ UNCHANGED config

AllowAll ==
    /\ ~Limited
    /\ verdict' = Told(TRUE, TRUE, FALSE)
    /\ UNCHANGED <<config, entries, ideal, evicted>>

(* An entry that gets too old is as good as forgotten. *)
Tick ==
    /\ Limited
    /\ entries' = [c \in DOMAIN entries |->
           Entry(Least(Full, entries[c].units + config.rate), Least(IdleTicks + 1, entries[c].idle + 1))]
    /\ ideal' = [c \in Clients |-> Least(Full, ideal[c] + config.rate)]
    /\ evicted' = {c \in evicted \cup {q \in DOMAIN entries : entries'[q].idle > IdleTicks} :
                      ideal'[c] < Full}
    /\ UNCHANGED <<config, verdict>>

RateNext == Tick \/ AllowAll \/ \E c \in Clients : Allow(c)

RateSpec == RateInit /\ [][RateNext]_rateVars

-----------------------------------------------------------------------------
(* Token buckets per client: no client is refused what a bucket of its own   *)
(* would allow, whatever the others ask for, and it is allowed more only     *)
(* while its bucket is forgotten: of a client idle for so long, or one that  *)
(* had to go for a table above its limit.                                    *)
AnswersOfOwnBucket ==
    /\ verdict.ideal => verdict.allowed
    /\ verdict.allowed => verdict.ideal \/ verdict.forgotten

(* The table does not grow with the number of clients. *)
TableIsBounded == Cardinality(DOMAIN entries) <= TableLimit
=============================================================================
