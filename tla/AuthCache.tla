----------------------------- MODULE AuthCache -----------------------------
(***************************************************************************)
(* auth.Service.Authenticate: a token is looked up in core_usertoken; on a *)
(* miss the auth service is asked, and one READ COMMITTED transaction      *)
(* finds or inserts the local user and caches the token.  Requests         *)
(* interleave between any two of these calls.                              *)
(***************************************************************************)
EXTENDS Naturals, FiniteSets

CONSTANTS
    Reqs,      \* requests being authenticated at once
    Tokens,    \* access tokens
    Names,     \* usernames
    NameOf,    \* the username the auth service answers for each token
    UserIds,   \* ids uuid.New() draws; their number bounds the inserted users
    NoUser,    \* no row, and the name of none
    NoReq      \* nobody holds the lock

ASSUME AuthAssumption ==
    /\ NameOf \in [Tokens -> Names]
    /\ NoUser \notin UserIds \cup Names
    /\ NoReq \notin Reqs

VARIABLES
    user,      \* committed rows of core_customuser
    cached,    \* committed rows of core_usertoken
    rowLock,   \* who has updated a user row and not yet ended its transaction
    tokLock,   \* who has upserted a token and not yet ended its transaction
    accepted,  \* external: the tokens the auth service accepts
    rq         \* each request

authVars == <<user, cached, rowLock, tokLock, accepted, rq>>

None == [name |-> NoUser, active |-> FALSE]

Steps == {"idle", "lookup", "me", "select", "insert", "update", "cache", "commit",
          "ok", "rejected"}

AuthTypeOK ==
    /\ user \in [UserIds -> [name : Names \cup {NoUser}, active : BOOLEAN]]
    /\ cached \in [Tokens -> [uid : UserIds \cup {NoUser}, live : BOOLEAN]]
    /\ rowLock \in [UserIds -> Reqs \cup {NoReq}]
    /\ tokLock \in [Tokens -> Reqs \cup {NoReq}]
    /\ accepted \in SUBSET Tokens
    /\ rq \in [Reqs -> [pc : Steps, tok : Tokens, uid : UserIds \cup {NoUser},
                        doomed : BOOLEAN]]

AuthInit ==
    /\ user = [i \in UserIds |-> None]
    /\ cached = [t \in Tokens |-> [uid |-> NoUser, live |-> FALSE]]
    /\ rowLock = [i \in UserIds |-> NoReq]
    /\ tokLock = [t \in Tokens |-> NoReq]
    /\ accepted = Tokens
    /\ \E t \in Tokens :
          rq = [r \in Reqs |-> [pc |-> "idle", tok |-> t, uid |-> NoUser, doomed |-> FALSE]]

At(r, step) == rq[r].pc = step
Token(r) == rq[r].tok
Uid(r) == rq[r].uid
Ended(r) == rq[r].pc \in {"idle", "ok", "rejected"}
Goto(r, step) == rq' = [rq EXCEPT ![r].pc = step]
GotoWith(r, step, i) == rq' = [rq EXCEPT ![r].pc = step, ![r].uid = i]

Exists(i) == user[i].name # NoUser
Named(n) == {i \in UserIds : user[i].name = n}

(* The end of r's transaction: its locks are released. *)
Unlock(r) ==
    /\ rowLock' = [i \in UserIds |-> IF rowLock[i] = r THEN NoReq ELSE rowLock[i]]
    /\ tokLock' = [t \in Tokens |-> IF tokLock[t] = r THEN NoReq ELSE tokLock[t]]

-----------------------------------------------------------------------------
(* History: when this request arrives nothing is left that vouches for its   *)
(* token, neither the auth service nor the cache nor a request under way.    *)
Vouched(t) ==
    \/ t \in accepted
    \/ cached[t].live
    \/ \E q \in Reqs : Token(q) = t /\ ~Ended(q)

Arrive(r, t) ==
    /\ Ended(r)
    /\ rq' = [rq EXCEPT ![r] = [pc |-> "lookup", tok |-> t, uid |-> NoUser,
                                doomed |-> ~Vouched(t)]]
    /\ UNCHANGED <<user, cached, rowLock, tokLock, accepted>>

(* Mutant: userByToken does not ask for expires_at > NOW(). *)
Hit_Expired(t) == cached[t].uid # NoUser

(* userByToken finds a row. *)
Hit(t) == cached[t].uid # NoUser /\ cached[t].live

Lookup(r) ==
    /\ At(r, "lookup")
    /\ \/ /\ Hit(Token(r))
          /\ LET i == cached[Token(r)].uid IN
             GotoWith(r, IF user[i].active THEN "ok" ELSE "rejected", i)
       \/ ~Hit(Token(r)) /\ Goto(r, "me")
    /\ UNCHANGED <<user, cached, rowLock, tokLock, accepted>>

(* ValidateBearer; every error of it is "unauthorized". *)
ValidateBearer(r) ==
    /\ At(r, "me")
    /\ IF Token(r) \in accepted THEN Goto(r, "select") ELSE Goto(r, "rejected")
    /\ UNCHANGED <<user, cached, rowLock, tokLock, accepted>>

(* Mutant: the SELECT does not name the user. *)
SelectUser_Any(r) ==
    /\ At(r, "select")
    /\ \/ \E i \in UserIds : Exists(i) /\ GotoWith(r, "update", i)
       \/ (\A i \in UserIds : ~Exists(i)) /\ Goto(r, "insert")
    /\ UNCHANGED <<user, cached, rowLock, tokLock, accepted>>

(* SELECT ... WHERE username = $1 LIMIT 1, over committed rows. *)
SelectUser(r) ==
    /\ At(r, "select")
    /\ \/ \E i \in Named(NameOf[Token(r)]) : GotoWith(r, "update", i)
       \/ Named(NameOf[Token(r)]) = {} /\ Goto(r, "insert")
    /\ UNCHANGED <<user, cached, rowLock, tokLock, accepted>>

(* The ids uuid.New can still draw: no row and no open transaction has them. *)
FreeIds == {i \in UserIds : ~Exists(i) /\ \A q \in Reqs : Ended(q) \/ Uid(q) # i}

(* INSERT of a new user: no index makes username unique. *)
InsertUser(r) ==
    /\ At(r, "insert")
    /\ \E i \in FreeIds : GotoWith(r, "cache", i)
    /\ UNCHANGED <<user, cached, rowLock, tokLock, accepted>>

(* UPDATE ... WHERE id: waits for another transaction's update of the row. *)
UpdateUser(r) ==
    /\ At(r, "update")
    /\ rowLock[Uid(r)] = NoReq
    /\ rowLock' = [rowLock EXCEPT ![Uid(r)] = r]
    /\ Goto(r, "cache")
    /\ UNCHANGED <<user, cached, tokLock, accepted>>

(* Mutant: over a connection of its own, whose foreign key waits for the row *)
(* that the transaction holds.                                               *)
CacheToken_OwnConnection(r) ==
    /\ At(r, "cache")
    /\ tokLock[Token(r)] = NoReq /\ rowLock[Uid(r)] = NoReq
    /\ tokLock' = [tokLock EXCEPT ![Token(r)] = r]
    /\ Goto(r, "commit")
    /\ UNCHANGED <<user, cached, rowLock, accepted>>

(* INSERT ... ON CONFLICT (token) DO UPDATE: waits likewise. *)
CacheToken(r) ==
    /\ At(r, "cache")
    /\ tokLock[Token(r)] = NoReq
    /\ tokLock' = [tokLock EXCEPT ![Token(r)] = r]
    /\ Goto(r, "commit")
    /\ UNCHANGED <<user, cached, rowLock, accepted>>

(* tx.Commit.  The user row is written with is_active = true. *)
Commit(r) ==
    /\ At(r, "commit")
    /\ user' = [user EXCEPT ![Uid(r)] = [name |-> NameOf[Token(r)], active |-> TRUE]]
    /\ cached' = [cached EXCEPT ![Token(r)] = [uid |-> Uid(r), live |-> TRUE]]
    /\ Unlock(r)
    /\ Goto(r, "ok") \/ Goto(r, "rejected")
    /\ UNCHANGED accepted

(* A call is refused, or the client goes away: the deferred tx.Rollback. *)
Fail(r) ==
    /\ ~Ended(r)
    /\ Goto(r, "rejected")
    /\ Unlock(r)
    /\ UNCHANGED <<user, cached, accepted>>

-----------------------------------------------------------------------------
(* What happens around the service. *)

Expire(t) ==
    /\ cached[t].live
    /\ cached' = [cached EXCEPT ![t].live = FALSE]
    /\ UNCHANGED <<user, rowLock, tokLock, accepted, rq>>

Revoke(t) ==
    /\ t \in accepted
    /\ accepted' = accepted \ {t}
    /\ UNCHANGED <<user, cached, rowLock, tokLock, rq>>

(* An operator clears is_active. *)
Deactivate(i) ==
    /\ Exists(i) /\ user[i].active /\ rowLock[i] = NoReq
    /\ user' = [user EXCEPT ![i].active = FALSE]
    /\ UNCHANGED <<cached, rowLock, tokLock, accepted, rq>>

AuthStep(r) ==
    \/ Lookup(r) \/ ValidateBearer(r) \/ SelectUser(r) \/ InsertUser(r)
    \/ UpdateUser(r) \/ CacheToken(r) \/ Commit(r)

AuthNext ==
    \/ \E r \in Reqs : AuthStep(r) \/ Fail(r) \/ \E t \in Tokens : Arrive(r, t)
    \/ \E t \in Tokens : Expire(t) \/ Revoke(t)
    \/ \E i \in UserIds : Deactivate(i)

AuthSpec == AuthInit /\ [][AuthNext]_authVars

(* Goroutines run on; PostgreSQL queues the transactions that wait for a row. *)
AuthFairness ==
    \A r \in Reqs :
        /\ WF_authVars(AuthStep(r))
        /\ SF_authVars(UpdateUser(r)) /\ SF_authVars(CacheToken(r))

FairAuthSpec == AuthSpec /\ AuthFairness

-----------------------------------------------------------------------------
(* Authenticate never mixes up two users, whatever logs in concurrently: a   *)
(* cached token refers to a row of its own name, and so does every answer.   *)
TokensKeepTheirUser ==
    /\ \A t \in Tokens :
          cached[t].uid # NoUser => user[cached[t].uid].name = NameOf[t]
    /\ \A r \in Reqs : At(r, "ok") => user[Uid(r)].name = NameOf[Token(r)]

(* A token that is revoked, whose cached copy has expired and that no other  *)
(* request is using is refused, by userByToken or by ValidateBearer.         *)
RevokedIsOut == \A r \in Reqs : rq[r].doomed => ~At(r, "ok")

(* Every request is answered: the locks of one transaction are given back to *)
(* those that wait for them, also when it fails.  (Only the bound UserIds    *)
(* may keep an insert waiting; uuid.New has no end.)                         *)
AuthenticateReturns ==
    \A r \in Reqs : ~Ended(r) ~> (Ended(r) \/ FreeIds = {})

-----------------------------------------------------------------------------
(* What the documentation says, and the code does not do. *)

(* docs/architecture.md: the service "upserts core_customuser", so that a    *)
(* name has one local user.                                                  *)
OneUserPerName == \A n \in Names : Cardinality(Named(n)) <= 1

(* docs/architecture.md: "Inactive local users (is_active = false) are       *)
(* rejected", so that a request is not answered as a user inactive by then.  *)
InactiveIsRejected ==
    [][\A r \in Reqs :
          ~At(r, "ok") /\ rq'[r].pc = "ok" /\ Exists(rq'[r].uid)
              => user[rq'[r].uid].active]_authVars
=============================================================================
