-------------------------- MODULE AuthCacheProofs --------------------------
(***************************************************************************)
(* The safety properties of AuthCache, for any requests, tokens and users. *)
(***************************************************************************)
EXTENDS AuthCache, TLAPS

InTx == {"update", "cache", "commit"}
PastMe == {"select", "insert"} \cup InTx

(* A request inside its transaction works on a committed row of its own name *)
(* or on an id nobody else has drawn; before it, on no row at all.           *)
Own(r) == user[Uid(r)].name = NameOf[Token(r)]
Fresh(r) == ~Exists(Uid(r)) /\ \A q \in Reqs : q # r /\ ~Ended(q) => Uid(q) # Uid(r)

TxInv ==
    \A r \in Reqs :
        /\ ~Ended(r) => IF rq[r].pc \in InTx THEN Uid(r) \in UserIds ELSE Uid(r) = NoUser
        /\ At(r, "update") => Own(r)
        /\ rq[r].pc \in InTx => Own(r) \/ Fresh(r)
        /\ At(r, "ok") => Uid(r) \in UserIds

(* Nothing vouches for the token of a doomed request any more. *)
DoomInv ==
    \A r \in Reqs : rq[r].doomed =>
        /\ Token(r) \notin accepted /\ ~cached[Token(r)].live
        /\ \A q \in Reqs : Token(q) = Token(r) => rq[q].pc \notin PastMe
        /\ ~At(r, "ok")

AuthInv == AuthTypeOK /\ TokensKeepTheirUser /\ TxInv /\ DoomInv

\* The empty tables, idle requests and an accepting auth service satisfy the invariant.
LEMMA AuthStart == AuthInit => AuthInv
  <1> SUFFICES ASSUME AuthInit PROVE AuthInv
    OBVIOUS
  <1>1. AuthTypeOK
    BY AuthAssumption DEF AuthInit, AuthTypeOK, Steps, None
  <1> QED
    BY <1>1 DEF AuthInit, AuthInv, TokensKeepTheirUser, TxInv, DoomInv,
       Ended, At, InTx, PastMe, Uid, Token

-----------------------------------------------------------------------------
(* What a step does to each request, row and token. *)

Others(r) == \A q \in Reqs : q # r => rq'[q] = rq[q]

(* r moves on, or ends, with the token it has. *)
Moves(r, step, i) ==
    /\ Others(r)
    /\ rq'[r].pc = step /\ rq'[r].tok = Token(r) /\ rq'[r].uid = i
    /\ rq'[r].doomed = rq[r].doomed

States == [pc : Steps, tok : Tokens, uid : UserIds \cup {NoUser}, doomed : BOOLEAN]

\* Goto changes the step of one request.
LEMMA GotoEffect ==
  ASSUME AuthTypeOK, NEW r \in Reqs, NEW step \in Steps, Goto(r, step)
  PROVE  Moves(r, step, Uid(r)) /\ rq' \in [Reqs -> States]
  <1>1. rq \in [Reqs -> States]
    BY DEF AuthTypeOK, States
  <1>2. [rq[r] EXCEPT !.pc = step] \in States
    BY <1>1 DEF States
  <1> QED
    BY <1>1, <1>2 DEF States, Goto, Moves, Others, Token, Uid

\* GotoWith changes the step and the user of one request.
LEMMA GotoWithEffect ==
  ASSUME AuthTypeOK, NEW r \in Reqs, NEW step \in Steps, NEW i \in UserIds,
         GotoWith(r, step, i)
  PROVE  Moves(r, step, i) /\ rq' \in [Reqs -> States]
  <1>1. rq \in [Reqs -> States]
    BY DEF AuthTypeOK, States
  <1>2. /\ \A q \in Reqs : q # r => rq'[q] = rq[q]
        /\ rq'[r] = [pc |-> step, tok |-> rq[r].tok, uid |-> i, doomed |-> rq[r].doomed]
        /\ rq' = [q \in Reqs |-> rq'[q]]
    BY <1>1 DEF States, GotoWith
  <1> QED
    BY <1>1, <1>2 DEF States, Moves, Others, Token, Uid

\* Both at once, in the form the steps below use.
LEMMA MoveEffect ==
  ASSUME AuthTypeOK, NEW r \in Reqs, NEW step \in Steps
  PROVE  /\ Goto(r, step) => Moves(r, step, Uid(r)) /\ rq' \in [Reqs -> States]
         /\ \A i \in UserIds :
               GotoWith(r, step, i) => Moves(r, step, i) /\ rq' \in [Reqs -> States]
  BY GotoEffect, GotoWithEffect

ArriveDone(r, t) ==
    /\ Ended(r) /\ Others(r) /\ UNCHANGED <<user, cached, accepted>>
    /\ rq'[r].pc = "lookup" /\ rq'[r].tok = t /\ rq'[r].uid = NoUser
    /\ rq'[r].doomed = ~Vouched(t)

CommitDone(r) ==
    /\ At(r, "commit") /\ UNCHANGED accepted
    /\ Moves(r, "ok", Uid(r)) \/ Moves(r, "rejected", Uid(r))
    /\ \A i \in UserIds : user'[i].name = IF i = Uid(r) THEN NameOf[Token(r)] ELSE user[i].name
    /\ \A t \in Tokens : IF t = Token(r) THEN cached'[t].uid = Uid(r)
                         ELSE cached'[t] = cached[t]

(* No request moves; rows keep their names, tokens their users, and nothing  *)
(* becomes accepted or live.                                                 *)
AroundDone ==
    /\ UNCHANGED rq /\ accepted' \subseteq accepted
    /\ \A i \in UserIds : user'[i].name = user[i].name
    /\ \A t \in Tokens : /\ cached'[t].uid = cached[t].uid
                         /\ cached'[t].live => cached[t].live

(* r makes a step that changes no table. *)
QuietDone(r) ==
    /\ UNCHANGED <<user, cached, accepted>>
    /\ \/ At(r, "lookup") /\ Hit(Token(r))
          /\ \E s \in {"ok", "rejected"} : Moves(r, s, cached[Token(r)].uid)
       \/ At(r, "lookup") /\ Moves(r, "me", Uid(r))
       \/ At(r, "me") /\ Token(r) \in accepted /\ Moves(r, "select", Uid(r))
       \/ At(r, "select") /\ \E i \in Named(NameOf[Token(r)]) : Moves(r, "update", i)
       \/ At(r, "select") /\ Moves(r, "insert", Uid(r))
       \/ At(r, "insert")
          /\ \E i \in UserIds : /\ ~Exists(i)
                                /\ \A q \in Reqs : Ended(q) \/ Uid(q) # i
                                /\ Moves(r, "cache", i)
       \/ At(r, "update") /\ Moves(r, "cache", Uid(r))
       \/ At(r, "cache") /\ Moves(r, "commit", Uid(r))
       \/ ~Ended(r) /\ Moves(r, "rejected", Uid(r))

AuthDone ==
    \/ AroundDone
    \/ \E r \in Reqs : (\E t \in Tokens : ArriveDone(r, t)) \/ QuietDone(r) \/ CommitDone(r)

\* Every step keeps the types and has one of the effects above.
LEMMA AuthEffects == AuthInv /\ [AuthNext]_authVars => AuthTypeOK' /\ AuthDone
  <1> SUFFICES ASSUME AuthInv, [AuthNext]_authVars
               PROVE  AuthTypeOK' /\ AuthDone
    OBVIOUS
  <1> DEFINE Good == AuthTypeOK' /\ AuthDone
  <1>0. /\ AuthTypeOK /\ Steps = Steps \cup {"lookup", "me", "select", "insert", "update",
                                             "cache", "commit", "ok", "rejected"}
        /\ \A i \in UserIds : i # NoUser
    BY AuthAssumption DEF AuthInv, Steps
  <1> USE <1>0
  <1>1. ASSUME NEW r \in Reqs, NEW t \in Tokens, Arrive(r, t) PROVE Good
    <2>1. Vouched(t) \in BOOLEAN
      BY DEF Vouched, Ended
    <2>2. ArriveDone(r, t)
      BY <1>1 DEF Arrive, AuthTypeOK, ArriveDone, Others
    <2> QED
      BY <1>1, <2>1, <2>2 DEF Arrive, AuthTypeOK, States, AuthDone
  <1>2. ASSUME NEW r \in Reqs, Lookup(r) PROVE Good
    <2>1. CASE Hit(Token(r)) /\ LET i == cached[Token(r)].uid IN
                 GotoWith(r, IF user[i].active THEN "ok" ELSE "rejected", i)
      <3>1. cached[Token(r)].uid \in UserIds
        BY <2>1 DEF Hit, AuthTypeOK, Token
      <3>2. PICK s \in {"ok", "rejected"} : GotoWith(r, s, cached[Token(r)].uid)
        BY <2>1
      <3> QED
        BY <1>2, <2>1, <3>1, <3>2, MoveEffect DEF States, Lookup, AuthTypeOK, AuthDone, QuietDone
    <2>2. CASE Goto(r, "me")
      BY <1>2, <2>2, MoveEffect DEF States, Lookup, AuthTypeOK, AuthDone, QuietDone
    <2> QED
      BY <1>2, <2>1, <2>2 DEF Lookup
  <1>3. ASSUME NEW r \in Reqs, ValidateBearer(r) PROVE Good
    <2>1. ~Ended(r)
      BY <1>3 DEF ValidateBearer, At, Ended
    <2> QED
      BY <1>3, <2>1, MoveEffect DEF States, ValidateBearer, AuthTypeOK, AuthDone, QuietDone
  <1>4. ASSUME NEW r \in Reqs, SelectUser(r) PROVE Good
    BY <1>4, MoveEffect DEF States, SelectUser, AuthTypeOK, AuthDone, QuietDone, Named
  <1>5. ASSUME NEW r \in Reqs, InsertUser(r) PROVE Good
    BY <1>5, MoveEffect DEF States, InsertUser, FreeIds, AuthTypeOK, AuthDone, QuietDone
  <1>6. ASSUME NEW r \in Reqs, UpdateUser(r) PROVE Good
    BY <1>6, MoveEffect DEF States, UpdateUser, AuthTypeOK, AuthDone, QuietDone
  <1>7. ASSUME NEW r \in Reqs, CacheToken(r) PROVE Good
    BY <1>7, MoveEffect DEF States, CacheToken, AuthTypeOK, AuthDone, QuietDone
  <1>8. ASSUME NEW r \in Reqs, Commit(r) PROVE Good
    <2>1. Uid(r) \in UserIds /\ NameOf[Token(r)] \in Names /\ Token(r) \in Tokens
      BY <1>8, AuthAssumption DEF Commit, TxInv, InTx, At, Ended, AuthInv, AuthTypeOK, Token
    <2>2. /\ user' = [user EXCEPT ![Uid(r)] = [name |-> NameOf[Token(r)], active |-> TRUE]]
          /\ cached' = [cached EXCEPT ![Token(r)] = [uid |-> Uid(r), live |-> TRUE]]
          /\ At(r, "commit") /\ UNCHANGED accepted /\ Unlock(r)
          /\ Goto(r, "ok") \/ Goto(r, "rejected")
      BY <1>8 DEF Commit
    <2>3. /\ user' \in [UserIds -> [name : Names \cup {NoUser}, active : BOOLEAN]]
          /\ \A i \in UserIds :
                user'[i].name = IF i = Uid(r) THEN NameOf[Token(r)] ELSE user[i].name
      BY <2>1, <2>2 DEF AuthTypeOK
    <2>4. /\ cached' \in [Tokens -> [uid : UserIds \cup {NoUser}, live : BOOLEAN]]
          /\ \A t \in Tokens : IF t = Token(r) THEN cached'[t].uid = Uid(r)
                               ELSE cached'[t] = cached[t]
      BY <2>1, <2>2 DEF AuthTypeOK
    <2>5. /\ rowLock' \in [UserIds -> Reqs \cup {NoReq}]
          /\ tokLock' \in [Tokens -> Reqs \cup {NoReq}]
      BY <2>2 DEF AuthTypeOK, Unlock
    <2> QED
      BY <2>2, <2>3, <2>4, <2>5, MoveEffect DEF States, AuthTypeOK, AuthDone, CommitDone
  <1>9. ASSUME NEW r \in Reqs, Fail(r) PROVE Good
    BY <1>9, MoveEffect DEF States, Fail, Unlock, AuthTypeOK, AuthDone, QuietDone
  <1>10. ASSUME NEW t \in Tokens, Expire(t) PROVE Good
    <2>1. cached' = [cached EXCEPT ![t].live = FALSE]
      BY <1>10 DEF Expire
    <2>2. /\ cached' \in [Tokens -> [uid : UserIds \cup {NoUser}, live : BOOLEAN]]
          /\ \A u \in Tokens : cached'[u].uid = cached[u].uid /\ (cached'[u].live => cached[u].live)
      BY <2>1 DEF AuthTypeOK
    <2> QED
      BY <1>10, <2>2 DEF Expire, AuthTypeOK, AuthDone, AroundDone
  <1>13. ASSUME NEW t \in Tokens, Revoke(t) PROVE Good
    BY <1>13 DEF Revoke, AuthTypeOK, AuthDone, AroundDone
  <1>11. ASSUME NEW i \in UserIds, Deactivate(i) PROVE Good
    BY <1>11 DEF Deactivate, AuthTypeOK, AuthDone, AroundDone
  <1>12. CASE UNCHANGED authVars
    BY <1>12 DEF authVars, AuthTypeOK, AuthDone, AroundDone
  <1> QED
    BY <1>1, <1>2, <1>3, <1>4, <1>5, <1>6, <1>7, <1>8, <1>9, <1>10, <1>11, <1>12, <1>13
       DEF AuthNext, AuthStep

-----------------------------------------------------------------------------
(* The parts of the invariant, one effect at a time. *)

\* What the parts of the invariant say, for use at a committing request: a name already in
\* the row it writes is the name it writes.
LEMMA CommitWrites ==
  ASSUME AuthInv, NEW r \in Reqs, CommitDone(r)
  PROVE  /\ Uid(r) \in UserIds /\ Token(r) \in Tokens /\ ~Ended(r)
         /\ \A t \in Tokens : user[Uid(r)].name = NameOf[t] => NameOf[t] = NameOf[Token(r)]
         /\ \A i \in UserIds, t \in Tokens : user[i].name = NameOf[t] => user'[i].name = NameOf[t]
  <1>1. Uid(r) \in UserIds /\ Token(r) \in Tokens /\ ~Ended(r) /\ (Own(r) \/ Fresh(r))
    BY DEF AuthInv, TxInv, CommitDone, At, Ended, InTx, AuthTypeOK, Token
  <1>2. \A t \in Tokens : NameOf[t] # NoUser
    BY AuthAssumption
  <1>3. \A t \in Tokens : user[Uid(r)].name = NameOf[t] => NameOf[t] = NameOf[Token(r)]
    BY <1>1, <1>2 DEF Own, Fresh, Exists
  <1> QED
    BY <1>1, <1>3 DEF CommitDone

\* No step makes a token or an answer refer to a row of another name.
LEMMA KeepsTheirUser == AuthInv /\ AuthTypeOK' /\ AuthDone => TokensKeepTheirUser'
  <1> SUFFICES ASSUME AuthInv, AuthTypeOK', AuthDone PROVE TokensKeepTheirUser'
    OBVIOUS
  <1>0. TokensKeepTheirUser
    BY DEF AuthInv
  <1>a. \A t \in Tokens : cached[t].uid # NoUser => cached[t].uid \in UserIds
    BY DEF AuthInv, AuthTypeOK
  <1>b. \A r \in Reqs : rq[r].tok \in Tokens /\ (rq[r].pc = "ok" => rq[r].uid \in UserIds)
    BY DEF AuthInv, AuthTypeOK, TxInv, At, Uid
  <1>1. CASE AroundDone
    <2>1. \A t \in Tokens : cached'[t].uid # NoUser => user'[cached'[t].uid].name = NameOf[t]
      <3> SUFFICES ASSUME NEW t \in Tokens, cached'[t].uid # NoUser
                   PROVE  user'[cached'[t].uid].name = NameOf[t]
        OBVIOUS
      <3>1. cached'[t].uid = cached[t].uid /\ cached[t].uid \in UserIds
        BY <1>1, <1>a DEF AroundDone
      <3>2. user[cached[t].uid].name = NameOf[t]
        BY <1>0, <3>1 DEF TokensKeepTheirUser
      <3>3. user'[cached[t].uid].name = user[cached[t].uid].name
        BY <1>1, <3>1 DEF AroundDone
      <3> QED
        BY <3>1, <3>2, <3>3
    <2>2. \A q \in Reqs : rq'[q].pc = "ok" => user'[rq'[q].uid].name = NameOf[rq'[q].tok]
      BY <1>0, <1>b, <1>1 DEF AroundDone, TokensKeepTheirUser, At, Token, Uid
    <2> QED
      BY Zenon, <2>1, <2>2 DEF TokensKeepTheirUser, At, Token, Uid
  <1>2. ASSUME NEW r \in Reqs, NEW t \in Tokens, ArriveDone(r, t) PROVE TokensKeepTheirUser'
    BY <1>0, <1>2 DEF ArriveDone, Others, TokensKeepTheirUser, At, Token, Uid
  <1>3. ASSUME NEW r \in Reqs, QuietDone(r) PROVE TokensKeepTheirUser'
    <2>1. UNCHANGED <<user, cached>> /\ Others(r) /\ rq'[r].tok = rq[r].tok /\ rq[r].tok \in Tokens
      BY <1>3, <1>b DEF QuietDone, Moves, Token
    <2>2. rq'[r].pc = "ok" =>
             rq'[r].uid = cached[rq[r].tok].uid /\ cached[rq[r].tok].uid # NoUser
      BY <1>3 DEF QuietDone, Moves, Hit, Token
    <2>3. rq'[r].pc = "ok" => user'[rq'[r].uid].name = NameOf[rq'[r].tok]
      BY <1>0, <2>1, <2>2 DEF TokensKeepTheirUser
    <2>4. \A q \in Reqs : q # r /\ rq'[q].pc = "ok" => user'[rq'[q].uid].name = NameOf[rq'[q].tok]
      BY <1>0, <2>1 DEF TokensKeepTheirUser, Others, At, Token, Uid
    <2>5. \A u \in Tokens : cached'[u].uid # NoUser => user'[cached'[u].uid].name = NameOf[u]
      BY <1>0, <2>1 DEF TokensKeepTheirUser
    <2>6. \A q \in Reqs : rq'[q].pc = "ok" => user'[rq'[q].uid].name = NameOf[rq'[q].tok]
      BY Zenon, <2>3, <2>4
    <2> QED
      BY Zenon, <2>5, <2>6 DEF TokensKeepTheirUser, At, Token, Uid
  <1>4. ASSUME NEW r \in Reqs, CommitDone(r) PROVE TokensKeepTheirUser'
    <2>1. /\ Others(r) /\ rq'[r].tok = rq[r].tok /\ rq'[r].uid = rq[r].uid
          /\ user'[rq[r].uid].name = NameOf[rq[r].tok]
          /\ cached'[rq[r].tok].uid = rq[r].uid
          /\ \A t \in Tokens : t # rq[r].tok => cached'[t] = cached[t]
      BY <1>4, <1>b, CommitWrites DEF CommitDone, Moves, Token, Uid
    <2>2. \A i \in UserIds, t \in Tokens : user[i].name = NameOf[t] => user'[i].name = NameOf[t]
      BY <1>4, CommitWrites
    <2>3. ASSUME NEW t \in Tokens, cached'[t].uid # NoUser PROVE user'[cached'[t].uid].name = NameOf[t]
      <3>1. CASE t = rq[r].tok
        BY <2>1, <3>1
      <3>2. CASE t # rq[r].tok
        <4>1. cached'[t] = cached[t] /\ cached[t].uid \in UserIds
          BY <1>a, <2>1, <2>3, <3>2
        <4>2. user[cached[t].uid].name = NameOf[t]
          BY <1>0, <2>3, <4>1 DEF TokensKeepTheirUser
        <4>3. user'[cached[t].uid].name = NameOf[t]
          BY <2>2, <4>1, <4>2
        <4> QED
          BY <4>1, <4>3
      <3> QED
        BY <3>1, <3>2
    <2>4. ASSUME NEW q \in Reqs, rq'[q].pc = "ok" PROVE user'[rq'[q].uid].name = NameOf[rq'[q].tok]
      <3>1. CASE q = r
        BY <2>1, <3>1
      <3>2. CASE q # r
        <4>1. rq'[q] = rq[q] /\ rq[q].uid \in UserIds /\ rq[q].tok \in Tokens
          BY <1>b, <2>1, <2>4, <3>2 DEF Others
        <4>2. user[rq[q].uid].name = NameOf[rq[q].tok]
          BY <1>0, <2>4, <4>1 DEF TokensKeepTheirUser, At, Token, Uid
        <4>3. user'[rq[q].uid].name = NameOf[rq[q].tok]
          BY <2>2, <4>1, <4>2
        <4> QED
          BY <4>1, <4>3
      <3> QED
        BY <3>1, <3>2
    <2> QED
      BY Zenon, <2>3, <2>4 DEF TokensKeepTheirUser, At, Token, Uid
  <1> QED
    BY <1>1, <1>2, <1>3, <1>4 DEF AuthDone

\* A transaction stays on a row of its name or on an id of its own.
LEMMA KeepsTx == AuthInv /\ AuthTypeOK' /\ AuthDone => TxInv'
  <1> SUFFICES ASSUME AuthInv, AuthTypeOK', AuthDone PROVE TxInv'
    OBVIOUS
  <1>0. TxInv /\ NoUser \notin UserIds /\ \A t \in Tokens : NameOf[t] # NoUser
    BY AuthAssumption DEF AuthInv
  <1>00. \A t \in Tokens : cached[t].uid \in UserIds \cup {NoUser}
    BY DEF AuthInv, AuthTypeOK
  <1>000. \A r \in Reqs : Token(r) \in Tokens
    BY DEF AuthInv, AuthTypeOK, Token
  <1>1. CASE AroundDone
    BY <1>0, <1>1 DEF AroundDone, TxInv, Own, Fresh, Exists, Ended, At, Token, Uid, InTx
  <1>2. ASSUME NEW r \in Reqs, NEW t \in Tokens, ArriveDone(r, t) PROVE TxInv'
    BY <1>0, <1>2 DEF ArriveDone, Others, TxInv, Own, Fresh, Exists, Ended, At, Token, Uid, InTx
  <1>3. ASSUME NEW r \in Reqs, QuietDone(r) PROVE TxInv'
    <2>1. /\ UNCHANGED <<user, cached, accepted>> /\ Others(r) /\ rq'[r].tok = rq[r].tok
          /\ ~Ended(r)
      BY <1>3 DEF QuietDone, Moves, Token, At, Ended
    (* What r brings along, whichever of its steps this is. *)
    <2>2. /\ rq'[r].pc \notin {"idle", "ok", "rejected"} =>
               IF rq'[r].pc \in InTx THEN rq'[r].uid \in UserIds ELSE rq'[r].uid = NoUser
          /\ rq'[r].pc = "ok" => rq'[r].uid \in UserIds
          /\ rq'[r].pc = "update" => user[rq'[r].uid].name = NameOf[rq[r].tok]
      BY <1>0, <1>00, <1>000, <1>3
         DEF QuietDone, Moves, TxInv, Hit, Named, At, Ended, Own, Token, Uid, InTx
    <2>3. rq'[r].pc \in InTx =>
             \/ user[rq'[r].uid].name = NameOf[rq[r].tok]
             \/ /\ ~Exists(rq'[r].uid)
                /\ \A q \in Reqs : q # r /\ ~Ended(q) => Uid(q) # rq'[r].uid
      BY <1>0, <1>3 DEF QuietDone, Moves, TxInv, Named, At, Ended, Own, Fresh, Token, Uid, InTx
    <2>4. \A q \in Reqs : q # r /\ rq[q].pc \in InTx /\ Fresh(q) /\ rq'[r].pc \notin {"idle", "ok", "rejected"}
             => rq'[r].uid # Uid(q)
      <3> SUFFICES ASSUME NEW q \in Reqs, q # r, rq[q].pc \in InTx, Fresh(q),
                          rq'[r].pc \notin {"idle", "ok", "rejected"}
                   PROVE  rq'[r].uid # Uid(q)
        OBVIOUS
      <3>1. ~Ended(q) /\ ~Exists(Uid(q)) /\ Uid(r) # Uid(q)
        BY <2>1 DEF Fresh, Ended, InTx
      <3>2. \A i \in Named(NameOf[Token(r)]) : Exists(i)
        BY <1>0, <1>000 DEF Named, Exists
      <3> QED
        BY <1>3, <3>1, <3>2 DEF QuietDone, Moves
    <2> QED
      <3> SUFFICES ASSUME NEW q \in Reqs
                   PROVE  (/\ ~Ended(q) => IF rq[q].pc \in InTx THEN Uid(q) \in UserIds
                                            ELSE Uid(q) = NoUser
                           /\ At(q, "update") => Own(q)
                           /\ rq[q].pc \in InTx => Own(q) \/ Fresh(q)
                           /\ At(q, "ok") => Uid(q) \in UserIds)'
        BY DEF TxInv
      <3>1. CASE q = r
        BY <2>1, <2>2, <2>3, <3>1 DEF Others, Own, Fresh, Exists, Ended, At, Token, Uid
      <3>2. CASE q # r
        BY <1>0, <2>1, <2>4, <3>2 DEF TxInv, Others, Own, Fresh, Exists, Ended, At, Token, Uid
      <3> QED
        BY <3>1, <3>2
  <1>4. ASSUME NEW r \in Reqs, CommitDone(r) PROVE TxInv'
    <2>1. /\ Others(r) /\ rq'[r].tok = rq[r].tok /\ rq'[r].uid = rq[r].uid
          /\ rq'[r].pc \in {"ok", "rejected"} /\ Uid(r) \in UserIds /\ ~Ended(r)
          /\ \A i \in UserIds : i # Uid(r) => user'[i].name = user[i].name
      BY <1>4, CommitWrites DEF CommitDone, Moves, Token, Uid
    <2>2. \A i \in UserIds, t \in Tokens : user[i].name = NameOf[t] => user'[i].name = NameOf[t]
      BY <1>4, CommitWrites
    <2>3. ASSUME NEW q \in Reqs, q # r PROVE
             /\ Uid(q) \in UserIds /\ Own(q) => Own(q)'
             /\ rq[q].pc \in InTx /\ Uid(q) \in UserIds /\ Fresh(q) => Fresh(q)'
      BY <1>000, <2>1, <2>2, <2>3 DEF Others, Own, Fresh, Exists, Ended, Token, Uid, InTx
    <2> QED
      BY <1>0, <2>1, <2>3 DEF TxInv, Others, Ended, At, Uid, InTx
  <1> QED
    BY <1>1, <1>2, <1>3, <1>4 DEF AuthDone

\* Nothing comes to vouch for the token of a doomed request.
LEMMA KeepsDoom == AuthInv /\ AuthTypeOK' /\ AuthDone => DoomInv'
  <1> SUFFICES ASSUME AuthInv, AuthTypeOK', AuthDone PROVE DoomInv'
    OBVIOUS
  <1>0. DoomInv /\ \A r \in Reqs : Token(r) \in Tokens
    BY DEF AuthInv, AuthTypeOK, Token
  <1>1. CASE AroundDone
    BY <1>0, <1>1 DEF AroundDone, DoomInv, At, Token
  <1>2. ASSUME NEW r \in Reqs, NEW t \in Tokens, ArriveDone(r, t) PROVE DoomInv'
    <2>1. rq'[r].doomed => /\ t \notin accepted /\ ~cached[t].live
                           /\ \A q \in Reqs : Token(q) = t => rq[q].pc \notin PastMe
      BY <1>2 DEF ArriveDone, Vouched, Ended, PastMe, InTx
    <2> QED
      BY <1>0, <1>2, <2>1 DEF ArriveDone, Others, DoomInv, At, Token, PastMe, InTx
  <1>3. ASSUME NEW r \in Reqs, QuietDone(r) PROVE DoomInv'
    <2>1. /\ UNCHANGED <<cached, accepted>> /\ Others(r) /\ rq'[r].tok = rq[r].tok
          /\ rq'[r].doomed = rq[r].doomed
      BY <1>3 DEF QuietDone, Moves, Token
    <2>2. Token(r) \notin accepted /\ ~cached[Token(r)].live /\ rq[r].pc \notin PastMe
             => rq'[r].pc \notin PastMe /\ rq'[r].pc # "ok"
      BY <1>3 DEF QuietDone, Moves, Hit, PastMe, InTx, At, Ended
    <2> QED
      BY <1>0, <2>1, <2>2 DEF DoomInv, Others, At, Token
  <1>4. ASSUME NEW r \in Reqs, CommitDone(r) PROVE DoomInv'
    <2>1. /\ Others(r) /\ rq'[r].tok = rq[r].tok /\ rq'[r].pc \in {"ok", "rejected"}
          /\ rq'[r].doomed = rq[r].doomed /\ UNCHANGED accepted
          /\ rq[r].pc = "commit"
          /\ \A t \in Tokens : t # Token(r) => cached'[t] = cached[t]
      BY <1>4 DEF CommitDone, Moves, Token, At
    <2>2. \A q \in Reqs : rq[q].doomed => Token(q) # Token(r)
      BY <1>0, <2>1 DEF DoomInv, PastMe, InTx
    <2> QED
      BY <1>0, <2>1, <2>2 DEF DoomInv, Others, At, Token, PastMe, InTx
  <1> QED
    BY <1>1, <1>2, <1>3, <1>4 DEF AuthDone

\* The inductive invariant holds of every reachable state.
THEOREM AuthInvariance == AuthSpec => []AuthInv
  <1>1. AuthInv /\ [AuthNext]_authVars => AuthInv'
    BY AuthEffects, KeepsTheirUser, KeepsTx, KeepsDoom DEF AuthInv
  <1> QED
    BY AuthStart, <1>1, PTL DEF AuthSpec

\* A cached token and an answered request refer to a local user of the token's own name,
\* however many requests find, insert and cache concurrently.
THEOREM TokensKept == AuthSpec => []TokensKeepTheirUser
  <1>1. AuthInv => TokensKeepTheirUser
    BY DEF AuthInv
  <1> QED
    BY AuthInvariance, <1>1, PTL

\* A request whose token nobody vouches for when it arrives is never let in.
THEOREM RevokedStaysOut == AuthSpec => []RevokedIsOut
  <1>1. AuthInv => RevokedIsOut
    BY DEF AuthInv, DoomInv, RevokedIsOut
  <1> QED
    BY AuthInvariance, <1>1, PTL
=============================================================================
