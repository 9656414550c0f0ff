---------------------------- MODULE MCAuthCache ----------------------------
(* Instances of AuthCache for TLC. *)
EXTENDS AuthCache, TLC

CONSTANTS t1, t2, t3, ann, bob

(* ann has two tokens, bob one. *)
MCNameOf == [t \in Tokens |-> IF t = t3 THEN bob ELSE ann]
=============================================================================
