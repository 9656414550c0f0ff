---------------------------- MODULE MCBootstrap ----------------------------
(* Bounded instances of Bootstrap. *)
EXTENDS Bootstrap

CONSTANTS c1, c2

MCCredentials == {c1, c2}

(* Environments that know an admin, the one or the other; one of them knows  *)
(* a custom token as well.                                                   *)
MCEnvironments ==
    {[k \in Keys |-> CASE k \in {"user", "pass"} -> e[1] [] k = "token" -> e[2] [] OTHER -> Empty] :
        e \in {<<c1, Empty>>, <<c1, Fresh>>, <<c2, Empty>>}}
=============================================================================
