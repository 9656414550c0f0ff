----------------------------- MODULE MCBootEnv -----------------------------
(* The runs of bootstrap:auth, on the env file as keys and values, and the   *)
(* env file's text, as two parts that share no variable: a behaviour is one  *)
(* of the part Init chooses, and the other stays in an initial state.        *)
EXTENDS MCBootstrap, MCEnvFile

VARIABLE side

BootParked ==
    /\ file = [k \in Keys |-> IF k = "other" THEN Stale ELSE Empty] /\ own = file
    /\ system = Empty /\ admin = [user |-> Empty, pass |-> Empty]
    /\ run = Idle /\ why = {} /\ left = [flaws |-> MaxFlaws, edits |-> MaxEdits]

BootEnvInit ==
    \/ side = "runs" /\ BootInit /\ lines = <<>> /\ upd = [k \in {"TOKEN"} |-> <<>>]
    \/ side = "text" /\ EnvInit /\ BootParked

BootEnvNext ==
    /\ UNCHANGED side
    /\ \/ side = "runs" /\ BootNext /\ UNCHANGED envVars
       \/ side = "text" /\ Persist /\ UNCHANGED bootVars

BootEnvSpec == BootEnvInit /\ [][BootEnvNext]_<<side, bootVars, envVars>>
=============================================================================
