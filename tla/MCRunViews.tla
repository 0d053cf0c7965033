----------------------------- MODULE MCRunViews -----------------------------
(* The claim's batch, its repeat under the same key, which may be sent     *)
(* while the first still runs, a batch without a key that shares its line  *)
(* and adds one, and another such batch, with a claim, sent as telemetry.  *)
EXTENDS RunViews

CONSTANTS b1, b2, b3, b4, x, y

MCLines == [b \in Batch |-> IF b \in {b3, b4} THEN {x, y} ELSE {x}]
MCKeyOf == [b \in Batch |-> IF b \in {b1, b2} THEN "k" ELSE NoKey]

(* Bound: telemetry meets one batch, and not a crash, which takes the      *)
(* cache that telemetry leaves alone.                                      *)
MCNext == ViewsNext /\ (sends'[b4] > 0 => sends'[b2] + sends'[b3] + crashes' = 0)

MCSpec == ViewsInit /\ [][MCNext]_allVars /\ ViewsFairness
=============================================================================
