----------------------------- MODULE MCMoeCache -----------------------------
(* MoeCache on four experts and two slots, with one to three experts per    *)
(* token; three do not fit, and the assertion of the forward call fires.    *)
EXTENDS MoeCache
=============================================================================
