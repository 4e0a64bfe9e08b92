----------------------------- MODULE MCOverlap -----------------------------
(* The three variants one after the other, as pipeline.py runs them.        *)
EXTENDS Overlap

Runners == <<"sync", "double_buffer", "three_stage">>
=============================================================================
