--------------------------- MODULE MCServerBench ---------------------------
(* Two sessions with two configurations and two repetitions.                *)
EXTENDS ServerBench

CONSTANTS c1, c2, n1, other

MCConfigs == <<c1, c2>>
MCNgramConfigs == <<n1>>
MCWanted == {{c2}, {c1, other}, {n1}}
=============================================================================
