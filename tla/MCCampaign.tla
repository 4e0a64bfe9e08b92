----------------------------- MODULE MCCampaign -----------------------------
(* Two sessions of every script; lists of two elements.                     *)
EXTENDS Campaign

CONSTANTS p1, p2, m1, m2, c1, t1, t2

MCPoints == <<p1, p2>>
MCModels == <<m1, m2>>
MCConfigs == <<c1>>
MCPrompts == <<t1, t2>>
=============================================================================
