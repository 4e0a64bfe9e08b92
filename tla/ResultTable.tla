----------------------------- MODULE ResultTable -----------------------------
(***************************************************************************)
(* What the output file of an experiment driver is for its reader: a table *)
(* from the arms that were measured to their rows. A session collects rows *)
(* and then either replaces the table or updates it. The table cannot be   *)
(* read while it is being written, and is lost when the write is cut off.  *)
(***************************************************************************)
VARIABLES table, readable, batch, merges

vars == <<table, readable, batch, merges>>

Init == table = <<>> /\ readable = TRUE /\ batch = <<>> /\ merges \in BOOLEAN

\* One row is added or replaced.
Measure ==
    /\ \E arm \in DOMAIN batch' :
        /\ DOMAIN batch' = DOMAIN batch \cup {arm}
        /\ \A other \in DOMAIN batch \ {arm} : batch'[other] = batch[other]
    /\ UNCHANGED <<table, readable, merges>>

NewSession ==
    /\ batch' = <<>>
    /\ UNCHANGED <<table, readable, merges>>

Updated ==
    [arm \in DOMAIN batch \cup DOMAIN table |->
        IF arm \in DOMAIN batch THEN batch[arm] ELSE table[arm]]

Write ==
    /\ readable' = FALSE
    /\ table' = IF merges THEN Updated ELSE batch
    /\ UNCHANGED <<batch, merges>>

\* The rows are kept, what is told of them may change.
Rewrite == readable /\ readable' = FALSE /\ UNCHANGED <<table, batch, merges>>

Written == ~readable /\ readable' = TRUE /\ UNCHANGED <<table, batch, merges>>

CutOff == ~readable /\ table' = <<>> /\ UNCHANGED <<readable, batch, merges>>

Next ==
    \/ Measure \/ NewSession
    \/ Write \/ Rewrite \/ Written \/ CutOff

Spec == Init /\ [][Next]_vars
==============================================================================
