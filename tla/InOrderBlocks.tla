---------------------------- MODULE InOrderBlocks ----------------------------
(***************************************************************************)
(* What the overlap experiment promises of each of its passes: the blocks  *)
(* are summed one after the other, each sum is of the right block, and the *)
(* program reports success only after every pass summed every block.  It   *)
(* may fail, or be interrupted, at any time before that.                   *)
(***************************************************************************)
EXTENDS Naturals

CONSTANTS Blocks, Passes, Zero

VARIABLES pass, sums, outcome

vars == <<pass, sums, outcome>>

Block == 0 .. Blocks - 1

AllSummed == \A b \in Block : sums[b] = b

Init ==
    /\ pass = 1
    /\ sums = [b \in Block |-> Zero]
    /\ outcome = "running"

SumNext ==
    \E b \in Block :
        /\ sums[b] = Zero
        /\ \A a \in 0 .. b - 1 : sums[a] = a
        /\ sums' = [sums EXCEPT ![b] = b]
        /\ UNCHANGED <<pass, outcome>>

NextPass ==
    /\ outcome = "running" /\ pass < Passes /\ AllSummed
    /\ pass' = pass + 1
    /\ sums' = [b \in Block |-> Zero]
    /\ UNCHANGED outcome

Succeed ==
    /\ outcome = "running" /\ pass = Passes /\ AllSummed
    /\ outcome' = "ok"
    /\ UNCHANGED <<pass, sums>>

GiveUp ==
    /\ outcome = "running"
    /\ outcome' \in {"failed", "interrupted"}
    /\ UNCHANGED <<pass, sums>>

Next == SumNext \/ NextPass \/ Succeed \/ GiveUp

Spec == Init /\ [][Next]_vars
=============================================================================
