--------------------------- MODULE UncachedExperts ---------------------------
(***************************************************************************)
(* What mul_mat_id promises when every expert's weights are in device      *)
(* memory: the tokens of a batch are computed in the order they were       *)
(* submitted, each with exactly the experts its router chose.  MoeCache    *)
(* implements this specification with fewer slots than experts.            *)
(***************************************************************************)
EXTENDS Naturals, Sequences

CONSTANTS Tokens,   (* what a token asks for: tuples of experts              *)
          NoToken   (* the result before the first kernel                    *)

VARIABLES pending,  (* tokens submitted and not computed, oldest first       *)
          result    (* the experts the last kernel multiplied with           *)

vars == <<pending, result>>

Init == /\ pending = <<>>
        /\ result = NoToken

(* A call appends its batch; the tokens submitted before keep their order.  *)
Submit == /\ Len(pending') > Len(pending)
          /\ \A i \in 1 .. Len(pending') :
               IF i <= Len(pending) THEN pending'[i] = pending[i]
                                    ELSE pending'[i] \in Tokens
          /\ UNCHANGED result

Compute == /\ pending # <<>>
           /\ result' = Head(pending)
           /\ pending' = Tail(pending)

Next == Submit \/ Compute

Safety == Init /\ [][Next]_vars
Spec == Safety /\ WF_vars(Compute)
=============================================================================
