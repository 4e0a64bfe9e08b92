---------------------------- MODULE MCRunManager ----------------------------
(* RunManager with a preset of one arm and one of two.                      *)
EXTENDS RunManager, TLC

CONSTANTS one, two

Arms1And2 == one :> 1 @@ two :> 2
=============================================================================
